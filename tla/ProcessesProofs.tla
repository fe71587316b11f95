--------------------------- MODULE ProcessesProofs ---------------------------
(***************************************************************************)
(* What runs outside fxrs, for any number of jobs, sessions, processes and *)
(* clients.  A background job that is said to have ended has ended, and a  *)
(* tree that was stopped is gone, whatever commands overlap and whoever is *)
(* killed; a terminal session whose child and host live is not called lost *)
(* while one process runs at a time; and a command is given up only while  *)
(* something of it can go on.                                              *)
(***************************************************************************)
EXTENDS MCProcesses, SequenceTheorems, NaturalsInduction, WellFoundedInduction, TLAPS

-----------------------------------------------------------------------------
(* Background: the records.                                                *)

Shell(j) == Process(j, "shell")
Operations == {"start", "stop", "stop_tree"}
Stages == {"idle", "loaded", "open", "wait", "kill", "save"}

Records == {NoRecord, Running} \cup [status : {"exited", "failed"}, code : {"none"} \cup Codes]
Registries == [Jobs -> Records]

\* A code is the shell's if it wrote one, or the job printed a line like it; what
\* is found in the log of a job that prints lines of text is what the shell wrote.
Honest(found, j) ==
  /\ found = "own" => j \in marked
  /\ found = "other" => j \in unruly
  /\ j \in marked /\ j \notin unruly => found = "own"

LogsHonest == \A j \in Jobs : Honest(logs[j], j)

\* What a registry says is so: each job was launched, and one that ended has no
\* shell any more and an honest code.
True(r) ==
  \A j \in Jobs : Known(r, j) =>
    /\ Shell(j) \in forked
    /\ ~IsRunning(r, j) => ~Lives(j, "shell") /\ Honest(r[j].code, j)

\* What a command holds by the stage it is in.  One that kills holds whoever is
\* left of what it saw; no shell, and no member of a group that it saw led, lives
\* that was not sent the signal.
Holds(x) == x.op \in Operations /\ x.job \in Jobs /\ x.copy \in Registries /\ True(x.copy)

Stopping(x) == x.op \in {"stop", "stop_tree"} /\ IsRunning(x.copy, x.job)

Watches(x) == x.targets \subseteq forked

Strikes(x) ==
  /\ Lives(x.job, "shell") => Shell(x.job) \in x.killed
  /\ x.op = "stop_tree" =>
       /\ x.targets \cap alive \subseteq x.killed
       /\ x.leads /\ Lives(x.job, "member") => Process(x.job, "member") \in x.killed

Sound(x) ==
  /\ x.at \in Stages
  /\ x.at # "idle" => Holds(x)
  /\ x.at = "loaded" =>
       \A k \in x.dead : k \in Jobs /\ IsRunning(x.copy, k) /\ ~Lives(k, "shell")
  /\ x.at = "open" =>
       /\ x \in [at : {"open"}, op : Operations, job : Jobs, copy : Registries]
       /\ x.op = "start" \/ Stopping(x)
  /\ x.at \in {"wait", "kill"} => Stopping(x) /\ Watches(x)
  /\ x.at = "kill" => Strikes(x)

BInv ==
  /\ alive \subseteq forked /\ forked \subseteq [job : Jobs, role : Roles]
  /\ logs \in [Jobs -> Logs] /\ LogsHonest
  /\ registry \in Registries /\ True(registry)
  /\ cmd = [c \in Clients |-> cmd[c]] /\ \A c \in Clients : Sound(cmd[c])

-----------------------------------------------------------------------------
(* Background: what the operating system may do to what is held.           *)

\* Nobody comes back, a shell that is gone writes nothing, and a shell that was
\* sent SIGKILL forks nobody.
OsGrows ==
  /\ forked \subseteq forked'
  /\ \A x \in forked : x \in alive' => x \in alive
  /\ \A j \in Jobs : j \in marked' /\ j \notin marked => Lives(j, "shell")
  /\ \A j \in Jobs : j \in marked => j \in marked'
  /\ \A j \in Jobs : j \in unruly => j \in unruly'
  /\ \A j \in Jobs : Lives(j, "member")' /\ ~Lives(j, "member") =>
       Lives(j, "shell") /\ ~Doomed(Shell(j))

LEMMA TrueStays ==
  ASSUME OsGrows, NEW r, True(r)
  PROVE  True(r)'
<1> SUFFICES ASSUME NEW j \in Jobs, Known(r, j)
             PROVE  /\ Shell(j) \in forked'
                    /\ ~IsRunning(r, j) => ~Lives(j, "shell")' /\ Honest(r[j].code, j)'
  BY DEF True, Shell, Process, Known, IsRunning, Honest
<1>1. Shell(j) \in forked /\ (~IsRunning(r, j) => ~Lives(j, "shell") /\ Honest(r[j].code, j))
  BY DEF True
<1>2. Lives(j, "shell")' => Lives(j, "shell")
  BY <1>1 DEF OsGrows, Lives, Shell
<1>3. ~Lives(j, "shell") /\ Honest(r[j].code, j) => Honest(r[j].code, j)'
  BY DEF OsGrows, Honest
<1>4. Shell(j) \in forked'
  BY <1>1 DEF OsGrows
<1> QED BY <1>1, <1>2, <1>3, <1>4

\* What a command holds stays true while it waits.
LEMMA StillSound ==
  ASSUME OsGrows, NEW x, Sound(x), NEW c \in Clients, cmd[c] = x
  PROVE  Sound(x)'
<1>1. x.at # "idle" => Holds(x)'
  BY TrueStays DEF Sound, Holds
<1>2. x.at # "idle" => \A j \in Jobs : IsRunning(x.copy, j) /\ Lives(j, "shell")' => Lives(j, "shell")
  BY DEF Sound, Holds, True, IsRunning, OsGrows, Lives, Shell
<1>3. x.at = "loaded" =>
        \A k \in x.dead : k \in Jobs /\ IsRunning(x.copy, k) /\ ~Lives(k, "shell")'
  BY <1>2 DEF Sound
<1>4. x.at \in {"wait", "kill"} => Watches(x)'
  BY DEF Sound, Watches, OsGrows, Shell, Process
<1>5. ASSUME x.at = "kill" PROVE Strikes(x)'
  <2>1. Strikes(x) /\ Watches(x) /\ Stopping(x) /\ x.job \in Jobs
    BY <1>5 DEF Sound, Holds
  <2>2. Lives(x.job, "shell")' => Lives(x.job, "shell")
    BY <1>2, <1>5, <2>1 DEF Stopping
  <2>3. Lives(x.job, "shell") => Doomed(Shell(x.job))
    BY <1>5, <2>1 DEF Strikes, Doomed
  <2>4. Lives(x.job, "member")' => Lives(x.job, "member")
    BY <2>1, <2>3 DEF OsGrows
  <2>5. x.targets \cap alive' \subseteq x.targets \cap alive
    BY <2>1 DEF Watches, OsGrows
  <2> QED BY <2>1, <2>2, <2>4, <2>5 DEF Strikes, Shell, Process
<1>6. (x.at \in {"wait", "kill"} => Stopping(x)) /\ (x.at = "open" => x.op = "start" \/ Stopping(x))
  BY DEF Sound
<1> QED BY <1>1, <1>3, <1>4, <1>5, <1>6 DEF Sound, Stopping, IsRunning, Known

-----------------------------------------------------------------------------
(* Background: the steps.                                                  *)

LEMMA BInit == Init => BInv
<1> SUFFICES ASSUME Init PROVE BInv
  OBVIOUS
<1>1. registry \in Registries /\ True(registry)
  BY DEF Init, Registries, Records, True, Known
<1>2. \A c \in Clients : cmd[c].at = "idle"
  BY DEF Init, NoCommand
<1>3. cmd = [c \in Clients |-> cmd[c]]
  BY DEF Init
<1>4. logs \in [Jobs -> Logs] /\ LogsHonest
  BY DEF Init, Logs, LogsHonest, Honest
<1>5. alive = {} /\ forked = {}
  BY DEF Init
<1>6. \A c \in Clients : Sound(cmd[c])
  BY <1>2 DEF Sound, Stages
<1> QED BY <1>1, <1>3, <1>4, <1>5, <1>6 DEF BInv

\* A step of the operating system leaves what is held true.
LEMMA OsStep ==
  ASSUME BInv, OsGrows, UNCHANGED <<registry, cmd>>, (logs \in [Jobs -> Logs])', LogsHonest',
         alive' \subseteq forked', forked' \subseteq [job : Jobs, role : Roles]
  PROVE  BInv'
<1>1. True(registry)'
  <2> PICK r : r = registry
    OBVIOUS
  <2> True(r)'
    BY TrueStays DEF BInv
  <2> QED BY DEF True, Known, IsRunning
<1>2. ASSUME NEW c \in Clients PROVE Sound(cmd[c])'
  <2> PICK x : x = cmd[c]
    OBVIOUS
  <2> Sound(x)'
    BY StillSound DEF BInv
  <2> x = cmd[c]'
    OBVIOUS
  <2> QED OBVIOUS
<1> QED BY <1>1, <1>2 DEF BInv

\* What is written to one log leaves the others alone.
LEMMA OneLog ==
  ASSUME BInv, NEW j \in Jobs, NEW l \in Logs, logs' = [logs EXCEPT ![j] = l], Honest(l, j)',
         \A k \in Jobs : k # j => (k \in marked' <=> k \in marked) /\ (k \in unruly' <=> k \in unruly)
  PROVE  (logs \in [Jobs -> Logs])' /\ LogsHonest'
<1>1. (logs \in [Jobs -> Logs])' /\ logs'[j] = l /\ \A k \in Jobs : k # j => logs'[k] = logs[k]
  BY DEF BInv
<1>2. ASSUME NEW k \in Jobs, k # j PROVE Honest(logs[k], k)'
  BY <1>1, <1>2 DEF BInv, LogsHonest, Honest
<1>3. Honest(logs[j], j)'
  BY <1>1 DEF Honest
<1> QED BY <1>1, <1>2, <1>3 DEF LogsHonest

LEMMA StepWriteMarker ==
  ASSUME BInv, NEW j \in Jobs, WriteMarker(j)
  PROVE  BInv'
<1>1. OsGrows
  BY DEF WriteMarker, OsGrows, Lives
<1>2. PICK l \in {"lines"} \cup Codes :
        /\ l = "lines" <=> logs[j] = "muddle"
        /\ l = "other" => logs[j] = "other"
        /\ logs' = [logs EXCEPT ![j] = l]
  BY DEF WriteMarker
<1>3. /\ marked' = marked \cup {j}
      /\ unruly' = IF logs[j] = "lines" THEN unruly ELSE unruly \cup {j}
  BY DEF WriteMarker
<1>4. l \in Logs
  BY DEF Logs
<1>5. j \in unruly' <=> j \in unruly \/ logs[j] # "lines"
  BY <1>3
<1>6. Honest(l, j)'
  <2>1. l = "other" => j \in unruly'
    BY <1>2, <1>5
  <2>2. l = "lines" => j \in unruly'
    BY <1>2, <1>5
  <2>3. j \in marked'
    BY <1>3
  <2> QED BY <1>2, <2>1, <2>2, <2>3 DEF Honest, Codes
<1>7. (logs \in [Jobs -> Logs])' /\ LogsHonest'
  BY <1>2, <1>3, <1>4, <1>6, OneLog
<1> QED BY <1>1, <1>7, OsStep DEF WriteMarker, BInv

LEMMA StepPrints ==
  ASSUME BInv, NEW j \in Jobs, NEW l \in Logs \ {"own"}, Prints(j, l)
  PROVE  BInv'
<1>1. OsGrows
  BY DEF Prints, OsGrows, Lives
<1>2. /\ marked' = marked /\ logs' = [logs EXCEPT ![j] = l]
      /\ unruly' = IF l = "other" \/ j \in marked THEN unruly \cup {j} ELSE unruly
  BY DEF Prints
<1>3. Honest(l, j)'
  BY <1>2 DEF Honest
<1>4. (logs \in [Jobs -> Logs])' /\ LogsHonest'
  BY <1>2, <1>3, OneLog
<1> QED BY <1>1, <1>4, OsStep DEF Prints, BInv

\* The logs stay honest when nobody writes to them.
LEMMA LogsStay ==
  ASSUME BInv, UNCHANGED <<marked, logs, unruly>>
  PROVE  (logs \in [Jobs -> Logs])' /\ LogsHonest'
BY DEF BInv, LogsHonest, Honest

LEMMA StepExit ==
  ASSUME BInv, NEW x, Exit(x)
  PROVE  BInv'
<1>1. OsGrows
  BY DEF Exit, OsGrows, Lives
<1>2. (logs \in [Jobs -> Logs])' /\ LogsHonest'
  BY LogsStay DEF Exit
<1> QED BY <1>1, <1>2, OsStep DEF Exit, BInv

LEMMA StepFork ==
  ASSUME BInv, NEW j \in Jobs,
         Fork(j, "shell", "member") \/ Fork(j, "member", "escaped") \/ ReusePid(j)
  PROVE  BInv'
<1>1. PICK y \in [job : Jobs, role : Roles] :
        /\ y \notin forked /\ alive' = alive \cup {y} /\ forked' = forked \cup {y}
        /\ y.role = "member" => Lives(y.job, "shell") /\ ~Doomed(Shell(y.job))
  BY DEF Fork, ReusePid, Process, Roles, Shell
<1>2. UNCHANGED <<marked, logs, unruly, registry, cmd>>
  BY DEF Fork, ReusePid
<1>4. (logs \in [Jobs -> Logs])' /\ LogsHonest'
  BY <1>2, LogsStay
<1>3. OsGrows
  <2>1. ASSUME NEW k \in Jobs, Lives(k, "member")', ~Lives(k, "member")
        PROVE  Lives(k, "shell") /\ ~Doomed(Shell(k))
    <3>1. y = Process(k, "member")
      BY <1>1, <2>1 DEF Lives, Process
    <3> QED BY <1>1, <3>1 DEF Process
  <2> QED BY <1>1, <1>2, <2>1 DEF OsGrows
<1> QED BY <1>1, <1>2, <1>3, <1>4, OsStep DEF BInv

\* A step of a client changes nothing for the others.
LEMMA ClientStep ==
  ASSUME BInv, OsGrows, NEW c \in Clients, NEW y, UNCHANGED <<marked, logs, unruly>>,
         alive' \subseteq forked', forked' \subseteq [job : Jobs, role : Roles],
         cmd' = [cmd EXCEPT ![c] = y], Sound(y)',
         registry' \in Registries, True(registry)'
  PROVE  BInv'
<1>1. ASSUME NEW d \in Clients PROVE Sound(cmd[d])'
  <2>1. CASE d = c
    <3> cmd'[c] = y
      BY DEF BInv
    <3> QED BY <2>1
  <2>2. CASE d # c
    <3> PICK x : x = cmd[d]
      OBVIOUS
    <3> Sound(x)'
      BY StillSound DEF BInv
    <3> x = cmd'[d]
      BY <2>2 DEF BInv
    <3> QED OBVIOUS
  <2> QED BY <2>1, <2>2
<1>2. cmd' = [d \in Clients |-> cmd'[d]]
  BY DEF BInv
<1>3. (logs \in [Jobs -> Logs])' /\ LogsHonest'
  BY LogsStay
<1> QED BY <1>1, <1>2, <1>3 DEF BInv

\* The registry stays true when it is not written.
LEMMA FileStays ==
  ASSUME BInv, OsGrows, registry' = registry
  PROVE  registry' \in Registries /\ True(registry)'
<1> PICK r : r = registry
  OBVIOUS
<1> True(r)'
  BY TrueStays DEF BInv
<1> QED BY DEF True, Known, IsRunning, BInv

\* A client that only looks.
LEMMA QuietStep ==
  ASSUME BInv, UNCHANGED <<os, registry>>, NEW c \in Clients, NEW y,
         cmd' = [cmd EXCEPT ![c] = y], Sound(y)
  PROVE  BInv'
<1>1. OsGrows
  BY DEF os, OsGrows, Lives
<1>2. Sound(y)'
  BY DEF os, Sound, Holds, True, Honest, Known, IsRunning, Lives, Stopping, Watches, Strikes
<1> QED BY <1>1, <1>2, ClientStep, FileStays DEF BInv, os

LEMMA StepOpen ==
  ASSUME BInv, NEW c \in Clients, NEW op \in Operations, NEW j \in Jobs, Open(c, op, j)
  PROVE  BInv'
<1> DEFINE dead == {k \in Jobs : IsRunning(registry, k) /\ ~PidAlive(k)}
           y == [at |-> "loaded", op |-> op, job |-> j, copy |-> registry, dead |-> dead]
<1>1. \A k \in dead : k \in Jobs /\ IsRunning(registry, k) /\ ~Lives(k, "shell")
  BY DEF PidAlive, Holder, Lives, Process
<1>2. Holds(y)
  BY DEF Holds, BInv
<1>3. Sound(y)
  <2>1. y.at = "loaded" /\ y.dead = dead /\ y.copy = registry
    OBVIOUS
  <2> HIDE DEF y, dead
  <2> QED BY <1>1, <1>2, <2>1 DEF Sound, Stages
<1>4. cmd' = [cmd EXCEPT ![c] = y] /\ UNCHANGED <<os, registry>>
  BY DEF Open
<1> HIDE DEF y
<1> QED BY <1>3, <1>4, QuietStep

\* What is read in a log is honest.
LEMMA HonestCode ==
  ASSUME BInv, NEW j \in Jobs
  PROVE  ExitCode(j) \in {"none"} \cup Codes /\ Honest(ExitCode(j), j)
BY DEF BInv, LogsHonest, Honest, ExitCode, Codes, Logs

LEMMA StepReconcile ==
  ASSUME BInv, NEW c \in Clients, Reconcile(c)
  PROVE  BInv'
<1> PICK x : x = cmd[c]
  OBVIOUS
<1> DEFINE copy == Reconciled(x.copy, x.dead)
<1>1. Holds(x) /\ \A k \in x.dead : k \in Jobs /\ IsRunning(x.copy, k) /\ ~Lives(k, "shell")
  BY DEF BInv, Sound, Reconcile
<1>2. copy \in Registries
  <2>1. \A k \in Jobs : HowItEnded(k) \in Records
    BY DEF HowItEnded, ExitCode, Ended, Records
  <2> QED BY <1>1, <2>1 DEF Reconciled, Registries, Holds
<1>3. True(copy)
  <2> SUFFICES ASSUME NEW k \in Jobs, Known(copy, k)
               PROVE  /\ Shell(k) \in forked
                      /\ ~IsRunning(copy, k) => ~Lives(k, "shell") /\ Honest(copy[k].code, k)
    BY DEF True
  <2>1. CASE k \in x.dead
    <3>1. copy[k].code = ExitCode(k)
      BY <2>1 DEF Reconciled, HowItEnded, Ended
    <3> QED BY <1>1, <2>1, <3>1, HonestCode DEF Holds, True, IsRunning
  <2>2. CASE k \notin x.dead
    <3>1. copy[k] = x.copy[k]
      BY <2>2 DEF Reconciled
    <3> QED BY <1>1, <3>1 DEF Holds, True, IsRunning, Known
  <2> QED BY <2>1, <2>2
<1>4. PICK r : r = copy
  OBVIOUS
<1> DEFINE y == [at |-> "open", op |-> x.op, job |-> x.job, copy |-> r]
<1>5. ASSUME x.op = "start" \/ IsRunning(r, x.job) PROVE Sound(y)
  <2>1. /\ y.at = "open" /\ y.op = x.op /\ y.job = x.job /\ y.copy = r
        /\ y \in [at : {"open"}, op : Operations, job : Jobs, copy : Registries]
    BY <1>1, <1>2, <1>4 DEF Holds
  <2> HIDE DEF y
  <2>2. Holds(y)
    BY <1>1, <1>2, <1>3, <1>4, <2>1 DEF Holds
  <2>3. y.op = "start" \/ Stopping(y)
    BY <1>1, <1>5, <2>1 DEF Holds, Stopping, Operations
  <2> QED BY <2>1, <2>2, <2>3 DEF Sound, Stages
<1>6. Sound(NoCommand)
  BY DEF Sound, NoCommand, Stages
<1>7. UNCHANGED <<os, registry>>
  BY DEF Reconcile
<1>8. cmd' = [cmd EXCEPT ![c] = IF x.op # "start" /\ ~IsRunning(r, x.job) THEN NoCommand ELSE y]
  BY <1>4 DEF Reconcile
<1> HIDE DEF y
<1>9. PICK z : z = IF x.op # "start" /\ ~IsRunning(r, x.job) THEN NoCommand ELSE y
  OBVIOUS
<1>10. Sound(z)
  BY <1>5, <1>6, <1>9
<1> QED BY <1>7, <1>8, <1>9, <1>10, QuietStep

\* A job is launched once: nothing that is held speaks of it.
LEMMA StepLaunch ==
  ASSUME BInv, NEW c \in Clients, Launch(c)
  PROVE  BInv'
<1> PICK x : x = cmd[c]
  OBVIOUS
<1>1. /\ Holds(x) /\ x \in [at : {"open"}, op : Operations, job : Jobs, copy : Registries]
  BY DEF BInv, Sound, Launch
<1> PICK r : r = [x.copy EXCEPT ![x.job] = Running]
  OBVIOUS
<1> PICK y : y = [x EXCEPT !.at = "save", !.copy[x.job] = Running]
  OBVIOUS
<1>2. /\ cmd' = [cmd EXCEPT ![c] = y]
      /\ y.at = "save" /\ y.op = x.op /\ y.job = x.job /\ y.copy = r
  <2>1. cmd' = [cmd EXCEPT ![c] = y]
    BY DEF Launch, BInv
  <2>2. y.at = "save" /\ y.op = x.op /\ y.job = x.job
    BY <1>1
  <2>3. y.copy = r
    BY <1>1
  <2> QED BY <2>1, <2>2, <2>3
<1>3. /\ Shell(x.job) \notin forked /\ UNCHANGED <<marked, logs, unruly, registry>>
      /\ alive' = alive \cup {Shell(x.job)} /\ forked' = forked \cup {Shell(x.job)}
  BY DEF Launch, Shell
<1>4. Shell(x.job) \in [job : Jobs, role : Roles]
  BY <1>1 DEF Shell, Process, Roles
<1>5. OsGrows
  <2>1. \A j \in Jobs : Process(j, "member") # Shell(x.job)
    BY DEF Process, Shell
  <2> QED BY <1>3, <2>1 DEF OsGrows, Lives
<1>6. r \in Registries
  BY <1>1 DEF Registries, Records
<1>7. True(x.copy)'
  <2> PICK s : s = x.copy
    OBVIOUS
  <2> True(s)'
    BY <1>1, <1>5, TrueStays DEF Holds
  <2> QED BY DEF True, Known, IsRunning
<1>8. True(r)'
  <2> SUFFICES ASSUME NEW k \in Jobs, Known(r, k)
               PROVE  /\ Shell(k) \in forked'
                      /\ ~IsRunning(r, k) => ~Lives(k, "shell")' /\ Honest(r[k].code, k)'
    BY DEF True, Known, IsRunning, Shell, Process, Honest
  <2>1. CASE k = x.job
    <3>1. r[k] = Running
      BY <1>1, <2>1 DEF Registries
    <3>2. IsRunning(r, k)
      BY <3>1 DEF IsRunning, Running
    <3> QED BY <1>3, <2>1, <3>2
  <2>2. CASE k # x.job
    <3>1. r[k] = x.copy[k]
      BY <1>1, <2>2 DEF Registries
    <3> QED BY <1>7, <3>1 DEF True, Known, IsRunning, Shell, Process, Honest
  <2> QED BY <2>1, <2>2
<1>9. Sound(y)'
  <2>1. y.at = "save" /\ y.op \in Operations /\ y.job \in Jobs /\ y.copy = r
    BY <1>1, <1>2
  <2> QED BY <1>6, <1>8, <2>1 DEF Sound, Holds, Stages, True, Known, IsRunning
<1>10. alive' \subseteq forked' /\ forked' \subseteq [job : Jobs, role : Roles]
  BY <1>3, <1>4 DEF BInv
<1>11. registry' \in Registries /\ True(registry)'
  BY <1>3, <1>5, FileStays
<1> QED BY <1>2, <1>3, <1>5, <1>9, <1>10, <1>11, ClientStep

LEMMA StepTerminate ==
  ASSUME BInv, NEW c \in Clients, Terminate(c)
  PROVE  BInv'
<1> PICK x : x = cmd[c]
  OBVIOUS
<1>1. Holds(x) /\ Stopping(x)
  BY DEF BInv, Sound, Terminate, Operations
<1>2. PICK leads \in BOOLEAN, tree \in {{}, Descendants(x.job)} :
        cmd' = [cmd EXCEPT ![c] =
          [at |-> "wait", op |-> x.op, job |-> x.job, copy |-> x.copy, leads |-> leads,
           targets |-> Holder(x.job) \cup tree]]
  BY DEF Terminate
<1> DEFINE looked == Holder(x.job) \cup tree
           y == [at |-> "wait", op |-> x.op, job |-> x.job, copy |-> x.copy, leads |-> leads,
                 targets |-> looked]
<1>3. looked \subseteq alive
  BY DEF Holder, Descendants
<1>4. Sound(y)
  <2>1. /\ y.at = "wait" /\ y.op = x.op /\ y.job = x.job /\ y.copy = x.copy
        /\ y.targets = looked
    OBVIOUS
  <2> HIDE DEF y, looked
  <2>2. Holds(y) /\ Stopping(y)
    BY <1>1, <2>1 DEF Holds, Stopping
  <2>3. Watches(y)
    BY <1>3, <2>1 DEF Watches, BInv
  <2> QED BY <2>1, <2>2, <2>3 DEF Sound, Stages
<1>5. UNCHANGED <<os, registry>>
  BY DEF Terminate
<1>6. cmd' = [cmd EXCEPT ![c] = y]
  BY <1>2
<1> HIDE DEF y
<1> QED BY <1>4, <1>5, <1>6, QuietStep

LEMMA StepKill ==
  ASSUME BInv, NEW c \in Clients, Kill(c)
  PROVE  BInv'
<1> PICK x : x = cmd[c]
  OBVIOUS
<1>1. Holds(x) /\ Stopping(x) /\ Watches(x)
  BY DEF BInv, Sound, Kill
<1> DEFINE y == [at |-> "kill", op |-> x.op, job |-> x.job, copy |-> x.copy, leads |-> x.leads,
                 targets |-> x.targets, killed |-> Victims(c)]
<1>2. Lives(x.job, "shell") => Shell(x.job) \in Victims(c)
  <2>1. Lives(x.job, "shell") => Shell(x.job) \in Holder(x.job)
    BY DEF Lives, Holder, Shell, Process
  <2> QED BY <2>1 DEF Victims, PidAlive
<1>3. ASSUME x.op = "stop_tree"
      PROVE  /\ x.targets \cap alive \subseteq Victims(c)
             /\ x.leads /\ Lives(x.job, "member") => Process(x.job, "member") \in Victims(c)
  <2>1. Lives(x.job, "member") => Process(x.job, "member") \in Group(x.job)
    BY DEF Lives, Group, Process
  <2> QED BY <1>1, <1>3, <2>1 DEF Victims, Watches
<1>4. Sound(y)
  <2>1. /\ y.at = "kill" /\ y.op = x.op /\ y.job = x.job /\ y.copy = x.copy
        /\ y.leads = x.leads /\ y.targets = x.targets /\ y.killed = Victims(c)
    OBVIOUS
  <2> HIDE DEF y
  <2>2. Holds(y) /\ Stopping(y) /\ Watches(y)
    BY <1>1, <2>1 DEF Holds, Stopping, Watches
  <2>3. Strikes(y)
    BY <1>2, <1>3, <2>1 DEF Strikes
  <2> QED BY <2>1, <2>2, <2>3 DEF Sound, Stages
<1>5. cmd' = [cmd EXCEPT ![c] = y] /\ UNCHANGED <<os, registry>>
  BY DEF Kill
<1> HIDE DEF y
<1> QED BY <1>4, <1>5, QuietStep

\* What a command that killed may report: the shell is gone.
LEMMA StepConclude ==
  ASSUME BInv, NEW c \in Clients, Conclude(c)
  PROVE  BInv'
<1> PICK x : x = cmd[c]
  OBVIOUS
<1>1. Holds(x) /\ Stopping(x) /\ Strikes(x) /\ x.killed \cap alive = {}
  BY DEF BInv, Sound, Conclude
<1>2. x.job \in Jobs /\ x.copy \in Registries /\ Known(x.copy, x.job)
  BY <1>1 DEF Holds, Stopping, IsRunning
<1>3. ~Lives(x.job, "shell") /\ Shell(x.job) \in forked
  BY <1>1, <1>2 DEF Strikes, Lives, Shell, Holds, True
<1>4. PICK found : found = ExitCode(x.job)
  OBVIOUS
<1> PICK e : e = Ended("exited", found)
  OBVIOUS
<1>5. e \in Records /\ e.code = found /\ Honest(found, x.job)
  <2>1. found \in {"none"} \cup Codes /\ Honest(found, x.job)
    BY <1>2, <1>4, HonestCode
  <2> QED BY <2>1 DEF Ended, Records
<1> PICK r : r = [x.copy EXCEPT ![x.job] = e]
  OBVIOUS
<1>6. r \in Registries /\ r[x.job] = e /\ \A k \in Jobs : k # x.job => r[k] = x.copy[k]
  BY <1>2, <1>5 DEF Registries
<1>7. True(r)
  BY <1>1, <1>3, <1>5, <1>6 DEF True, Holds, Known, IsRunning
<1> DEFINE y == [at |-> "save", op |-> x.op, job |-> x.job, copy |-> r]
<1>8. Sound(y)
  <2>1. y.at = "save" /\ y.op = x.op /\ y.job = x.job /\ y.copy = r
    OBVIOUS
  <2> HIDE DEF y
  <2> QED BY <1>1, <1>6, <1>7, <2>1 DEF Sound, Holds, Stages
<1>9. UNCHANGED <<os, registry>>
  BY DEF Conclude
<1>10. cmd' = [cmd EXCEPT ![c] = y]
  BY <1>4 DEF Conclude
<1> HIDE DEF y
<1> QED BY <1>8, <1>9, <1>10, QuietStep

LEMMA StepSave ==
  ASSUME BInv, NEW c \in Clients, Save(c)
  PROVE  BInv'
<1> PICK x : x = cmd[c]
  OBVIOUS
<1>1. x.copy \in Registries /\ True(x.copy)
  BY DEF BInv, Sound, Save, Holds
<1>2. OsGrows
  BY DEF Save, os, OsGrows, Lives
<1>3. registry' \in Registries /\ True(registry)'
  <2>1. registry' = x.copy /\ UNCHANGED os
    BY DEF Save
  <2> QED BY <1>1, <2>1 DEF True, Honest, Known, IsRunning, os, Lives
<1>4. Sound(NoCommand)'
  BY DEF Sound, NoCommand, Stages
<1>5. cmd' = [cmd EXCEPT ![c] = NoCommand]
  BY DEF Save
<1> QED BY <1>2, <1>3, <1>4, <1>5, ClientStep DEF BInv, Save, os

LEMMA StepCrash ==
  ASSUME BInv, NEW c \in Clients, Crash(c)
  PROVE  BInv'
<1>1. Sound(NoCommand)
  BY DEF Sound, NoCommand, Stages
<1> QED BY <1>1, QuietStep DEF Crash

LEMMA BStep == BInv /\ [Next]_vars => BInv'
<1> SUFFICES ASSUME BInv, [Next]_vars PROVE BInv'
  OBVIOUS
<1>1. ASSUME NEW j \in Jobs,
             \/ WriteMarker(j) \/ ReusePid(j) \/ \E l \in Logs \ {"own"} : Prints(j, l)
             \/ Fork(j, "shell", "member") \/ Fork(j, "member", "escaped")
             \/ \E role \in Roles : Exit(Process(j, role))
      PROVE  BInv'
  BY <1>1, StepWriteMarker, StepPrints, StepFork, StepExit
<1>2. ASSUME NEW c \in Clients,
             \/ \E op \in {"start", "stop", "stop_tree"}, j \in Jobs : Open(c, op, j)
             \/ Reconcile(c) \/ Launch(c) \/ Terminate(c) \/ Kill(c) \/ Conclude(c)
             \/ Save(c) \/ Crash(c)
      PROVE  BInv'
  BY <1>2, StepOpen, StepReconcile, StepLaunch, StepTerminate, StepKill, StepConclude,
     StepSave, StepCrash DEF Operations
<1>3. CASE UNCHANGED vars
  <2>1. OsGrows
    BY <1>3 DEF vars, os, OsGrows, Lives
  <2>2. (logs \in [Jobs -> Logs])' /\ LogsHonest'
    BY <1>3, LogsStay DEF vars, os
  <2> QED BY <1>3, <2>1, <2>2, OsStep DEF vars, os, BInv
<1> QED BY <1>1, <1>2, <1>3 DEF Next

-----------------------------------------------------------------------------
(* Background: the theorems.                                               *)

LEMMA BAlways == Spec => []BInv
BY BInit, BStep, PTL DEF Spec

\* Whatever commands overlap, whoever is killed and whatever pid is used again:
\* what the registry and every copy of it say of a job that ended is so.
THEOREM EndedJobsEnded == Spec => []EndedIsTrue
<1>1. BInv => EndedIsTrue
  <2> SUFFICES ASSUME BInv, NEW r \in Copies \cup {registry}, NEW j \in Jobs,
                      Known(r, j) /\ ~IsRunning(r, j)
               PROVE  /\ ~Lives(j, "shell") /\ (r[j].code = "own" => j \in marked)
                      /\ r[j].code = "other" => j \in unruly
                      /\ j \notin unruly /\ j \in marked => r[j].code = "own"
    BY DEF EndedIsTrue
  <2>1. True(r)
    BY DEF BInv, Copies, Sound, Holds
  <2> QED BY <2>1 DEF True, Honest
<1> QED BY <1>1, BAlways, PTL

\* When stop_tree reports its end, nobody whom it saw is left, nor anybody of a
\* group that it saw led by its shell.
THEOREM TreesAreGone == Spec => TreeIsGone
<1>1. ASSUME BInv, [Next]_vars, NEW c \in Clients,
             cmd[c].at = "kill", cmd'[c].at = "save", cmd[c].op = "stop_tree"
      PROVE  /\ cmd[c].targets \cap alive = {}
             /\ cmd[c].leads /\ Process(cmd[c].job, "shell") \in cmd[c].targets =>
                  Group(cmd[c].job) \subseteq {Process(cmd[c].job, "stranger")}
  <2> PICK x : x = cmd[c]
    OBVIOUS
  <2>1. Strikes(x) /\ alive \subseteq [job : Jobs, role : Roles]
    BY <1>1 DEF BInv, Sound
  <2>2. x.killed \cap alive = {}
    <3>1. cmd'[c] # cmd[c]
      BY <1>1
    <3>2. \A d \in Clients : \A y : cmd' = [cmd EXCEPT ![d] = y] => d = c /\ cmd'[c] = y
      BY <1>1, <3>1 DEF BInv
    <3>3. CASE Conclude(c)
      BY <3>3 DEF Conclude
    <3>4. CASE UNCHANGED cmd
      BY <3>1, <3>4
    <3>5. ASSUME NEW d \in Clients,
                 \/ \E op \in {"start", "stop", "stop_tree"}, j \in Jobs : Open(d, op, j)
                 \/ Reconcile(d) \/ Launch(d) \/ Terminate(d) \/ Kill(d) \/ Conclude(d)
                 \/ Save(d) \/ Crash(d)
          PROVE  Conclude(c)
      <4>1. d = c
        BY <1>1, <3>1, <3>5 DEF BInv, Open, Reconcile, Launch, Terminate, Kill, Conclude, Save, Crash
      <4>2. ~Crash(c)
        BY <1>1, <3>2 DEF Crash, NoCommand
      <4> QED BY <1>1, <3>5, <4>1, <4>2 DEF Open, Reconcile, Launch, Terminate, Kill, Save
    <3> QED BY <1>1, <3>3, <3>4, <3>5
            DEF Next, vars, WriteMarker, Prints, ReusePid, Fork, Exit
  <2>3. x.targets \cap alive = {}
    BY <1>1, <2>1, <2>2 DEF Strikes
  <2>4. ASSUME x.leads, Shell(x.job) \in x.targets, NEW z \in Group(x.job)
        PROVE  z = Process(x.job, "stranger")
    <3>1. z \in [job : Jobs, role : Roles] /\ z \in alive /\ z.job = x.job
      BY <2>1 DEF Group
    <3>2. z = Process(x.job, z.role)
      BY <3>1 DEF Process
    <3>3. z.role # "shell" /\ z.role # "member"
      BY <1>1, <2>1, <2>2, <2>4, <3>1, <3>2 DEF Strikes, Lives, Shell
    <3> QED BY <3>2, <3>3 DEF Group
  <2> QED BY <2>3, <2>4 DEF Shell
<1>2. BInv /\ [Next]_vars =>
        [\A c \in Clients :
           cmd[c].at = "kill" /\ cmd'[c].at = "save" /\ cmd[c].op = "stop_tree" =>
             /\ cmd[c].targets \cap alive = {}
             /\ cmd[c].leads /\ Process(cmd[c].job, "shell") \in cmd[c].targets =>
                  Group(cmd[c].job) \subseteq {Process(cmd[c].job, "stranger")}]_vars
  BY <1>1
<1> QED BY <1>2, BAlways, PTL DEF Spec, TreeIsGone

-----------------------------------------------------------------------------
(* Terminal: the records, when one process runs at a time.                 *)

ChildStates == {"unborn", "runs", "closed", "dead", "reaped"}
Settled == {"exited", "lost"}
TerminalCommands ==
  [at : {"open", "save", "wait", "judge", "close"}, op : T!NeedsRunning \cup T!Spawning,
   id : Ids, copy : [Ids -> T!Status], exit : {NoCode, 0, 1}]

Unborn(i) == child[i] = "unborn"

\* The session of a command exists once the command has spawned it.
Begins(x) == x.at = "open" /\ x.op \in T!Spawning

\* What a command of process p may rely on: of what runs by its copy the process
\* has the handle, of what is lost by its copy nothing is left, and what was
\* settled is settled in its copy too.
Obeys(x, p) ==
  x.at # "idle" =>
    /\ p \in up /\ x \in TerminalCommands
    /\ Begins(x) <=> Unborn(x.id)
    /\ ~Begins(x) => x.copy[x.id] \in {"running", "exited"}
    /\ \A i \in Ids :
         /\ Unborn(i) => x.copy[i] = NoRecord
         /\ x.copy[i] = "running" => i \in handles[p]
         /\ x.copy[i] = "lost" /\ host[i] \in up => T!HasEnded(i)
         /\ file[i] \in Settled => x.copy[i] = file[i]

\* A session that runs by the file has its handle, unless the command that took
\* it away is about to say so.
Kept(i) ==
  file[i] = "running" /\ host[i] \in up /\ ~T!HasEnded(i) =>
    \/ i \in handles[host[i]]
    \/ command[host[i]].at = "save" /\ command[host[i]].copy[i] = "exited"

Sane(i) ==
  /\ Unborn(i) => file[i] = NoRecord
  /\ file[i] = "lost" /\ host[i] \in up => T!HasEnded(i)
  /\ Kept(i)

Shape ==
  /\ child \in [Ids -> ChildStates] /\ code \in [Ids -> {NoCode, 0, 1}]
  /\ handles \in [Procs -> SUBSET Ids] /\ file \in [Ids -> T!Status]
  /\ host \in [Ids -> Procs \cup {Nobody}]
  /\ up \subseteq started /\ started \subseteq Procs
  /\ command = [p \in Procs |-> command[p]]

Hosts == \A i \in Ids : host[i] \in started \cup {Nobody}
OnlyOne == \A p, q \in up : p = q

TInv ==
  /\ Shape /\ Hosts /\ OnlyOne
  /\ \A p \in Procs : Obeys(command[p], p)
  /\ \A i \in Ids : Sane(i)

LEMMA TInit ==
  ASSUME T!TerminalAssumption, T!Init
  PROVE  TInv
<1>1. Shape /\ Hosts /\ OnlyOne
  BY DEF T!Init, Shape, Hosts, OnlyOne, ChildStates, T!Status
<1>2. \A p \in Procs : command[p].at = "idle"
  BY DEF T!Init, T!NoCommand
<1>3. \A i \in Ids : file[i] = NoRecord /\ host[i] \notin up
  BY DEF T!Init
<1> QED BY <1>1, <1>2, <1>3, Zenon DEF TInv, Obeys, Sane, Kept, T!TerminalAssumption

-----------------------------------------------------------------------------
(* Terminal: the steps.                                                    *)

\* Children end and close their terminals, threads see it.
LEMMA ChildStep ==
  ASSUME TInv, UNCHANGED <<handles, host, started, up, file, command>>,
         child' \in [Ids -> ChildStates], code' \in [Ids -> {NoCode, 0, 1}],
         \A i \in Ids : /\ Unborn(i)' <=> Unborn(i)
                        /\ T!HasEnded(i) => T!HasEnded(i)'
  PROVE  TInv'
<1>1. Shape' /\ Hosts' /\ OnlyOne'
  BY DEF TInv, Shape, Hosts, OnlyOne
<1>2. ASSUME NEW p \in Procs PROVE Obeys(command[p], p)'
  <2> PICK x : x = command[p]
    OBVIOUS
  <2>1. Obeys(x, p)
    BY DEF TInv
  <2>2. x.at # "idle" => x.id \in Ids
    BY <2>1 DEF Obeys, TerminalCommands
  <2>3. Obeys(x, p)'
    BY <2>1, <2>2 DEF Obeys, Begins
  <2> QED BY <2>3
<1>3. ASSUME NEW i \in Ids PROVE Sane(i)'
  BY DEF TInv, Sane, Kept
<1> QED BY <1>1, <1>2, <1>3 DEF TInv

\* A process takes a step: nobody else is at work.
LEMMA ProcessStep ==
  ASSUME TInv, NEW p \in Procs, p \in up, UNCHANGED <<started, up>>, NEW y,
         command' = [command EXCEPT ![p] = y], Shape', Hosts', Obeys(y, p)',
         \A i \in Ids : Sane(i)'
  PROVE  TInv'
<1>1. command'[p] = y /\ \A q \in Procs : q # p => command'[q] = command[q]
  BY DEF TInv, Shape
<1>2. ASSUME NEW q \in Procs PROVE Obeys(command[q], q)'
  <2>1. CASE q = p
    BY <1>1, <2>1
  <2>2. CASE q # p
    <3>1. q \notin up
      BY <2>2 DEF TInv, OnlyOne
    <3>2. command[q].at = "idle"
      BY <3>1 DEF TInv, Obeys
    <3> QED BY <1>1, <2>2, <3>2 DEF Obeys
  <2> QED BY <2>1, <2>2
<1>3. OnlyOne'
  BY DEF TInv, OnlyOne
<1> QED BY <1>2, <1>3 DEF TInv

LEMMA StepOfChild ==
  ASSUME TInv, NEW i \in Ids,
         \/ T!Prints(i) \/ T!ClosesTerminal(i) \/ T!EndOfOutput(i)
         \/ \E c \in {0, 1} : T!Ends(i, c)
  PROVE  TInv'
<1>1. child \in [Ids -> ChildStates] /\ code \in [Ids -> {NoCode, 0, 1}]
  BY DEF TInv, Shape
<1>2. CASE T!Prints(i) \/ T!EndOfOutput(i)
  <2>1. UNCHANGED <<child, code, handles, host, started, up, file, command>>
    BY <1>2 DEF T!Prints, T!EndOfOutput, T!tty, T!procs
  <2> QED BY <1>1, <2>1, ChildStep DEF Unborn, T!HasEnded
<1>3. CASE T!ClosesTerminal(i)
  <2>1. /\ UNCHANGED <<code, handles, host, started, up, file, command>>
        /\ child[i] = "runs" /\ child' = [child EXCEPT ![i] = "closed"]
    BY <1>3 DEF T!ClosesTerminal, T!procs
  <2> QED BY <1>1, <2>1, ChildStep DEF Unborn, T!HasEnded, ChildStates
<1>4. ASSUME NEW c \in {0, 1}, T!Ends(i, c) PROVE TInv'
  <2>1. /\ UNCHANGED <<handles, host, started, up, file, command>>
        /\ child[i] \in {"runs", "closed"} /\ child' = [child EXCEPT ![i] = "dead"]
        /\ code' = [code EXCEPT ![i] = c]
    BY <1>4 DEF T!Ends, T!procs
  <2> QED BY <1>1, <2>1, ChildStep DEF Unborn, T!HasEnded, ChildStates
<1> QED BY <1>2, <1>3, <1>4

LEMMA StepStart ==
  ASSUME T!TerminalAssumption, Alone = TRUE, TInv, NEW p \in Procs, T!Start(p)
  PROVE  TInv'
<1>1. /\ UNCHANGED <<child, code, handles, host, file, command>>
      /\ p \notin started /\ up = {} /\ started' = started \cup {p} /\ up' = {p}
  BY DEF T!Start, T!tty
<1>2. \A q \in Procs : command[q].at = "idle"
  BY <1>1 DEF TInv, Obeys
<1>3. \A i \in Ids : host[i] \notin up'
  BY <1>1 DEF TInv, Hosts, T!TerminalAssumption
<1>4. Shape' /\ Hosts' /\ OnlyOne'
  BY <1>1 DEF TInv, Shape, Hosts, OnlyOne
<1>5. \A i \in Ids : Sane(i)'
  BY <1>1, <1>3 DEF TInv, Sane, Kept, Unborn
<1>6. \A q \in Procs : Obeys(command[q], q)'
  BY <1>1, <1>2 DEF Obeys
<1> QED BY <1>4, <1>5, <1>6 DEF TInv

LEMMA StepEnd ==
  ASSUME TInv, NEW p \in Procs, T!Exit(p)
  PROVE  TInv'
<1>1. /\ UNCHANGED <<child, code, host, started, file>> /\ p \in up /\ up' = up \ {p}
      /\ handles' = [handles EXCEPT ![p] = {}]
      /\ command' = [command EXCEPT ![p] = T!NoCommand]
  BY DEF T!Exit, T!tty
<1>2. \A q \in Procs : command'[q].at = "idle"
  <2>1. \A q \in Procs : q # p => command'[q] = command[q] /\ q \notin up
    BY <1>1 DEF TInv, Shape, OnlyOne
  <2>2. command'[p].at = "idle"
    BY <1>1 DEF TInv, Shape, T!NoCommand
  <2> QED BY <2>1, <2>2 DEF TInv, Obeys
<1>3. up' = {}
  BY <1>1 DEF TInv, OnlyOne
<1>4. Shape' /\ Hosts' /\ OnlyOne'
  <2>1. command' = [q \in Procs |-> command'[q]] /\ handles' \in [Procs -> SUBSET Ids]
    BY <1>1 DEF TInv, Shape
  <2> QED BY <1>1, <1>3, <2>1 DEF TInv, Shape, Hosts, OnlyOne
<1>5. \A i \in Ids : Sane(i)'
  BY <1>1, <1>3 DEF TInv, Sane, Kept, Unborn
<1>6. \A q \in Procs : Obeys(command[q], q)'
  BY <1>2 DEF Obeys
<1> QED BY <1>4, <1>5, <1>6 DEF TInv

\* What is read from the record of a command, before it changes.
LEMMA AtWork ==
  ASSUME TInv, NEW p \in Procs, command[p].at # "idle"
  PROVE  /\ p \in up /\ command[p] \in TerminalCommands /\ Obeys(command[p], p)
         /\ \A i \in Ids : host[i] \in up => host[i] = p
BY DEF TInv, Obeys, OnlyOne

\* A process that opens the store calls lost what it has no handle for: its host
\* is gone, or it has ended.
LEMMA StepOpenTerminal ==
  ASSUME T!TerminalAssumption, TInv, NEW p \in Procs, NEW i \in Ids,
         NEW op \in T!NeedsRunning \cup T!Spawning, T!Open(p, op, i)
  PROVE  TInv'
<1> PICK copy : copy = T!Reconcile(p)
  OBVIOUS
<1> PICK reaped : reaped = T!Reaped(p)
  OBVIOUS
<1>1. /\ p \in up /\ command[p].at = "idle" /\ UNCHANGED <<code, host, started, up, file>>
      /\ child' = [k \in Ids |-> IF k \in reaped THEN "reaped" ELSE child[k]]
      /\ handles' = [handles EXCEPT ![p] = @ \ reaped]
  BY DEF T!Open, T!procs
<1>2. op \in T!Spawning <=> Unborn(i)
  <2>1. \A q \in Procs : command[q].at = "idle"
    BY <1>1 DEF TInv, Obeys, OnlyOne
  <2> QED BY <2>1 DEF T!Open, Unborn
<1> PICK y : y = IF op = "send" \/ (op \in T!NeedsRunning /\ copy[i] # "running") THEN T!NoCommand
                 ELSE [at |-> "open", op |-> op, id |-> i, copy |-> copy, exit |-> NoCode]
  OBVIOUS
<1>3. command' = [command EXCEPT ![p] = y]
  BY DEF T!Open
<1>4. /\ \A k \in Ids : T!HasEnded(k) => T!HasEnded(k)'
      /\ \A k \in Ids : Unborn(k)' <=> Unborn(k)
      /\ \A k \in reaped : T!HasEnded(k)
  BY <1>1 DEF T!HasEnded, Unborn, T!Reaped
<1>5. Shape'
  <2>1. child' \in [Ids -> ChildStates] /\ handles' \in [Procs -> SUBSET Ids]
    BY <1>1 DEF TInv, Shape, ChildStates
  <2>2. command' = [q \in Procs |-> command'[q]]
    BY <1>3 DEF TInv, Shape
  <2> QED BY <1>1, <2>1, <2>2 DEF TInv, Shape
<1>6. handles'[p] = handles[p] \ reaped /\ \A q \in Procs : q # p => handles'[q] = handles[q]
  BY <1>1 DEF TInv, Shape
<1>7. \A k \in Ids : host[k] \in up => host[k] = p
  BY <1>1 DEF TInv, OnlyOne
<1>8. ASSUME NEW k \in Ids
      PROVE  /\ copy[k] \in T!Status
             /\ Unborn(k) => copy[k] = NoRecord
             /\ copy[k] = "running" => k \in handles'[p]
             /\ copy[k] = "lost" /\ host[k] \in up => T!HasEnded(k)
             /\ file[k] \in Settled => copy[k] = file[k]
  <2>1. Sane(k) /\ file[k] \in T!Status
    BY DEF TInv, Shape
  <2>2. CASE file[k] # "running"
    <3>1. copy[k] = file[k]
      BY <2>2 DEF T!Reconcile
    <3> QED BY <2>1, <2>2, <3>1, Zenon DEF Sane, T!TerminalAssumption
  <2>3. CASE file[k] = "running" /\ k \notin handles[p]
    <3>1. copy[k] \in {"lost", "running"} /\ (copy[k] = "running" => ~T!MarksLost(FALSE))
      BY <2>3 DEF T!Reconcile
    <3>2. T!MarksLost(FALSE)
      BY DEF T!MarksLost, T!Reconciled, T!Decision, T!Final, T!CheckpointReason
    <3>3. copy[k] = "lost"
      BY <3>1, <3>2
    <3>4. host[k] \in up => T!HasEnded(k)
      BY <1>1, <1>7, <2>1, <2>3 DEF Sane, Kept
    <3>5. ~Unborn(k) /\ file[k] \notin Settled
      BY <2>1, <2>3 DEF Sane, T!TerminalAssumption, Settled
    <3> QED BY <3>3, <3>4, <3>5 DEF T!Status
  <2>4. CASE file[k] = "running" /\ k \in handles[p]
    <3>1. copy[k] = IF T!HasEnded(k) THEN "exited" ELSE "running"
      BY <2>4 DEF T!Reconcile
    <3>2. ~Unborn(k) /\ file[k] \notin Settled
      BY <2>1, <2>4 DEF Sane, T!TerminalAssumption, Settled
    <3>3. copy[k] = "running" => k \notin reaped
      BY <1>4, <3>1
    <3> QED BY <1>6, <2>4, <3>1, <3>2, <3>3 DEF T!Status
  <2> QED BY <2>2, <2>3, <2>4
<1>9. Obeys(y, p)'
  <2>1. CASE y = T!NoCommand
    BY <2>1 DEF Obeys, T!NoCommand
  <2>2. CASE y = [at |-> "open", op |-> op, id |-> i, copy |-> copy, exit |-> NoCode]
             /\ (op \in T!NeedsRunning => copy[i] = "running")
    <3>1. copy \in [Ids -> T!Status]
      <4>1. copy = [k \in Ids |-> copy[k]]
        BY DEF T!Reconcile
      <4> QED BY <1>8, <4>1
    <3>2. /\ y \in TerminalCommands /\ y.at = "open" /\ y.op = op /\ y.id = i /\ y.copy = copy
      BY <2>2, <3>1 DEF TerminalCommands
    <3>3. Begins(y) <=> Unborn(i)
      BY <1>2, <3>2 DEF Begins
    <3>4. ~Begins(y) => copy[i] = "running"
      BY <2>2, <3>2 DEF Begins
    <3> QED BY <1>1, <1>4, <1>8, <3>2, <3>3, <3>4 DEF Obeys, Begins
  <2> QED BY <2>1, <2>2
<1>10. ASSUME NEW k \in Ids PROVE Sane(k)'
  <2>1. Sane(k)
    BY DEF TInv
  <2>2. Kept(k)'
    <3> SUFFICES ASSUME file[k] = "running", host[k] \in up, ~T!HasEnded(k)'
                 PROVE  k \in handles'[host[k]]
      BY <1>1 DEF Kept
    <3>1. host[k] = p /\ ~T!HasEnded(k)
      BY <1>4, <1>7
    <3> QED BY <1>1, <1>4, <1>6, <2>1, <3>1 DEF Sane, Kept
  <2> QED BY <1>1, <1>4, <2>1, <2>2 DEF Sane
<1>11. Hosts'
  BY <1>1 DEF TInv, Hosts
<1> QED BY <1>1, <1>3, <1>5, <1>9, <1>10, <1>11, ProcessStep

\* The session of a command that saves is announced by its process, and its
\* handle is there with it.
LEMMA StepSpawn ==
  ASSUME T!TerminalAssumption, TInv, NEW p \in Procs, T!Spawn(p)
  PROVE  TInv'
<1> PICK x : x = command[p]
  OBVIOUS
<1> PICK i : i = x.id
  OBVIOUS
<1>1. p \in up /\ x \in TerminalCommands /\ Obeys(x, p) /\ i \in Ids /\ Begins(x) /\ Unborn(i)
  <2>1. x.at = "open" /\ x.op \in T!Spawning
    BY DEF T!Spawn
  <2>2. p \in up /\ x \in TerminalCommands /\ Obeys(x, p)
    BY <2>1, AtWork
  <2> QED BY <2>1, <2>2 DEF TerminalCommands, Obeys, Begins
<1> PICK y : y = [x EXCEPT !.at = "save", !.copy[i] = "running"]
  OBVIOUS
<1>2. /\ y \in TerminalCommands /\ y.at = "save" /\ y.id = i
      /\ y.copy = [x.copy EXCEPT ![i] = "running"]
  BY <1>1 DEF TerminalCommands, T!Status
<1>3. /\ command' = [command EXCEPT ![p] = y]
      /\ UNCHANGED <<code, started, up, file>>
      /\ child' = [child EXCEPT ![i] = "runs"]
      /\ host' = [host EXCEPT ![i] = p]
      /\ handles' = [handles EXCEPT ![p] = @ \cup {i}]
  <2>1. command' = [command EXCEPT ![p] = y]
    <3>1. command'[p] = [x EXCEPT !.at = "save", !.copy[i] = "running"]
      BY <1>1 DEF T!Spawn, TInv, Shape
    <3>2. \A q \in Procs : q # p => command'[q] = command[q]
      BY DEF T!Spawn, TInv, Shape
    <3>3. command' = [q \in Procs |-> command'[q]]
      BY DEF T!Spawn, TInv, Shape
    <3> QED BY <3>1, <3>2, <3>3 DEF TInv, Shape
  <2>2. UNCHANGED <<code, started, up, file>>
    BY DEF T!Spawn
  <2>3. /\ child' = [child EXCEPT ![i] = "runs"] /\ host' = [host EXCEPT ![i] = p]
        /\ handles' = [handles EXCEPT ![p] = @ \cup {i}]
    BY DEF T!Spawn
  <2> QED BY <2>1, <2>2, <2>3
<1>4. Shape'
  <2>1. child' \in [Ids -> ChildStates] /\ handles' \in [Procs -> SUBSET Ids]
        /\ host' \in [Ids -> Procs \cup {Nobody}]
    BY <1>1, <1>3 DEF TInv, Shape, ChildStates
  <2>2. command' = [q \in Procs |-> command'[q]]
    BY <1>3 DEF TInv, Shape
  <2> QED BY <1>3, <2>1, <2>2 DEF TInv, Shape
<1>5. Hosts'
  BY <1>1, <1>3 DEF TInv, Shape, Hosts
<1>6. handles'[p] = handles[p] \cup {i} /\ child'[i] = "runs" /\ host'[i] = p
  BY <1>1, <1>3 DEF TInv, Shape
<1>7. \A k \in Ids : k # i => child'[k] = child[k] /\ host'[k] = host[k] /\ y.copy[k] = x.copy[k]
  BY <1>1, <1>2, <1>3 DEF TInv, Shape, TerminalCommands
<1>8. x.copy \in [Ids -> T!Status] /\ y.copy[i] = "running"
  BY <1>1, <1>2 DEF TerminalCommands
<1>9. file[i] = NoRecord
  BY <1>1 DEF TInv, Sane
<1>10. ASSUME NEW k \in Ids
       PROVE  /\ Unborn(k)' => y.copy[k] = NoRecord
              /\ y.copy[k] = "running" => k \in handles'[p]
              /\ y.copy[k] = "lost" /\ host'[k] \in up' => T!HasEnded(k)'
              /\ file'[k] \in Settled => y.copy[k] = file'[k]
  <2>1. CASE k = i
    BY <1>3, <1>6, <1>8, <1>9, <2>1 DEF Unborn, Settled, T!TerminalAssumption
  <2>2. CASE k # i
    <3>1. /\ Unborn(k) => x.copy[k] = NoRecord
          /\ x.copy[k] = "running" => k \in handles[p]
          /\ x.copy[k] = "lost" /\ host[k] \in up => T!HasEnded(k)
          /\ file[k] \in Settled => x.copy[k] = file[k]
      BY <1>1 DEF Obeys, Begins
    <3> QED BY <1>3, <1>6, <1>7, <2>2, <3>1 DEF Unborn, T!HasEnded
  <2> QED BY <2>1, <2>2
<1>11. Obeys(y, p)'
  <2>1. ~Begins(y)' /\ ~Unborn(i)'
    BY <1>2, <1>6 DEF Begins, Unborn
  <2> QED BY <1>1, <1>2, <1>3, <1>8, <1>10, <2>1 DEF Obeys
<1>12. ASSUME NEW k \in Ids PROVE Sane(k)'
  <2>1. CASE k = i
    BY <1>3, <1>6, <1>9, <2>1 DEF Sane, Kept, Unborn, T!TerminalAssumption
  <2>2. CASE k # i
    <3>1. Sane(k)
      BY DEF TInv
    <3>2. host[k] \in up => host[k] = p
      BY <1>1 DEF TInv, OnlyOne
    <3>3. Kept(k)'
      <4> SUFFICES ASSUME file[k] = "running", host[k] \in up, ~T!HasEnded(k)
                   PROVE  k \in handles'[p]
        BY <1>3, <1>7, <2>2, <3>2 DEF Kept, T!HasEnded
      <4>1. x.at # "save"
        BY <1>1 DEF Begins
      <4> QED BY <1>6, <3>1, <3>2, <4>1 DEF Sane, Kept
    <3> QED BY <1>3, <1>7, <2>2, <3>1, <3>3 DEF Sane, Unborn, T!HasEnded
  <2> QED BY <2>1, <2>2
<1> QED BY <1>1, <1>3, <1>4, <1>5, <1>11, <1>12, ProcessStep

\* A command that goes from one stage to the next, with the child of its session
\* as it was, or reaped if it has ended; only the save of an end may lose it.
LEMMA StageStep ==
  ASSUME TInv, NEW p \in Procs, command[p].at # "idle",
         NEW y, y.at = "idle" \/ (y \in TerminalCommands /\ ~Begins(y)),
         y.at # "idle" => y.id = command[p].id /\ y.copy = command[p].copy,
         command' = [command EXCEPT ![p] = y],
         ~Begins(command[p]), command[p].at # "save",
         UNCHANGED <<code, handles, host, started, up, file>>,
         child' \in [Ids -> ChildStates],
         \A i \in Ids : /\ Unborn(i)' <=> Unborn(i)
                        /\ T!HasEnded(i) => T!HasEnded(i)'
  PROVE  TInv'
<1> PICK x : x = command[p]
  OBVIOUS
<1>1. p \in up /\ Obeys(x, p) /\ x \in TerminalCommands /\ x.id \in Ids
      /\ x.at # "idle" /\ ~Begins(x) /\ ~Unborn(x.id)
  <2>1. p \in up /\ Obeys(x, p) /\ x \in TerminalCommands /\ ~Begins(x) /\ x.at # "idle"
    BY AtWork
  <2>2. x.id \in Ids
    BY <2>1 DEF TerminalCommands
  <2> QED BY <2>1, <2>2 DEF Obeys
<1>2. Shape' /\ Hosts'
  BY DEF TInv, Shape, Hosts
<1>3. Obeys(y, p)'
  <2>1. y.at # "idle" => y.id = x.id /\ y.copy = x.copy /\ y \in TerminalCommands /\ ~Begins(y)'
    BY DEF Begins
  <2> QED BY <1>1, <2>1 DEF Obeys
<1>4. ASSUME NEW k \in Ids PROVE Sane(k)'
  <2>1. Sane(k) /\ (host[k] \in up => host[k] = p)
    BY <1>1 DEF TInv, OnlyOne
  <2> QED BY <2>1 DEF Sane, Kept
<1> QED BY <1>1, <1>2, <1>3, <1>4, ProcessStep

LEMMA StepResize ==
  ASSUME TInv, NEW p \in Procs, T!Resize(p)
  PROVE  TInv'
<1> PICK x : x = command[p]
  OBVIOUS
<1> PICK y : y = [x EXCEPT !.at = "save"]
  OBVIOUS
<1>1. x.at = "open" /\ x.op = "resize" /\ UNCHANGED <<child, code, handles, host, started, up, file>>
  BY DEF T!Resize, T!tty, T!procs
<1>2. x \in TerminalCommands
  BY <1>1, AtWork
<1>3. y \in TerminalCommands /\ y.at = "save" /\ y.id = x.id /\ y.copy = x.copy
  BY <1>2 DEF TerminalCommands
<1>4. command' = [command EXCEPT ![p] = y]
  BY DEF T!Resize, TInv, Shape
<1>5. ~Begins(y) /\ ~Begins(x)
  BY <1>1, <1>3 DEF Begins, T!Spawning
<1> QED BY <1>1, <1>3, <1>4, <1>5, StageStep DEF TInv, Shape, Unborn, T!HasEnded

LEMMA StepOfExec ==
  ASSUME TInv, NEW p \in Procs, T!PollOutput(p) \/ T!Ceiling(p) \/ T!Judge(p)
  PROVE  TInv'
<1> PICK x : x = command[p]
  OBVIOUS
<1>1. x.at \in {"wait", "judge"} /\ UNCHANGED <<child, code, handles, host, started, up, file>>
  BY DEF T!PollOutput, T!Ceiling, T!Judge, T!tty, T!procs
<1>2. x \in TerminalCommands
  BY <1>1, AtWork
<1>3. PICK y \in {T!NoCommand, [x EXCEPT !.at = "judge"], [x EXCEPT !.at = "close"]} :
        command' = [command EXCEPT ![p] = y]
  BY DEF T!PollOutput, T!Ceiling, T!Judge, TInv, Shape
<1>4. y.at = "idle" \/ (y \in TerminalCommands /\ y.at \in {"judge", "close"})
  BY <1>2, <1>3 DEF TerminalCommands, T!NoCommand
<1>5. y.at # "idle" => y.id = x.id /\ y.copy = x.copy
  BY <1>2, <1>3 DEF TerminalCommands, T!NoCommand
<1>6. ~Begins(x) /\ (y.at # "idle" => ~Begins(y))
  BY <1>1, <1>4 DEF Begins
<1> QED BY <1>1, <1>3, <1>4, <1>5, <1>6, StageStep DEF TInv, Shape, Unborn, T!HasEnded

LEMMA StepPollExit ==
  ASSUME TInv, NEW p \in Procs, T!PollExit(p)
  PROVE  TInv'
<1> PICK x : x = command[p]
  OBVIOUS
<1>1. /\ x.at = "wait" /\ T!HasEnded(x.id) /\ UNCHANGED <<code, handles, host, started, up, file>>
      /\ child' = [child EXCEPT ![x.id] = "reaped"]
  BY DEF T!PollExit, T!procs
<1>2. x \in TerminalCommands /\ x.id \in Ids /\ code[x.id] \in {NoCode, 0, 1}
  <2>1. x \in TerminalCommands
    BY <1>1, AtWork
  <2> QED BY <2>1 DEF TerminalCommands, TInv, Shape
<1> PICK y : y = [x EXCEPT !.at = "close", !.exit = code[x.id]]
  OBVIOUS
<1>3. y \in TerminalCommands /\ y.at = "close" /\ y.id = x.id /\ y.copy = x.copy
  BY <1>2 DEF TerminalCommands
<1>4. command' = [command EXCEPT ![p] = y]
  BY DEF T!PollExit, TInv, Shape
<1>5. ~Begins(x) /\ ~Begins(y)
  BY <1>1, <1>3 DEF Begins
<1>6. child' \in [Ids -> ChildStates]
  BY <1>1, <1>2 DEF TInv, Shape, ChildStates
<1>7. \A i \in Ids : (Unborn(i)' <=> Unborn(i)) /\ (T!HasEnded(i) => T!HasEnded(i)')
  BY <1>1, <1>2 DEF TInv, Shape, Unborn, T!HasEnded
<1> QED BY <1>1, <1>3, <1>4, <1>5, <1>6, <1>7, StageStep

\* The handle goes and the copy says exited; a child that the thread takes to
\* live is killed.
LEMMA StepStop ==
  ASSUME T!TerminalAssumption, TInv, NEW p \in Procs, T!Stop(p)
  PROVE  TInv'
<1> PICK x : x = command[p]
  OBVIOUS
<1> PICK i : i = x.id
  OBVIOUS
<1>1. /\ p \in up /\ x \in TerminalCommands /\ Obeys(x, p) /\ i \in Ids /\ ~Begins(x) /\ ~Unborn(i)
      /\ x.at \in {"open", "close"}
  <2>1. x.at = "close" \/ (x.at = "open" /\ x.op = "stop")
    BY DEF T!Stop
  <2>2. p \in up /\ x \in TerminalCommands /\ Obeys(x, p)
    BY <2>1, AtWork
  <2>3. ~Begins(x)
    BY <2>1 DEF Begins, T!Spawning
  <2> QED BY <2>1, <2>2, <2>3 DEF TerminalCommands, Obeys
<1> PICK y : y = [x EXCEPT !.at = "save", !.copy[i] = "exited"]
  OBVIOUS
<1>2. /\ y \in TerminalCommands /\ y.at = "save" /\ y.id = i
      /\ y.copy = [x.copy EXCEPT ![i] = "exited"]
  BY <1>1 DEF TerminalCommands, T!Status
<1>3. command' = [command EXCEPT ![p] = y]
  <2>1. command'[p] = [x EXCEPT !.at = "save", !.copy[i] = "exited"]
    BY <1>1 DEF T!Stop, TInv, Shape
  <2>2. \A q \in Procs : q # p => command'[q] = command[q]
    BY DEF T!Stop, TInv, Shape
  <2>3. command' = [q \in Procs |-> command'[q]]
    BY DEF T!Stop, TInv, Shape
  <2> QED BY <2>1, <2>2, <2>3 DEF TInv, Shape
<1>4. /\ UNCHANGED <<host, started, up, file>>
      /\ child' = child \/ child' = [child EXCEPT ![i] = "reaped"]
      /\ code' = code \/ code' = [code EXCEPT ![i] = 1]
      /\ handles' = [handles EXCEPT ![p] = @ \ {i}]
  BY DEF T!Stop, T!procs
<1>5. Shape' /\ Hosts'
  <2>1. child' \in [Ids -> ChildStates] /\ handles' \in [Procs -> SUBSET Ids]
    BY <1>1, <1>4 DEF TInv, Shape, ChildStates
  <2>2. code' \in [Ids -> {NoCode, 0, 1}]
    BY <1>1, <1>4 DEF TInv, Shape
  <2>3. command' = [q \in Procs |-> command'[q]]
    BY <1>3 DEF TInv, Shape
  <2> QED BY <1>4, <2>1, <2>2, <2>3 DEF TInv, Shape, Hosts
<1>6. handles'[p] = handles[p] \ {i}
  BY <1>1, <1>4 DEF TInv, Shape
<1>7. \A k \in Ids : (Unborn(k)' <=> Unborn(k)) /\ (T!HasEnded(k) => T!HasEnded(k)')
  BY <1>1, <1>4 DEF TInv, Shape, Unborn, T!HasEnded
<1>8. /\ x.copy \in [Ids -> T!Status] /\ y.copy[i] = "exited" /\ x.copy[i] \in {"running", "exited"}
      /\ \A k \in Ids : k # i => y.copy[k] = x.copy[k]
  BY <1>1, <1>2 DEF TerminalCommands, Obeys
<1>9. ASSUME NEW k \in Ids
      PROVE  /\ Unborn(k)' => y.copy[k] = NoRecord
             /\ y.copy[k] = "running" => k \in handles'[p]
             /\ y.copy[k] = "lost" /\ host'[k] \in up' => T!HasEnded(k)'
             /\ file'[k] \in Settled => y.copy[k] = file'[k]
  <2>1. /\ Unborn(k) => x.copy[k] = NoRecord
        /\ x.copy[k] = "running" => k \in handles[p]
        /\ x.copy[k] = "lost" /\ host[k] \in up => T!HasEnded(k)
        /\ file[k] \in Settled => x.copy[k] = file[k]
    BY <1>1 DEF Obeys, Begins
  <2>2. CASE k = i
    <3>1. file[i] \in Settled => file[i] = "exited"
      BY <1>8, <2>1, <2>2 DEF Settled
    <3> QED BY <1>1, <1>4, <1>7, <1>8, <2>2, <3>1
  <2>3. CASE k # i
    BY <1>4, <1>6, <1>7, <1>8, <2>1, <2>3
  <2> QED BY <2>2, <2>3
<1>10. Obeys(y, p)'
  <2>1. ~Begins(y)' /\ ~Unborn(i)'
    BY <1>1, <1>2, <1>7 DEF Begins
  <2> QED BY <1>1, <1>2, <1>4, <1>8, <1>9, <2>1 DEF Obeys
<1>11. ASSUME NEW k \in Ids PROVE Sane(k)'
  <2>1. Sane(k) /\ (host[k] \in up => host[k] = p)
    BY <1>1 DEF TInv, OnlyOne
  <2>2. Kept(k)'
    <3> SUFFICES ASSUME file[k] = "running", host[k] = p, host[k] \in up, ~T!HasEnded(k)
                 PROVE  k \in handles'[p] \/ (command'[p].at = "save" /\ command'[p].copy[k] = "exited")
      BY <1>4, <1>7, <2>1 DEF Kept
    <3>1. k \in handles[p]
      BY <1>1, <2>1 DEF Sane, Kept
    <3>2. command'[p] = y
      BY <1>3 DEF TInv, Shape
    <3> QED BY <1>2, <1>6, <1>8, <3>1, <3>2
  <2> QED BY <1>4, <1>7, <2>1, <2>2 DEF Sane
<1> QED BY <1>1, <1>3, <1>4, <1>5, <1>10, <1>11, ProcessStep

\* What is saved: whatever runs by the copy has its handle.
LEMMA StepSaveTerminal ==
  ASSUME T!TerminalAssumption, TInv, NEW p \in Procs, T!Save(p)
  PROVE  TInv'
<1> PICK x : x = command[p]
  OBVIOUS
<1>1. x.at = "save" /\ p \in up /\ x \in TerminalCommands /\ Obeys(x, p)
  <2>1. x.at = "save"
    BY DEF T!Save
  <2> QED BY <2>1, AtWork
<1>2. PICK y \in {T!NoCommand, [x EXCEPT !.at = "wait"]} : command' = [command EXCEPT ![p] = y]
  BY DEF T!Save
<1>3. y.at = "idle" \/ (y \in TerminalCommands /\ y.at = "wait" /\ y.id = x.id /\ y.copy = x.copy)
  BY <1>1, <1>2 DEF TerminalCommands, T!NoCommand
<1>4. /\ UNCHANGED <<child, code, handles, host, started, up>> /\ file' = x.copy
  BY DEF T!Save, T!tty, T!procs
<1>5. x.copy \in [Ids -> T!Status] /\ x.id \in Ids /\ ~Begins(x)
  BY <1>1 DEF TerminalCommands, Begins
<1>6. Shape' /\ Hosts'
  <2>1. command' = [q \in Procs |-> command'[q]]
    BY <1>2 DEF TInv, Shape
  <2> QED BY <1>4, <1>5, <2>1 DEF TInv, Shape, Hosts
<1>7. ASSUME NEW k \in Ids
      PROVE  /\ Unborn(k) => x.copy[k] = NoRecord
             /\ x.copy[k] = "running" => k \in handles[p]
             /\ x.copy[k] = "lost" /\ host[k] \in up => T!HasEnded(k)
  BY <1>1 DEF Obeys, Begins
<1>8. Obeys(y, p)'
  <2>1. CASE y.at = "idle"
    BY <2>1 DEF Obeys
  <2>2. CASE y \in TerminalCommands /\ y.at = "wait" /\ y.id = x.id /\ y.copy = x.copy
    <3>1. ~Begins(y)' /\ ~Unborn(x.id) /\ x.copy[x.id] \in {"running", "exited"}
      BY <1>1, <1>5, <2>2 DEF Begins, Obeys
    <3> QED BY <1>1, <1>4, <1>7, <2>2, <3>1 DEF Obeys, Begins, Unborn, T!HasEnded
  <2> QED BY <1>3, <2>1, <2>2
<1>9. ASSUME NEW k \in Ids PROVE Sane(k)'
  <2>1. host[k] \in up => host[k] = p
    BY <1>1 DEF TInv, OnlyOne
  <2> QED BY <1>4, <1>7, <2>1 DEF Sane, Kept, Unborn, T!HasEnded
<1> QED BY <1>1, <1>2, <1>4, <1>6, <1>8, <1>9, ProcessStep

LEMMA TStep ==
  ASSUME T!TerminalAssumption, Alone = TRUE, TInv, [T!Next]_(T!vars)
  PROVE  TInv'
<1>1. ASSUME NEW i \in Ids,
             \/ T!Prints(i) \/ T!ClosesTerminal(i) \/ T!EndOfOutput(i)
             \/ \E c \in {0, 1} : T!Ends(i, c)
      PROVE  TInv'
  BY <1>1, StepOfChild
<1>2. ASSUME NEW p \in Procs, T!Start(p) \/ T!Exit(p)
      PROVE  TInv'
  BY <1>2, StepStart, StepEnd
<1>3. ASSUME NEW p \in Procs, T!Act(p)
      PROVE  TInv'
  BY <1>3, StepSpawn, StepResize, StepStop, StepSaveTerminal, StepPollExit, StepOfExec DEF T!Act
<1>4. ASSUME NEW p \in Procs, NEW op \in T!NeedsRunning \cup T!Spawning, NEW i \in Ids,
             T!Open(p, op, i)
      PROVE  TInv'
  BY <1>4, StepOpenTerminal
<1>5. CASE UNCHANGED T!vars
  <2>1. UNCHANGED <<child, code, handles, host, started, up, file, command>>
    BY <1>5 DEF T!vars, T!tty, T!procs
  <2> QED BY <2>1, ChildStep DEF TInv, Shape, Unborn, T!HasEnded
<1> QED BY <1>1, <1>2, <1>3, <1>4, <1>5 DEF T!Next

-----------------------------------------------------------------------------
(* Terminal: the theorems.                                                 *)

LEMMA TAlways ==
  ASSUME T!TerminalAssumption, Alone = TRUE
  PROVE  T!Spec => []TInv
<1>1. T!Init => TInv
  BY TInit
<1>2. TInv /\ [T!Next]_(T!vars) => TInv'
  BY TStep
<1> QED BY <1>1, <1>2, PTL DEF T!Spec

\* While one process runs at a time: no session is called lost that has its child
\* and its host, neither by a command that opens the store nor by the copy that
\* exec saves when it is over.
THEOREM LostSessionsAreGone ==
  ASSUME T!TerminalAssumption, Alone = TRUE
  PROVE  T!Spec => []LostIsGone
<1>1. TInv => LostIsGone
  BY DEF TInv, Sane, LostIsGone, T!LostIsGone
<1> QED BY <1>1, TAlways, PTL

\* While one process runs at a time: what the file calls exited or lost it calls
\* so for ever.
THEOREM SettledStays ==
  ASSUME T!TerminalAssumption, Alone = TRUE
  PROVE  T!Spec => FinalIsFinal
<1>1. ASSUME TInv, T!Next, NEW i \in Ids, file[i] \in {"exited", "lost"}
      PROVE  file'[i] = file[i]
  <2>1. ASSUME NEW p \in Procs, T!Save(p) PROVE file'[i] = file[i]
    <3> PICK x : x = command[p]
      OBVIOUS
    <3>1. x.at = "save" /\ file' = x.copy
      BY <2>1 DEF T!Save
    <3> QED BY <1>1, <3>1 DEF TInv, Obeys, Settled
  <2>2. CASE file' = file
    BY <2>2
  <2> QED BY <1>1, <2>1, <2>2 DEF T!Next, T!Act, T!Prints, T!ClosesTerminal, T!EndOfOutput, T!Ends,
          T!Start, T!Exit, T!Open, T!Spawn, T!Resize, T!Stop, T!PollExit, T!PollOutput, T!Ceiling,
          T!Judge
<1>2. TInv /\ [T!Next]_(T!vars) =>
        [\A i \in Ids : file[i] \in {"exited", "lost"} => file'[i] = file[i]]_(T!vars)
  BY <1>1
<1> QED BY <1>2, TAlways, PTL DEF T!Spec, FinalIsFinal, T!FinalIsFinal

-----------------------------------------------------------------------------
(* Commands.                                                               *)

Left == left["shell"] + left["helper"]

\* Until it is returned nothing of the output is lost, and who is gone has
\* written all; what is returned with an exit status is whole.
CInv ==
  /\ process \in [C!Writers -> {"none", "running", "ended", "killed"}]
  /\ left \in [C!Writers -> Nat] /\ pipe \in Nat /\ got \in Nat
  /\ at \in {"waiting", "draining", "returned"}
  /\ at # "returned" =>
       /\ outcome = "none" /\ got + pipe + Left = output
       /\ \A w \in C!Writers : ~C!Running(w) => left[w] = 0
  /\ outcome = "exit" => got = output

LEMMA CInit ==
  ASSUME C!CommandAssumption, C!Init
  PROVE  CInv
<1>1. /\ process \in [C!Writers -> {"none", "running", "ended", "killed"}]
      /\ left \in [C!Writers -> Nat] /\ pipe = 0 /\ got = 0 /\ at = "waiting" /\ outcome = "none"
  BY DEF C!Init, C!CommandAssumption
<1>2. Left \in Nat /\ output = Left
  BY <1>1 DEF C!Init, C!Total, Left, C!Writers
<1>3. \A w \in C!Writers : ~C!Running(w) => left[w] = 0
  BY <1>1 DEF C!Init, C!Running, C!Writers
<1> QED BY <1>1, <1>2, <1>3 DEF CInv

LEMMA CWrites ==
  ASSUME CInv, NEW w \in C!Writers, C!WriteOut(w)
  PROVE  CInv'
<1>1. /\ C!Running(w) /\ left[w] \in Nat /\ left[w] > 0 /\ at # "returned"
      /\ left' = [left EXCEPT ![w] = @ - 1] /\ pipe' = pipe + 1
      /\ UNCHANGED <<process, got, at, outcome, output>>
  BY DEF C!WriteOut, C!command, CInv
<1>2. left' \in [C!Writers -> Nat] /\ pipe' \in Nat
  BY <1>1 DEF CInv
<1>3. Left' = Left - 1 /\ Left \in Nat
  BY <1>1 DEF CInv, Left, C!Writers
<1>4. got' + pipe' + Left' = output'
  BY <1>1, <1>3 DEF CInv
<1>5. \A v \in C!Writers : ~C!Running(v)' => left'[v] = 0
  BY <1>1 DEF CInv, C!Running
<1> QED BY <1>1, <1>2, <1>4, <1>5 DEF CInv

LEMMA CEnds ==
  ASSUME CInv, NEW w \in C!Writers, C!Exit(w)
  PROVE  CInv'
<1>1. /\ left[w] = 0 /\ process' = [process EXCEPT ![w] = "ended"]
      /\ UNCHANGED <<left, pipe, got, at, outcome, output>>
  BY DEF C!Exit, C!command
<1>2. process' \in [C!Writers -> {"none", "running", "ended", "killed"}]
  BY <1>1 DEF CInv
<1>3. \A v \in C!Writers : v # w => process'[v] = process[v]
  BY <1>1 DEF CInv
<1>4. ASSUME at # "returned", NEW v \in C!Writers, ~C!Running(v)' PROVE left'[v] = 0
  BY <1>1, <1>3, <1>4 DEF CInv, C!Running
<1> QED BY <1>1, <1>2, <1>4 DEF CInv, Left

LEMMA CReads ==
  ASSUME CInv, C!Read \/ C!Wait
  PROVE  CInv'
<1>1. CASE C!Read
  <2>1. pipe > 0 /\ pipe' = pipe - 1 /\ got' = got + 1 /\ UNCHANGED <<process, left, at, outcome, output>>
    BY <1>1 DEF C!Read, C!CanRead, C!command
  <2>2. at # "returned"
    BY <1>1 DEF C!Read, C!CanRead, C!Reads
  <2>3. Left \in Nat
    BY DEF CInv, Left, C!Writers
  <2> QED BY <2>1, <2>2, <2>3 DEF CInv, C!Running, Left
<1>2. CASE C!Wait
  <2>1. at = "waiting" /\ at' = "draining" /\ UNCHANGED <<process, left, pipe, got, outcome, output>>
    BY <1>2 DEF C!Wait, C!ShellSeen, C!command
  <2> QED BY <2>1 DEF CInv, C!Running, Left
<1> QED BY <1>1, <1>2

\* At the end of the pipe nobody is left to write, so everything was read.
LEMMA CReturns ==
  ASSUME CInv, C!Return
  PROVE  CInv'
<1>1. /\ at = "draining" /\ pipe = 0 /\ C!Alive = {} /\ at' = "returned" /\ outcome' = "exit"
      /\ UNCHANGED <<process, left, pipe, got, output>>
  BY DEF C!Return, C!EndOfPipe, C!command
<1>2. left["shell"] = 0 /\ left["helper"] = 0
  BY <1>1 DEF CInv, C!Alive, C!Writers
<1>3. got = output
  BY <1>1, <1>2 DEF CInv, Left
<1> QED BY <1>1, <1>3 DEF CInv

LEMMA CTimeout ==
  ASSUME CInv, C!Timeout
  PROVE  CInv'
<1>1. /\ at' = "returned" /\ outcome' = "timeout" /\ got' = 0 /\ UNCHANGED <<left, pipe>>
      /\ process' = [process EXCEPT !["shell"] = IF @ = "running" THEN "killed" ELSE @]
  BY DEF C!Timeout
<1>2. process' \in [C!Writers -> {"none", "running", "ended", "killed"}]
  BY <1>1 DEF CInv, C!Writers
<1> QED BY <1>1, <1>2 DEF CInv

LEMMA CAlways ==
  ASSUME C!CommandAssumption
  PROVE  C!Spec => []CInv
<1>1. CInv /\ [C!Next]_(C!vars) => CInv'
  <2> SUFFICES ASSUME CInv, [C!Next]_(C!vars) PROVE CInv'
    OBVIOUS
  <2>1. CASE UNCHANGED C!vars
    BY <2>1 DEF C!vars, C!command, CInv, C!Running, Left
  <2> QED BY <2>1, CWrites, CEnds, CReads, CReturns, CTimeout DEF C!Next, C!Fxrs
<1>2. C!Init => CInv
  BY CInit
<1> QED BY <1>1, <1>2, PTL DEF C!Spec

\* Whatever a command writes, by whichever route it runs and however large the
\* pipe is: it is given up only while something of it can go on.
THEOREM TimeoutsMeanBusy ==
  ASSUME C!CommandAssumption
  PROVE  C!Spec => TimeoutMeansBusy
<1>1. ASSUME CInv, C!Next, outcome # "timeout", outcome' = "timeout"
      PROVE  C!Alive # {} /\ pipe < PipeCap
  <2>1. C!Timeout
    BY <1>1 DEF C!Next, C!Fxrs, C!Read, C!Wait, C!Return, C!WriteOut, C!Exit
  <2>2. at \in {"waiting", "draining"} /\ route = "run_command" /\ pipe \in Nat
    BY <1>1, <2>1 DEF CInv, C!Timeout
  <2>3. pipe = 0
    BY <2>1, <2>2 DEF C!Timeout, C!CanRead, C!Reads
  <2>4. C!Alive # {}
    BY <2>1, <2>2, <2>3 DEF C!Timeout, C!ShellSeen, C!EndOfPipe, C!Alive, C!Writers
  <2> QED BY <2>3, <2>4 DEF C!CommandAssumption
<1>2. CInv /\ [C!Next]_(C!vars) =>
        [outcome # "timeout" /\ outcome' = "timeout" => C!Alive # {} /\ pipe < PipeCap]_(C!vars)
  BY <1>1
<1> QED BY <1>2, CAlways, PTL DEF C!Spec, TimeoutMeansBusy, C!TimeoutMeansBusy

\* What is returned with an exit status is everything that the command, and what
\* it left behind with its pipe, has written.
THEOREM ExitsAreWhole ==
  ASSUME C!CommandAssumption
  PROVE  C!Spec => []ExitMeansWhole
<1>1. CInv => ExitMeansWhole
  BY DEF CInv, ExitMeansWhole, C!ExitMeansWhole
<1> QED BY <1>1, CAlways, PTL

-----------------------------------------------------------------------------
(* Projection: chains of values, each made from the one before it.         *)

Less == {p \in Nat \X Nat : p[1] < p[2]}

\* A set of numbers has a smallest one.
LEMMA FirstOfAny ==
  ASSUME NEW set, set \subseteq Nat, set # {}
  PROVE  \E k \in set : \A j \in set : k <= j
<1>1. IsWellFoundedOn(Less, Nat)
  BY NatLessThanWellFounded DEF OpToRel, Less
<1>2. IsWellFoundedOn(Less, set)
  BY <1>1, IsWellFoundedOnSubset
<1>3. PICK k \in set : \A j \in set : ~(<<j, k>> \in Less)
  BY <1>2, WFMin
<1>4. \A j \in set : ~(j < k)
  BY <1>3 DEF Less
<1> QED BY <1>4

\* What holds of the first number, and of each with the one before it, holds
\* of all up to a number.
LEMMA UpTo ==
  ASSUME NEW n \in Nat, NEW good, 0 \in good,
         \A k \in 1 .. n : k - 1 \in good => k \in good
  PROVE  \A k \in 0 .. n : k \in good
<1> SUFFICES ASSUME NEW k \in 0 .. n, k \notin good PROVE FALSE
  OBVIOUS
<1> DEFINE set == {j \in 0 .. n : j \notin good}
<1>1. PICK m \in set : \A j \in set : m <= j
  <2>1. set \subseteq Nat /\ set # {}
    OBVIOUS
  <2> HIDE DEF set
  <2> QED BY <2>1, FirstOfAny
<1>2. m \in 1 .. n /\ m - 1 \in 0 .. n
  OBVIOUS
<1>3. m - 1 \in good
  BY <1>1, <1>2
<1> QED BY <1>2, <1>3

\* The turns of push over some bytes.
Start(p) == [at |-> 1, projector |-> [p EXCEPT !.pending = <<>>]]
Chain(walk, p, bytes, n) ==
  walk = [k \in 0 .. n |-> IF k = 0 THEN Start(p) ELSE P!Turn(bytes, walk[k - 1])]

LEMMA ChainExists ==
  ASSUME NEW bytes, NEW p, NEW n \in Nat
  PROVE  \E walk : Chain(walk, p, bytes, n)
<1> DEFINE good == {k \in Nat : \E walk : Chain(walk, p, bytes, k)}
<1>1. 0 \in good
  <2> DEFINE walk == [k \in 0 .. 0 |-> Start(p)]
  <2>1. walk = [k \in 0 .. 0 |-> IF k = 0 THEN Start(p) ELSE P!Turn(bytes, walk[k - 1])]
    OBVIOUS
  <2>2. Chain(walk, p, bytes, 0)
    BY <2>1, Zenon DEF Chain
  <2> QED BY <2>2
<1>2. ASSUME NEW k \in 1 .. n, k - 1 \in good PROVE k \in good
  <2>1. k - 1 \in Nat /\ k \in Nat
    OBVIOUS
  <2>2. PICK old : Chain(old, p, bytes, k - 1)
    BY <1>2, Zenon
  <2> DEFINE walk == [j \in 0 .. k |-> IF j < k THEN old[j] ELSE P!Turn(bytes, old[k - 1])]
  <2>3. ASSUME NEW j \in 0 .. k PROVE walk[j] = IF j = 0 THEN Start(p) ELSE P!Turn(bytes, walk[j - 1])
    <3>1. \A i \in 0 .. k - 1 : old[i] = IF i = 0 THEN Start(p) ELSE P!Turn(bytes, old[i - 1])
      BY <2>2, Zenon DEF Chain
    <3> QED BY <2>3, <3>1
  <2>4. walk = [j \in 0 .. k |-> IF j = 0 THEN Start(p) ELSE P!Turn(bytes, walk[j - 1])]
    <3>1. walk = [j \in 0 .. k |-> walk[j]]
      OBVIOUS
    <3> HIDE DEF walk
    <3> QED BY <2>3, <3>1, Zenon
  <2>5. Chain(walk, p, bytes, k)
    BY <2>4, Zenon DEF Chain
  <2> QED BY <2>1, <2>5
<1> HIDE DEF good
<1>3. \A k \in 0 .. n : k \in good
  BY <1>1, <1>2, UpTo
<1>4. n \in good
  BY <1>3
<1> QED BY <1>4 DEF good

LEMMA TurnsAre ==
  ASSUME NEW bytes, NEW p, Len(bytes) \in Nat
  PROVE  /\ P!Turns(p, bytes)[0] = Start(p)
         /\ \A k \in 1 .. Len(bytes) :
              P!Turns(p, bytes)[k] = P!Turn(bytes, P!Turns(p, bytes)[k - 1])
<1>1. P!Turns(p, bytes) = CHOOSE walk : Chain(walk, p, bytes, Len(bytes))
  BY Zenon DEF P!Turns, Chain, Start
<1>2. Chain(P!Turns(p, bytes), p, bytes, Len(bytes))
  BY <1>1, ChainExists, Zenon
<1> DEFINE walk == P!Turns(p, bytes)
<1>3. \A k \in 0 .. Len(bytes) : walk[k] = IF k = 0 THEN Start(p) ELSE P!Turn(bytes, walk[k - 1])
  BY <1>2, Zenon DEF Chain
<1> HIDE DEF walk
<1>4. walk[0] = Start(p) /\ \A k \in 1 .. Len(bytes) : walk[k] = P!Turn(bytes, walk[k - 1])
  BY <1>3
<1> QED BY <1>4 DEF walk

\* A part of the bytes is as long as it says, and has them in their places.
LEMMA PartOf ==
  ASSUME NEW bytes \in Seq(STRING), NEW s \in 1 .. Len(bytes) + 1, NEW e \in 0 .. Len(bytes), s <= e + 1
  PROVE  /\ SubSeq(bytes, s, e) \in Seq(STRING)
         /\ Len(SubSeq(bytes, s, e)) = e - s + 1
         /\ \A k \in 1 .. e - s + 1 : SubSeq(bytes, s, e)[k] = bytes[s + k - 1]
BY SubSeqProperties

LEMMA PartOfPart ==
  ASSUME NEW bytes \in Seq(STRING), NEW s \in 1 .. Len(bytes) + 1, NEW e \in 0 .. Len(bytes), s <= e + 1,
         NEW i \in Nat, NEW j \in Nat, 1 <= i, i <= j + 1, j <= e - s + 1
  PROVE  SubSeq(SubSeq(bytes, s, e), i, j) = SubSeq(bytes, s + i - 1, s + j - 1)
<1> DEFINE piece == SubSeq(bytes, s, e)
           x == SubSeq(piece, i, j)
           y == SubSeq(bytes, s + i - 1, s + j - 1)
<1>1. piece \in Seq(STRING) /\ Len(piece) = e - s + 1 /\ \A k \in 1 .. e - s + 1 : piece[k] = bytes[s + k - 1]
  BY PartOf
<1>2. y \in Seq(STRING) /\ Len(y) = j - i + 1 /\ \A k \in 1 .. j - i + 1 : y[k] = bytes[s + i - 1 + k - 1]
  <2>1. s + i - 1 \in 1 .. Len(bytes) + 1 /\ s + j - 1 \in 0 .. Len(bytes) /\ s + i - 1 <= s + j - 1 + 1
    OBVIOUS
  <2>2. s + j - 1 - (s + i - 1) + 1 = j - i + 1
    OBVIOUS
  <2> QED BY <2>1, <2>2, PartOf
<1> HIDE DEF piece
<1>3. x \in Seq(STRING) /\ Len(x) = j - i + 1 /\ \A k \in 1 .. j - i + 1 : x[k] = piece[i + k - 1]
  <2>1. i \in 1 .. Len(piece) + 1 /\ j \in 0 .. Len(piece)
    BY <1>1
  <2> QED BY <1>1, <2>1, PartOf
<1> HIDE DEF x, y
<1>4. \A k \in 1 .. j - i + 1 : x[k] = y[k]
  <2> TAKE k \in 1 .. j - i + 1
  <2>1. i + k - 1 \in 1 .. e - s + 1 /\ s + (i + k - 1) - 1 = s + i - 1 + k - 1
    OBVIOUS
  <2> QED BY <1>1, <1>2, <1>3, <2>1
<1>5. x = y
  BY <1>2, <1>3, <1>4, SeqEqual
<1> QED BY <1>5 DEF x, y, piece

LEMMA LeastOfTwo ==
  ASSUME NEW x \in Int, NEW y \in Int, x <= y
  PROVE  P!Min({x, y}) = x
<1> DEFINE least(z) == z \in {x, y} /\ \A other \in {x, y} : z <= other
<1>1. least(x)
  OBVIOUS
<1>2. P!Min({x, y}) = CHOOSE z \in {x, y} : \A other \in {x, y} : z <= other
  BY DEF P!Min
<1>3. \A z : least(z) => z = x
  OBVIOUS
<1> HIDE DEF least
<1>4. P!Min({x, y}) = CHOOSE z : least(z)
  BY <1>2, Zenon DEF least
<1> QED BY <1>1, <1>3, <1>4, Zenon

\* What a turn does depends on the character alone that it takes.
LEMMA LengthOfCharacter ==
  ASSUME NEW byte
  PROVE  /\ P!SequenceLength(byte) \in 0 .. 3
         /\ byte \in {"a", "n", "k"} => P!SequenceLength(byte) = 1
BY DEF P!SequenceLength

LEMMA StepIsLocal ==
  ASSUME NEW bytes \in Seq(STRING), NEW s \in 1 .. Len(bytes) + 1, NEW e \in 0 .. Len(bytes), s <= e + 1,
         NEW i \in 1 .. e - s + 1
  PROVE  LET piece == SubSeq(bytes, s, e) IN
         /\ P!Cut(piece, i) <=> e - (s + i - 1) + 1 < P!SequenceLength(bytes[s + i - 1])
         /\ ~P!Cut(piece, i) =>
              /\ ~P!Cut(bytes, s + i - 1)
              /\ P!Step(piece, i) = P!Step(bytes, s + i - 1)
              /\ P!Step(piece, i).passed \in 1 .. e - s + 1 - i + 1
<1> DEFINE piece == SubSeq(bytes, s, e)
           place == s + i - 1
           byte == bytes[place]
           length == P!SequenceLength(byte)
<1>1. piece \in Seq(STRING) /\ Len(piece) = e - s + 1 /\ piece[i] = byte
  BY PartOf
<1>2. length \in 0 .. 3 /\ (byte \in {"a", "n", "k"} => length = 1)
  BY LengthOfCharacter
<1>3. P!Cut(piece, i) <=> e - place + 1 < length
  <2>1. Len(piece) - i + 1 = e - place + 1
    BY <1>1
  <2> QED BY <1>1, <2>1 DEF P!Cut
<1>4. ASSUME ~P!Cut(piece, i)
      PROVE  ~P!Cut(bytes, place) /\ length <= e - place + 1
  <2>1. length <= e - place + 1
    BY <1>2, <1>3, <1>4
  <2>2. ~P!Cut(bytes, place)
    BY <1>2, <2>1 DEF P!Cut
  <2> QED BY <2>1, <2>2
<1>5. ASSUME ~P!Cut(piece, i), length # 0
      PROVE  SubSeq(piece, i, P!Min({i + length - 1, Len(piece)})) =
             SubSeq(bytes, place, P!Min({place + length - 1, Len(bytes)}))
  <2>1. length \in 1 .. e - place + 1
    BY <1>2, <1>4, <1>5
  <2>2. P!Min({i + length - 1, Len(piece)}) = i + length - 1
    <3>1. i + length - 1 \in Int /\ Len(piece) \in Int /\ i + length - 1 <= Len(piece)
      BY <1>1, <2>1
    <3> HIDE DEF piece, length
    <3> QED BY <3>1, LeastOfTwo
  <2>3. P!Min({place + length - 1, Len(bytes)}) = place + length - 1
    <3>1. place + length - 1 \in Int /\ Len(bytes) \in Int /\ place + length - 1 <= Len(bytes)
      BY <2>1
    <3> HIDE DEF place, length
    <3> QED BY <3>1, LeastOfTwo
  <2>4. SubSeq(piece, i, i + length - 1) = SubSeq(bytes, s + i - 1, s + (i + length - 1) - 1)
    <3>1. i \in Nat /\ i + length - 1 \in Nat /\ 1 <= i /\ i <= i + length - 1 + 1 /\ i + length - 1 <= e - s + 1
      BY <2>1
    <3> HIDE DEF length
    <3> QED BY <3>1, PartOfPart
  <2>5. s + (i + length - 1) - 1 = place + length - 1
    BY <2>1
  <2> HIDE DEF length
  <2> QED BY <2>2, <2>3, <2>4, <2>5
<1>6. ASSUME ~P!Cut(piece, i)
      PROVE  P!Step(piece, i) = P!Step(bytes, place)
  <2>1. CASE length = 0
    <3>1. byte \notin {"a", "n", "k"}
      BY <1>2, <2>1
    <3> HIDE DEF piece, place
    <3>2. piece[i] = byte
      BY <1>1
    <3>3. ASSUME NEW t, NEW k, t[k] = byte
          PROVE  P!Step(t, k) = [shown |-> P!Escape(byte), passed |-> 1, kind |-> "invalid"]
      BY <2>1, <3>1, <3>3 DEF P!Step
    <3> QED BY <3>2, <3>3
  <2>2. CASE length # 0
    <3> DEFINE x == SubSeq(piece, i, P!Min({i + length - 1, Len(piece)}))
               y == SubSeq(bytes, place, P!Min({place + length - 1, Len(bytes)}))
               made(t) == CASE byte \in {"a", "n"} -> [shown |-> P!Plain(<<byte>>), passed |-> 1, kind |-> "plain"]
                    [] byte = "k"  -> [shown |-> P!Escape(byte), passed |-> 1, kind |-> "control"]
                    [] length = 0  -> [shown |-> P!Escape(byte), passed |-> 1, kind |-> "invalid"]
                    [] OTHER ->
                         IF ~P!IsCharacter(t) THEN [shown |-> P!Escape(byte), passed |-> length, kind |-> "invalid"]
                         ELSE IF byte = "C" THEN [shown |-> P!Escape("C1"), passed |-> length, kind |-> "control"]
                         ELSE [shown |-> P!Plain(t), passed |-> length, kind |-> "plain"]
    <3>1. P!Step(bytes, place) = made(y)
      BY Zenon DEF P!Step
    <3>2. P!Step(piece, i) = made(x)
      <4>1. piece[i] = byte
        BY <1>1
      <4> HIDE DEF piece, byte
      <4> QED BY <4>1, Zenon DEF P!Step
    <3>3. x = y
      BY <1>5, <1>6, <2>2
    <3> QED BY <3>1, <3>2, <3>3
  <2> QED BY <2>1, <2>2
<1>7. ASSUME ~P!Cut(piece, i)
      PROVE  P!Step(piece, i).passed \in 1 .. e - s + 1 - i + 1
  <2>1. P!Step(piece, i).passed = IF byte \in {"a", "n", "k"} \/ length = 0 THEN 1 ELSE length
    <3>1. piece[i] = byte
      BY <1>1
    <3> HIDE DEF piece, byte, place
    <3> QED BY <3>1, <1>2 DEF P!Step
  <2>2. length \in 1 .. e - place + 1 \/ length = 0
    BY <1>2, <1>4, <1>7
  <2> HIDE DEF length, byte, piece
  <2> QED BY <1>2, <2>1, <2>2
<1> QED BY <1>3, <1>4, <1>6, <1>7

\* What a projector is that has nothing pending.
Held(p) == p = [pending |-> <<>>, shown |-> p.shown, controls |-> p.controls, invalid |-> p.invalid]

Whole(bytes, k) == P!Turns(P!Fresh, bytes)[k]

\* The walk over all bytes comes by the place at, with this projector.
ComesBy(bytes, at0, p) ==
  \E k \in 0 .. Len(bytes) :
    k < Whole(bytes, k).at /\ Whole(bytes, k) = [at |-> at0, projector |-> p]

\* The walk over the bytes up to e stands at this place.
StandsAt(bytes, e, at0) == at0 = e + 1 \/ e - at0 + 1 < P!SequenceLength(bytes[at0])

LEMMA HeldShows ==
  ASSUME NEW p, Held(p), NEW step
  PROVE  Held(P!Shows(p, step))
<1> DEFINE shown == Append(p.shown, step.shown)
           controls == IF step.kind = "control" THEN p.controls + 1 ELSE p.controls
           invalid == IF step.kind = "invalid" THEN p.invalid + 1 ELSE p.invalid
<1>1. p.pending = <<>>
  BY DEF Held
<1>2. P!Shows(p, step) = [pending |-> <<>>, shown |-> shown, controls |-> controls, invalid |-> invalid]
  BY <1>1, Zenon DEF P!Shows
<1> HIDE DEF shown, controls, invalid
<1> QED BY <1>2 DEF Held

\* A walk over a part of the bytes, which begins where the walk over all comes
\* by, goes with it as far as the part allows.
LEMMA Resumes ==
  ASSUME NEW bytes \in Seq(STRING), NEW s \in 1 .. Len(bytes) + 1, NEW e \in 0 .. Len(bytes), s <= e + 1,
         NEW p, Held([p EXCEPT !.pending = <<>>]), ComesBy(bytes, s, [p EXCEPT !.pending = <<>>])
  PROVE  LET piece == SubSeq(bytes, s, e)
             last == P!Turns(p, piece)[Len(piece)] IN
         /\ last.at \in 1 .. Len(piece) + 1
         /\ Held(last.projector)
         /\ ComesBy(bytes, s + last.at - 1, last.projector)
         /\ StandsAt(bytes, e, s + last.at - 1)
<1> DEFINE piece == SubSeq(bytes, s, e)
           n == e - s + 1
           walk(k) == P!Turns(p, piece)[k]
           along(k) == /\ walk(k) = [at |-> walk(k).at, projector |-> walk(k).projector]
                       /\ walk(k).at \in 1 .. n + 1
                       /\ Held(walk(k).projector)
                       /\ ComesBy(bytes, s + walk(k).at - 1, walk(k).projector)
                       /\ k < walk(k).at \/ StandsAt(bytes, e, s + walk(k).at - 1)
           good == {k \in 0 .. n : along(k)}
<1>1. n \in Nat /\ Len(piece) = n
  BY PartOf
<1>2. walk(0) = Start(p) /\ \A k \in 1 .. n : walk(k) = P!Turn(piece, walk(k - 1))
  BY <1>1, TurnsAre
<1>3. 0 \in good
  <2>1. walk(0).at = 1 /\ walk(0).projector = [p EXCEPT !.pending = <<>>]
    BY <1>2 DEF Start
  <2>2. walk(0) = [at |-> walk(0).at, projector |-> walk(0).projector]
    BY <1>2 DEF Start
  <2>3. s + 1 - 1 = s /\ 1 \in 1 .. n + 1 /\ 0 < 1 /\ 0 \in 0 .. n
    BY <1>1
  <2> HIDE DEF walk, n
  <2> QED BY <2>1, <2>2, <2>3
<1>4. ASSUME NEW k \in 1 .. n, k - 1 \in good PROVE k \in good
  <2> DEFINE a == walk(k - 1).at
             q == walk(k - 1).projector
             place == s + a - 1
  <2>1. walk(k) = P!Turn(piece, walk(k - 1)) /\ along(k - 1) /\ k \in 0 .. n
    BY <1>2, <1>4
  <2>2. /\ walk(k - 1) = [at |-> a, projector |-> q] /\ a \in 1 .. n + 1 /\ Held(q)
        /\ ComesBy(bytes, place, q) /\ (k - 1 < a \/ StandsAt(bytes, e, place))
    BY <2>1
  <2>3. place \in Int /\ (a = n + 1 <=> place = e + 1)
    <3>1. a \in 1 .. n + 1
      BY <2>2
    <3> HIDE DEF a
    <3> QED BY <3>1
  <2>4. a <= n => (P!Cut(piece, a) <=> e - place + 1 < P!SequenceLength(bytes[place]))
    BY <2>2, StepIsLocal
  <2>5. CASE a > n \/ P!Cut(piece, a)
    <3>1. walk(k) = walk(k - 1)
      <4>1. walk(k - 1).at > Len(piece) \/ P!Cut(piece, walk(k - 1).at)
        BY <1>1, <2>5
      <4> HIDE DEF walk, piece
      <4> QED BY <2>1, <4>1 DEF P!Turn
    <3>2. StandsAt(bytes, e, place)
      <4>1. CASE a > n
        <5>1. a = n + 1
          <6>1. a \in 1 .. n + 1
            BY <2>2
          <6> HIDE DEF a
          <6> QED BY <1>1, <4>1, <6>1
        <5>2. place = e + 1
          BY <2>3, <5>1
        <5> HIDE DEF place
        <5> QED BY <5>2 DEF StandsAt
      <4>2. CASE a <= n
        <5>1. P!Cut(piece, a)
          BY <2>2, <2>5, <4>2
        <5> HIDE DEF a, piece, place
        <5> QED BY <2>4, <4>2, <5>1 DEF StandsAt
      <4> QED BY <2>2, <4>1, <4>2
    <3>3. along(k)
      <4> HIDE DEF walk, n
      <4> QED BY <2>2, <3>1, <3>2
    <3> HIDE DEF along
    <3> QED BY <2>1, <3>3
  <2>6. CASE a <= n /\ ~P!Cut(piece, a)
    <3> DEFINE step == P!Step(piece, a)
    <3>1. /\ ~P!Cut(bytes, place) /\ step = P!Step(bytes, place)
          /\ step.passed \in 1 .. n - a + 1
      <4>1. a \in 1 .. n + 1 /\ a <= n /\ n \in Nat
        BY <1>1, <2>2, <2>6
      <4>2. a \in 1 .. n
        <5> HIDE DEF a, n
        <5> QED BY <4>1
      <4>3. a \in 1 .. e - s + 1
        BY <4>2
      <4>4. ~P!Cut(piece, a)
        BY <2>6
      <4> HIDE DEF a
      <4> QED BY <4>3, <4>4, StepIsLocal
    <3>2. walk(k) = [at |-> a + step.passed, projector |-> P!Shows(q, step)]
      <4>1. ~(walk(k - 1).at > Len(piece)) /\ ~P!Cut(piece, walk(k - 1).at)
        BY <1>1, <2>2, <2>6
      <4>2. P!Turn(piece, walk(k - 1)) = [at |-> walk(k - 1).at + step.passed, projector |-> P!Shows(walk(k - 1).projector, step)]
        <5> HIDE DEF walk, piece
        <5> QED BY <4>1 DEF P!Turn
      <4> HIDE DEF walk, piece
      <4> QED BY <2>1, <4>2
    <3>3. PICK j \in 0 .. Len(bytes) : j < Whole(bytes, j).at /\ Whole(bytes, j) = [at |-> place, projector |-> q]
      <4> HIDE DEF place, q
      <4> QED BY <2>2 DEF ComesBy
    <3>4. place <= e /\ j < place /\ j + 1 \in 1 .. Len(bytes) /\ j + 1 - 1 = j
      <4>1. place <= e
        BY <2>2, <2>6
      <4>2. j < place
        <5> HIDE DEF place, q
        <5> QED BY <3>3
      <4> HIDE DEF place
      <4> QED BY <4>1, <4>2, <2>3
    <3>5. Whole(bytes, j + 1) = [at |-> place + step.passed, projector |-> P!Shows(q, step)]
      <4>1. Whole(bytes, j + 1) = P!Turn(bytes, Whole(bytes, j))
        <5>1. Len(bytes) \in Nat
          OBVIOUS
        <5> QED BY <3>4, <5>1, TurnsAre DEF Whole
      <4>2. Whole(bytes, j).at = place /\ Whole(bytes, j).projector = q
        <5> HIDE DEF place, q
        <5> QED BY <3>3
      <4>3. ~(place > Len(bytes))
        BY <3>4, <2>3
      <4> HIDE DEF place, q, step
      <4>4. P!Turn(bytes, Whole(bytes, j)) = [at |-> place + step.passed, projector |-> P!Shows(q, step)]
        BY <3>1, <4>2, <4>3 DEF P!Turn
      <4> QED BY <4>1, <4>4
    <3>6. walk(k).at = a + step.passed /\ walk(k).projector = P!Shows(q, step)
      <4> HIDE DEF walk, a, q, step
      <4> QED BY <3>2
    <3>7. s + walk(k).at - 1 = place + step.passed
      <4>1. step.passed \in Int /\ a \in Int
        BY <3>1, <2>2
      <4> HIDE DEF walk, a, step, piece, along, good
      <4> QED BY <3>6, <4>1
    <3>8. ~StandsAt(bytes, e, place)
      <4>1. place # e + 1 /\ ~(e - place + 1 < P!SequenceLength(bytes[place]))
        <5> HIDE DEF piece
        <5> QED BY <2>3, <2>4, <2>6
      <4> HIDE DEF place
      <4> QED BY <4>1 DEF StandsAt
    <3>9. walk(k).at \in 1 .. n + 1 /\ k < walk(k).at
      <4>1. k - 1 < a /\ a \in 1 .. n + 1 /\ k \in 1 .. n
        BY <2>2, <3>8
      <4> DEFINE d == step.passed
                 b == walk(k).at
      <4>2. b = a + d /\ d \in 1 .. n - a + 1
        BY <3>1, <3>6
      <4> HIDE DEF a, b, d, n
      <4>3. b \in 1 .. n + 1 /\ k < b
        <5>1. n \in Int /\ k \in Int /\ a \in Int
          BY <1>1, <4>1
        <5>2. d \in Int /\ 1 <= d /\ d <= n - a + 1
          BY <4>2, <5>1
        <5>3. k <= a /\ 1 <= a
          BY <4>1, <5>1
        <5> QED BY <4>2, <5>1, <5>2, <5>3
      <4> QED BY <4>3 DEF b
    <3>10. ComesBy(bytes, place + step.passed, P!Shows(q, step))
      <4>1. j + 1 < Whole(bytes, j + 1).at
        <5>1. j + 1 < place + step.passed
          <6> HIDE DEF step, place
          <6> QED BY <2>3, <3>1, <3>4
        <5>2. Whole(bytes, j + 1).at = place + step.passed
          <6> HIDE DEF step, place, q
          <6> QED BY <3>5
        <5> HIDE DEF step, place
        <5> QED BY <5>1, <5>2
      <4>2. j + 1 \in 0 .. Len(bytes)
        BY <3>4
      <4> HIDE DEF step, place, q
      <4> QED BY <3>5, <4>1, <4>2 DEF ComesBy
    <3>11. Held(P!Shows(q, step))
      BY <2>2, HeldShows
    <3>12. along(k)
      <4>1. walk(k) = [at |-> walk(k).at, projector |-> walk(k).projector]
        <5> HIDE DEF walk, q, a, step
        <5> QED BY <3>2
      <4> HIDE DEF walk, q, a, step, place
      <4> QED BY <3>6, <3>7, <3>8, <3>9, <3>10, <3>11, <4>1
    <3> HIDE DEF along
    <3> QED BY <2>1, <3>12
  <2>7. a \in Int
    BY <2>2
  <2> HIDE DEF a
  <2> QED BY <1>1, <2>5, <2>6, <2>7
<1> HIDE DEF good
<1>5. \A k \in 0 .. n : k \in good
  BY <1>1, <1>3, <1>4, UpTo
<1>6. along(n)
  BY <1>1, <1>5 DEF good
<1>7. n < walk(n).at => StandsAt(bytes, e, s + walk(n).at - 1)
  <2>1. ASSUME n < walk(n).at PROVE s + walk(n).at - 1 = e + 1
    <3>1. walk(n).at \in 1 .. n + 1
      BY <1>6
    <3> HIDE DEF walk
    <3> QED BY <1>1, <2>1, <3>1
  <2> HIDE DEF walk, n
  <2> QED BY <2>1 DEF StandsAt
<1>8. walk(n) = P!Turns(p, piece)[Len(piece)]
  BY <1>1
<1> DEFINE last == walk(n)
<1>9. /\ last.at \in 1 .. n + 1 /\ Held(last.projector)
      /\ ComesBy(bytes, s + last.at - 1, last.projector) /\ StandsAt(bytes, e, s + last.at - 1)
  BY <1>6, <1>7
<1> QED BY <1>1, <1>8, <1>9

\* The projector is that of the walk over all bytes, as far as e lets it go.
Reached(bytes, e, p) ==
  \E s \in 1 .. e + 1 : \E q :
    /\ Held(q) /\ ComesBy(bytes, s, q) /\ StandsAt(bytes, e, s)
    /\ p = [q EXCEPT !.pending = SubSeq(bytes, s, e)]

LEMMA NothingReached ==
  ASSUME NEW bytes \in Seq(STRING)
  PROVE  Reached(bytes, 0, P!Fresh)
<1>1. Whole(bytes, 0) = [at |-> 1, projector |-> [P!Fresh EXCEPT !.pending = <<>>]]
  <2>1. Len(bytes) \in Nat
    OBVIOUS
  <2> QED BY <2>1, TurnsAre DEF Whole, Start
<1>2. [P!Fresh EXCEPT !.pending = <<>>] = P!Fresh
  BY DEF P!Fresh
<1>3. ComesBy(bytes, 1, P!Fresh)
  <2>1. Whole(bytes, 0).at = 1 /\ 0 \in 0 .. Len(bytes) /\ 0 < 1
    BY <1>1
  <2> QED BY <1>1, <1>2, <2>1 DEF ComesBy
<1>4. Held(P!Fresh)
  BY DEF Held, P!Fresh
<1>5. StandsAt(bytes, 0, 1)
  BY DEF StandsAt
<1>6. SubSeq(bytes, 1, 0) = <<>>
  BY PartOf, EmptySeq
<1>7. 1 \in 1 .. 0 + 1
  OBVIOUS
<1> QED BY <1>2, <1>3, <1>4, <1>5, <1>6, <1>7 DEF Reached

\* Two parts that follow one another are one part.
LEMMA PartsJoin ==
  ASSUME NEW bytes \in Seq(STRING), NEW e \in 0 .. Len(bytes), NEW f \in e .. Len(bytes),
         NEW s \in 1 .. e + 1
  PROVE  SubSeq(bytes, s, e) \o SubSeq(bytes, e + 1, f) = SubSeq(bytes, s, f)
<1> DEFINE x == SubSeq(bytes, s, e)
           y == SubSeq(bytes, e + 1, f)
           z == SubSeq(bytes, s, f)
<1>1. x \in Seq(STRING) /\ Len(x) = e - s + 1 /\ \A k \in 1 .. e - s + 1 : x[k] = bytes[s + k - 1]
  BY PartOf
<1>2. y \in Seq(STRING) /\ Len(y) = f - e /\ \A k \in 1 .. f - e : y[k] = bytes[e + k]
  <2>1. e + 1 \in 1 .. Len(bytes) + 1 /\ f \in 0 .. Len(bytes) /\ e + 1 <= f + 1
    OBVIOUS
  <2>2. f - (e + 1) + 1 = f - e /\ \A k \in 1 .. f - e : e + 1 + k - 1 = e + k
    OBVIOUS
  <2> QED BY <2>1, <2>2, PartOf
<1>3. z \in Seq(STRING) /\ Len(z) = f - s + 1 /\ \A k \in 1 .. f - s + 1 : z[k] = bytes[s + k - 1]
  BY PartOf
<1> HIDE DEF x, y, z
<1>4. x \o y \in Seq(STRING) /\ Len(x \o y) = f - s + 1
  <2>1. \A a, b \in Seq(STRING) : a \o b \in Seq(STRING) /\ Len(a \o b) = Len(a) + Len(b)
    BY ConcatProperties
  <2>2. e - s + 1 + (f - e) = f - s + 1
    OBVIOUS
  <2> QED BY <1>1, <1>2, <2>1, <2>2
<1>5. \A k \in 1 .. f - s + 1 : (x \o y)[k] = z[k]
  <2> SUFFICES ASSUME NEW k \in 1 .. f - s + 1 PROVE (x \o y)[k] = z[k]
    OBVIOUS
  <2>1. CASE k <= e - s + 1
    <3>1. (x \o y)[k] = x[k]
      BY <1>1, <1>2, <2>1, ConcatProperties
    <3> QED BY <1>1, <1>3, <2>1, <3>1
  <2>2. CASE k > e - s + 1
    <3>1. (x \o y)[k] = y[k - (e - s + 1)]
      BY <1>1, <1>2, <2>2, ConcatProperties
    <3>2. k - (e - s + 1) \in 1 .. f - e /\ e + (k - (e - s + 1)) = s + k - 1
      BY <2>2
    <3> QED BY <1>2, <1>3, <3>1, <3>2
  <2>3. k <= e - s + 1 \/ k > e - s + 1
    OBVIOUS
  <2> QED BY <2>1, <2>2, <2>3
<1>6. x \o y = z
  BY <1>3, <1>4, <1>5, SeqEqual
<1> QED BY <1>6 DEF x, y, z

\* What a piece makes of a projector is the walk as far as the piece lets it go.
LEMMA PushReaches ==
  ASSUME NEW bytes \in Seq(STRING), NEW e \in 0 .. Len(bytes), NEW f \in e .. Len(bytes),
         NEW p, Reached(bytes, e, p)
  PROVE  Reached(bytes, f, P!Pushed(p, SubSeq(bytes, e + 1, f)))
<1>0. PICK s \in 1 .. e + 1 : \E q :
        /\ Held(q) /\ ComesBy(bytes, s, q) /\ StandsAt(bytes, e, s)
        /\ p = [q EXCEPT !.pending = SubSeq(bytes, s, e)]
  BY DEF Reached
<1>1. PICK q :
        /\ Held(q) /\ ComesBy(bytes, s, q) /\ StandsAt(bytes, e, s)
        /\ p = [q EXCEPT !.pending = SubSeq(bytes, s, e)]
  BY <1>0
<1> DEFINE piece == SubSeq(bytes, s, f)
           last == P!Turns(p, piece)[Len(piece)]
<1>2. p.pending = SubSeq(bytes, s, e) /\ [p EXCEPT !.pending = <<>>] = q
  <2> DEFINE x == SubSeq(bytes, s, e)
  <2>1. PICK a, b, c : q = [pending |-> <<>>, shown |-> a, controls |-> b, invalid |-> c]
    BY <1>1 DEF Held
  <2> HIDE DEF x
  <2>2. p = [q EXCEPT !.pending = x]
    BY <1>1 DEF x
  <2>3. p = [pending |-> x, shown |-> a, controls |-> b, invalid |-> c]
    BY <2>1, <2>2
  <2>4. p.pending = x /\ [p EXCEPT !.pending = <<>>] = [pending |-> <<>>, shown |-> a, controls |-> b, invalid |-> c]
    BY <2>3
  <2> QED BY <2>1, <2>4 DEF x
<1>3. p.pending \o SubSeq(bytes, e + 1, f) = piece
  BY <1>2, PartsJoin
<1>4. P!Pushed(p, SubSeq(bytes, e + 1, f)) =
        [last.projector EXCEPT !.pending = SubSeq(piece, last.at, Len(piece))]
  BY <1>3, Zenon DEF P!Pushed
<1>5. s \in 1 .. Len(bytes) + 1 /\ f \in 0 .. Len(bytes) /\ s <= f + 1
  OBVIOUS
<1>6. /\ last.at \in 1 .. Len(piece) + 1 /\ Held(last.projector)
      /\ ComesBy(bytes, s + last.at - 1, last.projector) /\ StandsAt(bytes, f, s + last.at - 1)
  <2>1. Held([p EXCEPT !.pending = <<>>]) /\ ComesBy(bytes, s, [p EXCEPT !.pending = <<>>])
    BY <1>1, <1>2
  <2> QED BY <1>5, <2>1, Resumes
<1>7. Len(piece) = f - s + 1
  BY <1>5, PartOf
<1>8. SubSeq(piece, last.at, Len(piece)) = SubSeq(bytes, s + last.at - 1, f)
  <2> DEFINE a == last.at
  <2>1. a \in 1 .. f - s + 2
    BY <1>6, <1>7
  <2> HIDE DEF a
  <2>2. a \in Nat /\ f - s + 1 \in Nat /\ 1 <= a /\ a <= f - s + 1 + 1 /\ f - s + 1 <= f - s + 1
        /\ s + (f - s + 1) - 1 = f
    BY <1>5, <2>1
  <2>3. SubSeq(piece, a, f - s + 1) = SubSeq(bytes, s + a - 1, s + (f - s + 1) - 1)
    BY <1>5, <2>2, PartOfPart
  <2> QED BY <1>7, <2>2, <2>3 DEF a
<1>9. s + last.at - 1 \in 1 .. f + 1
  <2> DEFINE a == last.at
  <2>1. a \in 1 .. f - s + 2
    BY <1>6, <1>7
  <2> HIDE DEF a
  <2>2. s + a - 1 \in 1 .. f + 1
    BY <2>1
  <2> QED BY <2>2 DEF a
<1> HIDE DEF last, piece
<1> QED BY <1>4, <1>6, <1>8, <1>9 DEF Reached

\* All bytes in one piece make the same.
LEMMA WholeReached ==
  ASSUME NEW bytes \in Seq(STRING), NEW p, Reached(bytes, Len(bytes), p)
  PROVE  p = P!Pushed(P!Fresh, bytes)
<1> DEFINE n == Len(bytes)
<1>0. PICK s \in 1 .. n + 1 : \E q :
        /\ Held(q) /\ ComesBy(bytes, s, q) /\ StandsAt(bytes, n, s)
        /\ p = [q EXCEPT !.pending = SubSeq(bytes, s, n)]
  BY DEF Reached
<1>1. PICK q :
        /\ Held(q) /\ ComesBy(bytes, s, q) /\ StandsAt(bytes, n, s)
        /\ p = [q EXCEPT !.pending = SubSeq(bytes, s, n)]
  BY <1>0
<1>2. PICK k \in 0 .. n : Whole(bytes, k) = [at |-> s, projector |-> q]
  BY <1>1 DEF ComesBy
<1>3. n \in Nat
  OBVIOUS
<1> DEFINE good == {j \in Nat : k + j <= n => Whole(bytes, k + j) = [at |-> s, projector |-> q]}
<1>4. 0 \in good
  BY <1>2
<1>5. ASSUME NEW j \in 1 .. n, j - 1 \in good PROVE j \in good
  <2>1. CASE k + j <= n
    <3>1. k + (j - 1) <= n /\ k + j \in 1 .. n /\ k + j - 1 = k + (j - 1)
      BY <2>1
    <3>2. Whole(bytes, k + (j - 1)) = [at |-> s, projector |-> q]
      BY <1>5, <3>1
    <3>3. Whole(bytes, k + j) = P!Turn(bytes, Whole(bytes, k + (j - 1)))
      BY <1>3, <3>1, TurnsAre DEF Whole
    <3>4. s > Len(bytes) \/ P!Cut(bytes, s)
      BY <1>1 DEF StandsAt, P!Cut
    <3>5. Whole(bytes, k + (j - 1)).at = s
      BY <3>2
    <3>6. P!Turn(bytes, Whole(bytes, k + (j - 1))) = Whole(bytes, k + (j - 1))
      BY <3>4, <3>5 DEF P!Turn
    <3>7. j \in Nat
      OBVIOUS
    <3> QED BY <3>2, <3>3, <3>6, <3>7
  <2> QED BY <2>1
<1> HIDE DEF good
<1>6. \A j \in 0 .. n : j \in good
  BY <1>3, <1>4, <1>5, UpTo
<1>7. Whole(bytes, n) = [at |-> s, projector |-> q]
  <2>1. PICK j \in 0 .. n : k + j = n
    <3>1. n - k \in 0 .. n /\ k + (n - k) = n
      BY <1>3
    <3> QED BY <3>1
  <2>2. j \in good
    BY <1>6, <2>1
  <2>3. k + j <= n
    BY <1>3, <2>1
  <2> QED BY <2>1, <2>2, <2>3 DEF good
<1>8. P!Fresh.pending \o bytes = bytes
  <2>1. P!Fresh.pending = <<>>
    BY DEF P!Fresh
  <2>2. <<>> \o bytes = bytes
    BY ConcatEmptySeq
  <2> QED BY <2>1, <2>2
<1>9. P!Pushed(P!Fresh, bytes) =
        [Whole(bytes, n).projector EXCEPT !.pending = SubSeq(bytes, Whole(bytes, n).at, n)]
  BY <1>8, Zenon DEF P!Pushed, Whole
<1>10. Whole(bytes, n).projector = q /\ Whole(bytes, n).at = s
  BY <1>7
<1> QED BY <1>1, <1>9, <1>10

PInv ==
  /\ raw \in Seq(STRING)
  /\ stage = "pushing" =>
       \E e \in 0 .. Len(raw) : rest = SubSeq(raw, e + 1, Len(raw)) /\ Reached(raw, e, projector)
  /\ P!ProjectedHoweverCut

\* However the output of a command arrives in pieces, it is shown and counted
\* as if it had arrived whole: for outputs of any length and every size of pieces.
THEOREM OutputHoweverCut == P!Spec => []ProjectedHoweverCut
<1>1. P!Init => PInv
  <2> SUFFICES ASSUME P!Init PROVE PInv
    OBVIOUS
  <2>1. raw \in Seq(STRING) /\ rest = raw /\ projector = P!Fresh /\ stage = "pushing"
    BY ProcessesAssumption DEF P!Init, P!ProjectionAssumption
  <2>2. Reached(raw, 0, P!Fresh)
    BY <2>1, NothingReached
  <2>3. SubSeq(raw, 0 + 1, Len(raw)) = raw
    <3> DEFINE whole == SubSeq(raw, 1, Len(raw))
    <3>1. whole \in Seq(STRING) /\ Len(whole) = Len(raw) /\ \A k \in 1 .. Len(raw) : whole[k] = raw[k]
      <4>1. 1 \in 1 .. Len(raw) + 1 /\ Len(raw) \in 0 .. Len(raw) /\ 1 <= Len(raw) + 1
            /\ Len(raw) - 1 + 1 = Len(raw) /\ \A k \in 1 .. Len(raw) : 1 + k - 1 = k
        BY <2>1
      <4> QED BY <2>1, <4>1, PartOf
    <3> HIDE DEF whole
    <3>2. whole = raw
      BY <2>1, <3>1, SeqEqual
    <3> QED BY <3>2 DEF whole
  <2>4. 0 \in 0 .. Len(raw)
    BY <2>1
  <2> QED BY <2>1, <2>2, <2>3, <2>4 DEF PInv, P!ProjectedHoweverCut
<1>2. PInv /\ [P!Next]_(P!vars) => PInv'
  <2> SUFFICES ASSUME PInv, [P!Next]_(P!vars) PROVE PInv'
    OBVIOUS
  <2>1. ASSUME NEW n \in DOMAIN raw, P!Push(n) PROVE PInv'
    <3>1. PICK e \in 0 .. Len(raw) : rest = SubSeq(raw, e + 1, Len(raw)) /\ Reached(raw, e, projector)
      BY <2>1 DEF PInv, P!Push
    <3>2. raw \in Seq(STRING) /\ raw' = raw /\ n \in 1 .. Len(raw) /\ n <= Len(rest) /\ stage = "pushing"
      BY <2>1 DEF PInv, P!Push
    <3>3. Len(rest) = Len(raw) - e
      <4>1. e + 1 \in 1 .. Len(raw) + 1 /\ Len(raw) \in 0 .. Len(raw) /\ e + 1 <= Len(raw) + 1
        BY <3>2
      <4> QED BY <3>1, <3>2, <4>1, PartOf
    <3>4. e + n \in e .. Len(raw)
      BY <3>2, <3>3
    <3>5. /\ SubSeq(rest, 1, n) = SubSeq(raw, e + 1, e + n)
          /\ SubSeq(rest, n + 1, Len(rest)) = SubSeq(raw, e + n + 1, Len(raw))
      <4>1. e + 1 \in 1 .. Len(raw) + 1 /\ Len(raw) \in 0 .. Len(raw) /\ e + 1 <= Len(raw) + 1
        BY <3>2
      <4>2. /\ 1 \in Nat /\ n \in Nat /\ 1 <= n + 1 /\ n <= Len(raw) - (e + 1) + 1
            /\ n + 1 \in Nat /\ Len(raw) - e \in Nat /\ 1 <= n + 1 /\ n + 1 <= Len(raw) - e + 1
            /\ Len(raw) - e <= Len(raw) - (e + 1) + 1
            /\ e + 1 + 1 - 1 = e + 1 /\ e + 1 + n - 1 = e + n /\ e + 1 + (n + 1) - 1 = e + n + 1
            /\ e + 1 + (Len(raw) - e) - 1 = Len(raw)
        BY <3>2, <3>3
      <4>3. SubSeq(SubSeq(raw, e + 1, Len(raw)), 1, n) = SubSeq(raw, e + 1 + 1 - 1, e + 1 + n - 1)
        <5>1. \A i, j \in Nat : 1 <= i /\ i <= j + 1 /\ j <= Len(raw) - (e + 1) + 1 =>
                SubSeq(SubSeq(raw, e + 1, Len(raw)), i, j) = SubSeq(raw, e + 1 + i - 1, e + 1 + j - 1)
          BY <3>2, <4>1, PartOfPart
        <5>2. PICK one \in Nat : one = 1
          OBVIOUS
        <5>3. SubSeq(SubSeq(raw, e + 1, Len(raw)), one, n) = SubSeq(raw, e + 1 + one - 1, e + 1 + n - 1)
          <6>1. 1 <= one /\ one <= n + 1 /\ n \in Nat /\ n <= Len(raw) - (e + 1) + 1
            BY <4>2, <5>2
          <6>2. \A j \in Nat : 1 <= one /\ one <= j + 1 /\ j <= Len(raw) - (e + 1) + 1 =>
                  SubSeq(SubSeq(raw, e + 1, Len(raw)), one, j) = SubSeq(raw, e + 1 + one - 1, e + 1 + j - 1)
            BY <5>1
          <6> QED BY <6>1, <6>2
        <5> QED BY <5>2, <5>3
      <4>4. SubSeq(SubSeq(raw, e + 1, Len(raw)), n + 1, Len(raw) - e) =
              SubSeq(raw, e + 1 + (n + 1) - 1, e + 1 + (Len(raw) - e) - 1)
        BY <3>2, <4>1, <4>2, PartOfPart
      <4> QED BY <3>1, <3>3, <4>2, <4>3, <4>4
    <3>6. CASE stage' = "panicked"
      BY <3>2, <3>6 DEF PInv, P!ProjectedHoweverCut
    <3>7. CASE stage' # "panicked"
      <4>1. /\ projector' = P!Pushed(projector, SubSeq(rest, 1, n))
            /\ rest' = SubSeq(rest, n + 1, Len(rest)) /\ stage' = "pushing"
        BY <2>1, <3>2, <3>7 DEF P!Push
      <4>2. Reached(raw, e + n, projector')
        BY <3>1, <3>2, <3>4, <3>5, <4>1, PushReaches
      <4>3. e + n \in 0 .. Len(raw)
        BY <3>2, <3>4
      <4> QED BY <3>2, <3>5, <4>1, <4>2, <4>3 DEF PInv, P!ProjectedHoweverCut
    <3> QED BY <3>6, <3>7
  <2>2. CASE P!Finish
    <3>1. PICK e \in 0 .. Len(raw) : rest = SubSeq(raw, e + 1, Len(raw)) /\ Reached(raw, e, projector)
      BY <2>2 DEF PInv, P!Finish
    <3>2. /\ raw \in Seq(STRING) /\ raw' = raw /\ rest = <<>> /\ stage' = "finished"
          /\ projector' = P!Finished(projector)
      BY <2>2 DEF PInv, P!Finish
    <3>3. e = Len(raw)
      <4>1. e + 1 \in 1 .. Len(raw) + 1 /\ Len(raw) \in 0 .. Len(raw) /\ e + 1 <= Len(raw) + 1
        BY <3>2
      <4>2. Len(rest) = Len(raw) - (e + 1) + 1
        BY <3>1, <3>2, <4>1, PartOf
      <4>3. Len(rest) = 0
        BY <3>2
      <4> QED BY <4>2, <4>3, <3>2
    <3>4. projector = P!Pushed(P!Fresh, raw)
      BY <3>1, <3>2, <3>3, WholeReached
    <3> QED BY <3>2, <3>4 DEF PInv, P!ProjectedHoweverCut
  <2>3. CASE UNCHANGED P!vars
    BY <2>3 DEF PInv, P!vars, P!ProjectedHoweverCut
  <2> QED BY <2>1, <2>2, <2>3 DEF P!Next
<1>3. PInv => ProjectedHoweverCut
  BY DEF PInv, ProjectedHoweverCut
<1> QED BY <1>1, <1>2, <1>3, PTL DEF P!Spec

-----------------------------------------------------------------------------
(* A human at a session: what was typed, key by key.                       *)

\* A recursive function over the numbers up to n exists.
Stepping(next, n, set) == next \in [(1 .. n) \X set -> set]
Walking(f, n, set, first, next) ==
  f \in [0 .. n -> set] /\ f[0] = first /\ \A k \in 1 .. n : f[k] = next[<<k, f[k - 1]>>]

LEMMA WalkExists ==
  ASSUME NEW n \in Nat, NEW set, NEW first \in set, NEW next, Stepping(next, n, set)
  PROVE  \E f : Walking(f, n, set, first, next)
<1> DEFINE good == {m \in 0 .. n : \E f \in [0 .. m -> set] :
                      f[0] = first /\ \A k \in 1 .. m : f[k] = next[<<k, f[k - 1]>>]}
<1>1. 0 \in good
  <2> DEFINE f == [k \in 0 .. 0 |-> first]
  <2>1. f \in [0 .. 0 -> set] /\ f[0] = first /\ \A k \in 1 .. 0 : f[k] = next[<<k, f[k - 1]>>]
    OBVIOUS
  <2>2. 0 \in 0 .. n
    OBVIOUS
  <2> HIDE DEF f
  <2> QED BY <2>1, <2>2
<1>2. ASSUME NEW m \in 1 .. n, m - 1 \in good PROVE m \in good
  <2>1. PICK g \in [0 .. m - 1 -> set] : g[0] = first /\ \A k \in 1 .. m - 1 : g[k] = next[<<k, g[k - 1]>>]
    BY <1>2
  <2> DEFINE f == [k \in 0 .. m |-> IF k < m THEN g[k] ELSE next[<<m, g[m - 1]>>]]
  <2>2. next[<<m, g[m - 1]>>] \in set
    <3>1. g[m - 1] \in set /\ m \in 1 .. n
      BY <2>1
    <3> QED BY <3>1 DEF Stepping
  <2>3. f \in [0 .. m -> set]
    BY <2>2
  <2>4. f[0] = first /\ \A k \in 1 .. m : f[k] = next[<<k, f[k - 1]>>]
    <3>1. f[0] = first
      BY <2>1
    <3>2. ASSUME NEW k \in 1 .. m - 1 PROVE f[k] = next[<<k, f[k - 1]>>]
      <4>1. f[k] = g[k] /\ f[k - 1] = g[k - 1]
        OBVIOUS
      <4> HIDE DEF f
      <4> QED BY <2>1, <4>1
    <3>3. f[m] = next[<<m, f[m - 1]>>]
      <4>1. f[m] = next[<<m, g[m - 1]>>] /\ f[m - 1] = g[m - 1]
        OBVIOUS
      <4> HIDE DEF f
      <4> QED BY <4>1
    <3>4. \A k \in 1 .. m : k = m \/ k \in 1 .. m - 1
      OBVIOUS
    <3> HIDE DEF f
    <3> QED BY <3>1, <3>2, <3>3, <3>4
  <2>5. m \in 0 .. n
    OBVIOUS
  <2> HIDE DEF f
  <2> QED BY <2>3, <2>4, <2>5
<1> HIDE DEF good
<1>3. \A m \in 0 .. n : m \in good
  BY <1>1, <1>2, UpTo
<1>4. n \in good
  BY <1>3
<1> QED BY <1>4 DEF good, Walking

LEMMA OneMore ==
  ASSUME NEW keys \in Seq(Keys), NEW key \in Keys
  PROVE  /\ Append(keys, key) \in Seq(Keys)
         /\ Len(Append(keys, key)) = Len(keys) + 1
         /\ \A j \in 1 .. Len(keys) : Append(keys, key)[j] = keys[j]
         /\ Append(keys, key)[Len(keys) + 1] = key
BY AppendProperties

\* Pastes.
PasteNext(keys, n, before) ==
  IF before = 0 THEN IF K!EndsWith(keys, n, PasteBegin) THEN n ELSE 0
  ELSE IF K!EndsWith(keys, n, PasteEnd) /\ n - Len(PasteEnd) >= before THEN 0 ELSE before

PasteChain(f, keys) ==
  f = [n \in 0 .. Len(keys) |-> IF n = 0 THEN 0 ELSE PasteNext(keys, n, f[n - 1])]

LEMMA PasteIs ==
  ASSUME NEW keys \in Seq(Keys)
  PROVE  /\ K!PasteOf(keys)[0] = 0
         /\ \A n \in 1 .. Len(keys) : K!PasteOf(keys)[n] = PasteNext(keys, n, K!PasteOf(keys)[n - 1])
         /\ \A n \in 0 .. Len(keys) : K!PasteOf(keys)[n] \in 0 .. n
<1> DEFINE l == Len(keys)
           next == [x \in (1 .. l) \X Nat |-> PasteNext(keys, x[1], x[2])]
<1>0. l \in Nat
  OBVIOUS
<1>1. next \in [(1 .. l) \X Nat -> Nat]
  BY DEF PasteNext
<1>2. \A n \in 1 .. l, b \in Nat : next[<<n, b>>] = PasteNext(keys, n, b)
  OBVIOUS
<1>2a. Stepping(next, l, Nat)
  BY <1>1 DEF Stepping
<1> HIDE DEF next
<1>2b. PICK f : Walking(f, l, Nat, 0, next)
  <2> HIDE DEF l
  <2>1. 0 \in Nat
    OBVIOUS
  <2> QED BY <1>0, <1>2a, <2>1, WalkExists
<1>3. f \in [0 .. l -> Nat] /\ f[0] = 0 /\ \A k \in 1 .. l : f[k] = next[<<k, f[k - 1]>>]
  BY <1>2b DEF Walking
<1>4. \A n \in 0 .. l : f[n] = IF n = 0 THEN 0 ELSE PasteNext(keys, n, f[n - 1])
  <2> SUFFICES ASSUME NEW n \in 0 .. l, n # 0 PROVE f[n] = PasteNext(keys, n, f[n - 1])
    BY <1>3
  <2>1. n \in 1 .. l /\ n - 1 \in 0 .. l
    BY <1>0
  <2>2. f[n - 1] \in Nat
    BY <1>3, <2>1
  <2> QED BY <1>2, <1>3, <2>1, <2>2
<1>5. PasteChain(f, keys)
  <2>1. f = [n \in 0 .. l |-> f[n]]
    BY <1>3
  <2> QED BY <1>4, <2>1, Zenon DEF PasteChain
<1>6. K!PasteOf(keys) = CHOOSE g : PasteChain(g, keys)
  BY Zenon DEF K!PasteOf, PasteChain, PasteNext
<1>7. PasteChain(K!PasteOf(keys), keys)
  BY <1>5, <1>6, Zenon
<1> DEFINE paste == K!PasteOf(keys)
<1>8. \A n \in 0 .. l : paste[n] = IF n = 0 THEN 0 ELSE PasteNext(keys, n, paste[n - 1])
  BY <1>7, Zenon DEF PasteChain
<1> HIDE DEF paste
<1>9. paste[0] = 0 /\ \A n \in 1 .. l : paste[n] = PasteNext(keys, n, paste[n - 1])
  BY <1>0, <1>8
<1> DEFINE good == {n \in 0 .. l : paste[n] \in 0 .. n}
<1>10. 0 \in good
  BY <1>0, <1>9
<1>11. ASSUME NEW n \in 1 .. l, n - 1 \in good PROVE n \in good
  BY <1>9, <1>11 DEF PasteNext
<1> HIDE DEF good
<1>12. \A n \in 0 .. l : n \in good
  BY <1>0, <1>10, <1>11, UpTo
<1>13. \A n \in 0 .. l : paste[n] \in 0 .. n
  BY <1>12 DEF good
<1> QED BY <1>9, <1>13 DEF paste

LEMMA FitsStays ==
  ASSUME NEW keys \in Seq(Keys), NEW key \in Keys, NEW n \in 0 .. Len(keys), NEW mark, NEW m \in Nat
  PROVE  K!Fits(Append(keys, key), n, mark, m) <=> K!Fits(keys, n, mark, m)
BY OneMore DEF K!Fits

LEMMA PasteStays ==
  ASSUME NEW keys \in Seq(Keys), NEW key \in Keys, K!TakeoverAssumption
  PROVE  \A n \in 0 .. Len(keys) : K!PasteOf(Append(keys, key))[n] = K!PasteOf(keys)[n]
<1> DEFINE more == Append(keys, key)
           new == K!PasteOf(more)
           old == K!PasteOf(keys)
           good == {n \in 0 .. Len(keys) : new[n] = old[n]}
<1>1. more \in Seq(Keys) /\ Len(more) = Len(keys) + 1 /\ Len(keys) \in Nat
  BY OneMore
<1>2. new[0] = 0 /\ \A n \in 1 .. Len(keys) : new[n] = PasteNext(more, n, new[n - 1])
  <2> HIDE DEF more
  <2> QED BY <1>1, PasteIs
<1>3. old[0] = 0 /\ \A n \in 1 .. Len(keys) : old[n] = PasteNext(keys, n, old[n - 1])
  BY PasteIs
<1>4. \A n \in 0 .. Len(keys) :
        /\ K!EndsWith(more, n, PasteBegin) <=> K!EndsWith(keys, n, PasteBegin)
        /\ K!EndsWith(more, n, PasteEnd) <=> K!EndsWith(keys, n, PasteEnd)
  <2>1. Len(PasteBegin) \in Nat /\ Len(PasteEnd) \in Nat
    BY DEF K!TakeoverAssumption
  <2> QED BY <2>1, FitsStays DEF K!EndsWith
<1> HIDE DEF new, old, more
<1>5. 0 \in good
  BY <1>1, <1>2, <1>3
<1>6. ASSUME NEW n \in 1 .. Len(keys), n - 1 \in good PROVE n \in good
  <2>1. new[n - 1] = old[n - 1] /\ n \in 0 .. Len(keys)
    BY <1>6
  <2>2. PasteNext(more, n, new[n - 1]) = PasteNext(keys, n, old[n - 1])
    BY <1>4, <2>1 DEF PasteNext
  <2> QED BY <1>2, <1>3, <2>1, <2>2
<1> HIDE DEF good
<1>7. \A n \in 0 .. Len(keys) : n \in good
  BY <1>1, <1>5, <1>6, UpTo
<1> QED BY <1>7 DEF good, new, old, more

\* Commands.
CommandNext(keys, n, before) == keys[n] = "prefix" /\ K!PasteOf(keys)[n - 1] = 0 /\ ~before

CommandChain(f, keys) ==
  f = [n \in 0 .. Len(keys) |-> IF n = 0 THEN FALSE ELSE CommandNext(keys, n, f[n - 1])]

LEMMA CommandIs ==
  ASSUME NEW keys \in Seq(Keys)
  PROVE  /\ K!IsCommand(keys)[0] = FALSE
         /\ \A n \in 1 .. Len(keys) : K!IsCommand(keys)[n] = CommandNext(keys, n, K!IsCommand(keys)[n - 1])
         /\ \A n \in 0 .. Len(keys) : K!IsCommand(keys)[n] \in BOOLEAN
<1> DEFINE l == Len(keys)
           next == [x \in (1 .. l) \X BOOLEAN |-> CommandNext(keys, x[1], x[2])]
<1>0. l \in Nat
  OBVIOUS
<1>1. next \in [(1 .. l) \X BOOLEAN -> BOOLEAN]
  BY DEF CommandNext
<1>2. \A n \in 1 .. l, b \in BOOLEAN : next[<<n, b>>] = CommandNext(keys, n, b)
  OBVIOUS
<1>2a. Stepping(next, l, BOOLEAN)
  BY <1>1 DEF Stepping
<1> HIDE DEF next
<1>2b. PICK f : Walking(f, l, BOOLEAN, FALSE, next)
  <2> HIDE DEF l
  <2>1. FALSE \in BOOLEAN
    OBVIOUS
  <2> QED BY <1>0, <1>2a, <2>1, WalkExists
<1>3. f \in [0 .. l -> BOOLEAN] /\ f[0] = FALSE /\ \A k \in 1 .. l : f[k] = next[<<k, f[k - 1]>>]
  BY <1>2b DEF Walking
<1>4. \A n \in 0 .. l : f[n] = IF n = 0 THEN FALSE ELSE CommandNext(keys, n, f[n - 1])
  <2> SUFFICES ASSUME NEW n \in 0 .. l, n # 0 PROVE f[n] = CommandNext(keys, n, f[n - 1])
    BY <1>3
  <2>1. n \in 1 .. l /\ n - 1 \in 0 .. l
    BY <1>0
  <2>2. f[n - 1] \in BOOLEAN
    BY <1>3, <2>1
  <2> QED BY <1>2, <1>3, <2>1, <2>2
<1>5. CommandChain(f, keys)
  <2>1. f = [n \in 0 .. l |-> f[n]]
    BY <1>3
  <2> QED BY <1>4, <2>1, Zenon DEF CommandChain
<1>6. K!IsCommand(keys) = CHOOSE g : CommandChain(g, keys)
  BY Zenon DEF K!IsCommand, CommandChain, CommandNext
<1>7. CommandChain(K!IsCommand(keys), keys)
  BY <1>5, <1>6, Zenon
<1> DEFINE is == K!IsCommand(keys)
<1>8. \A n \in 0 .. l : is[n] = IF n = 0 THEN FALSE ELSE CommandNext(keys, n, is[n - 1])
  BY <1>7, Zenon DEF CommandChain
<1> HIDE DEF is
<1>9. is[0] = FALSE /\ \A n \in 1 .. l : is[n] = CommandNext(keys, n, is[n - 1])
  <2>1. 0 \in 0 .. l /\ \A n \in 1 .. l : n \in 0 .. l /\ n # 0
    BY <1>0
  <2> HIDE DEF l
  <2> QED BY <1>8, <2>1, Zenon
<1>10. \A n \in 1 .. l : CommandNext(keys, n, is[n - 1]) \in BOOLEAN
  BY DEF CommandNext
<1>11. \A n \in 0 .. l : n = 0 \/ n \in 1 .. l
  BY <1>0
<1>12. \A n \in 0 .. l : is[n] \in BOOLEAN
  BY <1>9, <1>10, <1>11
<1> QED BY <1>9, <1>12 DEF is

LEMMA CommandStays ==
  ASSUME NEW keys \in Seq(Keys), NEW key \in Keys, K!TakeoverAssumption
  PROVE  \A n \in 0 .. Len(keys) : K!IsCommand(Append(keys, key))[n] = K!IsCommand(keys)[n]
<1> DEFINE more == Append(keys, key)
           new == K!IsCommand(more)
           old == K!IsCommand(keys)
           good == {n \in 0 .. Len(keys) : new[n] = old[n]}
<1>1. more \in Seq(Keys) /\ Len(more) = Len(keys) + 1 /\ Len(keys) \in Nat
  BY OneMore
<1>2. new[0] = FALSE /\ \A n \in 1 .. Len(keys) : new[n] = CommandNext(more, n, new[n - 1])
  <2> HIDE DEF more
  <2>1. new[0] = FALSE /\ \A n \in 1 .. Len(more) : new[n] = CommandNext(more, n, new[n - 1])
    BY <1>1, CommandIs, Zenon
  <2>2. \A n \in 1 .. Len(keys) : n \in 1 .. Len(more)
    BY <1>1
  <2> QED BY <2>1, <2>2, Zenon
<1>3. old[0] = FALSE /\ \A n \in 1 .. Len(keys) : old[n] = CommandNext(keys, n, old[n - 1])
  BY CommandIs
<1>4. \A n \in 1 .. Len(keys) : more[n] = keys[n] /\ K!PasteOf(more)[n - 1] = K!PasteOf(keys)[n - 1]
  BY OneMore, PasteStays
<1> HIDE DEF new, old, more
<1>5. 0 \in good
  <2>1. new[0] = old[0]
    BY <1>2, <1>3, Zenon
  <2>2. 0 \in 0 .. Len(keys)
    BY <1>1
  <2> QED BY <2>1, <2>2
<1>6. ASSUME NEW n \in 1 .. Len(keys), n - 1 \in good PROVE n \in good
  <2>1. new[n - 1] = old[n - 1] /\ n \in 0 .. Len(keys)
    BY <1>6
  <2>2. CommandNext(more, n, new[n - 1]) = CommandNext(keys, n, old[n - 1])
    BY <1>4, <2>1 DEF CommandNext
  <2> QED BY <1>2, <1>3, <2>1, <2>2
<1> HIDE DEF good
<1>7. \A n \in 0 .. Len(keys) : n \in good
  BY <1>1, <1>5, <1>6, UpTo
<1> QED BY <1>7 DEF good, new, old, more

\* What is for the session.
ForHuman(keys, n) ==
  K!IsCommand(keys)[n] \/ (K!IsCommand(keys)[n - 1] /\ keys[n] \in {"d", "?"})
KeptNext(keys, n, before) == IF ForHuman(keys, n) THEN before ELSE Append(before, keys[n])
KeptChain(f, keys) ==
  f = [n \in 0 .. Len(keys) |-> IF n = 0 THEN <<>> ELSE KeptNext(keys, n, f[n - 1])]

LEMMA KeptIs ==
  ASSUME NEW keys \in Seq(Keys)
  PROVE  \E f : /\ K!ForSession(keys) = f[Len(keys)]
                /\ f[0] = <<>>
                /\ \A n \in 1 .. Len(keys) : f[n] = KeptNext(keys, n, f[n - 1])
                /\ \A n \in 0 .. Len(keys) : f[n] \in Seq(Keys) /\ Len(f[n]) <= n
<1> DEFINE l == Len(keys)
           next == [x \in (1 .. l) \X Seq(Keys) |-> KeptNext(keys, x[1], x[2])]
<1>0. l \in Nat
  OBVIOUS
<1>1. next \in [(1 .. l) \X Seq(Keys) -> Seq(Keys)]
  <2>1. \A n \in 1 .. l, b \in Seq(Keys) : KeptNext(keys, n, b) \in Seq(Keys)
    BY DEF KeptNext
  <2> QED BY <2>1
<1>2. \A n \in 1 .. l, b \in Seq(Keys) : next[<<n, b>>] = KeptNext(keys, n, b)
  OBVIOUS
<1>2a. Stepping(next, l, Seq(Keys))
  BY <1>1 DEF Stepping
<1> HIDE DEF next
<1>2b. PICK f : Walking(f, l, Seq(Keys), <<>>, next)
  <2> HIDE DEF l
  <2>1. <<>> \in Seq(Keys)
    OBVIOUS
  <2> QED BY <1>0, <1>2a, <2>1, WalkExists
<1>3. f \in [0 .. l -> Seq(Keys)] /\ f[0] = <<>> /\ \A k \in 1 .. l : f[k] = next[<<k, f[k - 1]>>]
  BY <1>2b DEF Walking
<1>4. \A n \in 0 .. l : f[n] = IF n = 0 THEN <<>> ELSE KeptNext(keys, n, f[n - 1])
  <2> SUFFICES ASSUME NEW n \in 0 .. l, n # 0 PROVE f[n] = KeptNext(keys, n, f[n - 1])
    BY <1>3
  <2>1. n \in 1 .. l /\ n - 1 \in 0 .. l
    BY <1>0
  <2>2. f[n - 1] \in Seq(Keys)
    BY <1>3, <2>1
  <2> QED BY <1>2, <1>3, <2>1, <2>2
<1>5. KeptChain(f, keys)
  <2>1. f = [n \in 0 .. l |-> f[n]]
    BY <1>3
  <2> QED BY <1>4, <2>1, Zenon DEF KeptChain
<1>6. K!ForSession(keys) = (CHOOSE g : KeptChain(g, keys))[l]
  BY Zenon DEF K!ForSession, KeptChain, KeptNext, ForHuman
<1>7. PICK g : KeptChain(g, keys) /\ K!ForSession(keys) = g[l]
  BY <1>5, <1>6, Zenon
<1>8. \A n \in 0 .. l : g[n] = IF n = 0 THEN <<>> ELSE KeptNext(keys, n, g[n - 1])
  BY <1>7, Zenon DEF KeptChain
<1>9. g[0] = <<>> /\ \A n \in 1 .. l : g[n] = KeptNext(keys, n, g[n - 1])
  BY <1>0, <1>8
<1> DEFINE good == {n \in 0 .. l : g[n] \in Seq(Keys) /\ Len(g[n]) <= n}
<1>10. 0 \in good
  <2>1. g[0] \in Seq(Keys) /\ Len(g[0]) = 0
    BY <1>9
  <2> QED BY <1>0, <2>1
<1>11. ASSUME NEW n \in 1 .. l, n - 1 \in good PROVE n \in good
  <2>1. g[n - 1] \in Seq(Keys) /\ Len(g[n - 1]) <= n - 1
    BY <1>11
  <2>2. g[n] \in {g[n - 1], Append(g[n - 1], keys[n])}
    BY <1>9 DEF KeptNext
  <2>3. keys[n] \in Keys /\ n \in 0 .. l
    OBVIOUS
  <2>4. Append(g[n - 1], keys[n]) \in Seq(Keys) /\ Len(Append(g[n - 1], keys[n])) = Len(g[n - 1]) + 1
    BY <2>1, <2>3, AppendProperties
  <2>5. Len(g[n - 1]) \in Nat
    BY <2>1
  <2>6. g[n] \in Seq(Keys) /\ Len(g[n]) \in {Len(g[n - 1]), Len(g[n - 1]) + 1}
    BY <2>1, <2>2, <2>4
  <2>7. Len(g[n]) <= n
    BY <2>1, <2>5, <2>6
  <2> QED BY <2>3, <2>6, <2>7
<1> HIDE DEF good
<1>12. \A n \in 0 .. l : n \in good
  BY <1>0, <1>10, <1>11, UpTo
<1>13. \A n \in 0 .. l : g[n] \in Seq(Keys) /\ Len(g[n]) <= n
  BY <1>12 DEF good
<1> QED BY <1>7, <1>9, <1>13

\* Another key is for the session, or it is not.
LEMMA SessionOneMore ==
  ASSUME NEW keys \in Seq(Keys), NEW key \in Keys, K!TakeoverAssumption
  PROVE  /\ K!ForSession(keys) \in Seq(Keys) /\ Len(K!ForSession(keys)) <= Len(keys)
         /\ K!ForSession(Append(keys, key)) =
              IF ForHuman(Append(keys, key), Len(keys) + 1) THEN K!ForSession(keys)
              ELSE Append(K!ForSession(keys), key)
<1> DEFINE more == Append(keys, key)
           l == Len(keys)
<1>1. more \in Seq(Keys) /\ Len(more) = l + 1 /\ l \in Nat /\ more[l + 1] = key
  BY OneMore
<1>2. PICK f : /\ K!ForSession(keys) = f[l] /\ f[0] = <<>>
               /\ \A n \in 1 .. l : f[n] = KeptNext(keys, n, f[n - 1])
               /\ \A n \in 0 .. l : f[n] \in Seq(Keys) /\ Len(f[n]) <= n
  BY KeptIs
<1>3. PICK g : /\ K!ForSession(more) = g[l + 1] /\ g[0] = <<>>
               /\ \A n \in 1 .. l + 1 : g[n] = KeptNext(more, n, g[n - 1])
  <2> HIDE DEF more
  <2>1. \E g : /\ K!ForSession(more) = g[Len(more)] /\ g[0] = <<>>
               /\ \A n \in 1 .. Len(more) : g[n] = KeptNext(more, n, g[n - 1])
    BY <1>1, KeptIs
  <2> QED BY <1>1, <2>1
<1>4. \A n \in 1 .. l : ForHuman(more, n) <=> ForHuman(keys, n)
  BY OneMore, CommandStays DEF ForHuman
<1>5. \A n \in 1 .. l : more[n] = keys[n]
  BY OneMore
<1> HIDE DEF more
<1> DEFINE good == {n \in 0 .. l : g[n] = f[n]}
<1>6. 0 \in good
  BY <1>1, <1>2, <1>3
<1>7. ASSUME NEW n \in 1 .. l, n - 1 \in good PROVE n \in good
  <2>1. g[n - 1] = f[n - 1] /\ n \in 1 .. l + 1 /\ n \in 0 .. l
    BY <1>1, <1>7
  <2>2. KeptNext(more, n, g[n - 1]) = KeptNext(keys, n, f[n - 1])
    BY <1>4, <1>5, <2>1 DEF KeptNext
  <2> QED BY <1>2, <1>3, <2>1, <2>2
<1> HIDE DEF good
<1>8. \A n \in 0 .. l : n \in good
  BY <1>1, <1>6, <1>7, UpTo
<1>9. g[l] = f[l]
  BY <1>1, <1>8 DEF good
<1>10. g[l + 1] = KeptNext(more, l + 1, g[l])
  <2>1. l + 1 \in 1 .. l + 1 /\ l + 1 - 1 = l
    BY <1>1
  <2> QED BY <1>3, <2>1
<1>11. f[l] \in Seq(Keys) /\ Len(f[l]) <= l
  BY <1>1, <1>2
<1> QED BY <1>1, <1>2, <1>3, <1>9, <1>10, <1>11 DEF KeptNext, more

LEMMA FitsMeans ==
  ASSUME NEW s, NEW n, NEW mark, NEW m
  PROVE  K!Fits(s, n, mark, m) <=> (n >= m /\ \A j \in 1 .. m : s[n - m + j] = mark[j])
BY DEF K!Fits

LEMMA FitsNext ==
  ASSUME NEW s, NEW n, NEW mark, NEW m, K!Fits(s, n, mark, m)
  PROVE  \A j \in 1 .. m : \A place : place = n - m + j => s[place] = mark[j]
BY DEF K!Fits

Told(keys, n, from, mark, m, current) ==
  (K!Fits(keys, n, mark, m) /\ n - m >= from) <=> current = m

\* A mark is found as the parser finds it, since its first byte comes once: the
\* keys after place from that fit the mark so far are told by one number.
Marked(keys, from, mark, current) ==
  \A m \in 1 .. Len(mark) - 1 :
    (K!Fits(keys, Len(keys), mark, m) /\ Len(keys) - m >= from) <=> current = m

LEMMA MarkAdvances ==
  ASSUME NEW keys \in Seq(Keys), NEW key \in Keys, NEW from \in 0 .. Len(keys),
         NEW mark \in Seq(Keys), mark # <<>>, \A j \in 2 .. Len(mark) : mark[j] # mark[1],
         NEW current \in 0 .. Len(mark) - 1, Marked(keys, from, mark, current)
  PROVE  LET more == Append(keys, key)
             next == K!Advance(current, key, mark) IN
         /\ next \in 0 .. Len(mark)
         /\ \A m \in 1 .. Len(mark) :
              (K!Fits(more, Len(more), mark, m) /\ Len(more) - m >= from) <=> next = m
<1> DEFINE more == Append(keys, key)
           next == K!Advance(current, key, mark)
           n == Len(keys)
           l == Len(mark)
<1>1. n \in Nat /\ l \in Nat /\ l >= 1 /\ Len(more) = n + 1
  <2>1. Len(mark) # 0
    BY EmptySeq
  <2> QED BY <2>1, OneMore
<1>2. next \in 0 .. l /\ (key = mark[current + 1] => next = current + 1)
      /\ (key # mark[current + 1] /\ key = mark[1] => next = 1)
      /\ (key # mark[current + 1] /\ key # mark[1] => next = 0)
  BY <1>1 DEF K!Advance
<1>3. ASSUME NEW m \in 2 .. l
      PROVE  (K!Fits(more, n + 1, mark, m) /\ (n + 1) - m >= from) <=> (current = m - 1 /\ key = mark[m])
  <2>1. m - 1 \in 1 .. l - 1 /\ (n + 1) - m = n - (m - 1) /\ m \in Nat
    BY <1>1
  <2>2. (K!Fits(keys, n, mark, m - 1) /\ n - (m - 1) >= from) <=> current = m - 1
    BY <2>1 DEF Marked
  <2>3. K!Fits(more, n + 1, mark, m) <=> (K!Fits(keys, n, mark, m - 1) /\ key = mark[m])
    <3>1. PICK k \in Nat : k = n + 1
      BY <1>1
    <3>2. ASSUME n >= m - 1
          PROVE  (\A j \in 1 .. m : more[k - m + j] = mark[j]) <=>
                 ((\A j \in 1 .. m - 1 : keys[n - (m - 1) + j] = mark[j]) /\ key = mark[m])
      <4>1. \A j \in 1 .. m - 1 : more[k - m + j] = keys[n - (m - 1) + j]
        <5> TAKE j \in 1 .. m - 1
        <5>1. k - m + j = n - (m - 1) + j /\ n - (m - 1) + j \in 1 .. n
          BY <1>1, <2>1, <3>1, <3>2
        <5> QED BY <5>1, OneMore
      <4>2. more[k - m + m] = key
        <5>1. k - m + m = n + 1
          BY <1>1, <2>1, <3>1
        <5> QED BY <5>1, OneMore
      <4>3. \A j \in 1 .. m : j \in 1 .. m - 1 \/ j = m
        BY <2>1
      <4>4. m \in 1 .. m /\ \A j \in 1 .. m - 1 : j \in 1 .. m
        BY <2>1
      <4> HIDE DEF more, n
      <4> QED BY <4>1, <4>2, <4>3, <4>4
    <3>3. K!Fits(more, k, mark, m) <=> (k >= m /\ \A j \in 1 .. m : more[k - m + j] = mark[j])
      <4> HIDE DEF more
      <4> QED BY <2>1, <3>1, FitsMeans
    <3>4. K!Fits(keys, n, mark, m - 1) <=>
            (n >= m - 1 /\ \A j \in 1 .. m - 1 : keys[n - (m - 1) + j] = mark[j])
      BY <1>1, <2>1, FitsMeans
    <3>5. k >= m <=> n >= m - 1
      BY <1>1, <2>1, <3>1
    <3>6. CASE n >= m - 1
      <4> HIDE DEF more, n
      <4> QED BY <3>1, <3>2, <3>3, <3>4, <3>5, <3>6, Zenon
    <3>7. CASE ~(n >= m - 1)
      BY <3>1, <3>3, <3>4, <3>5, <3>7, Zenon
    <3> QED BY <3>6, <3>7
  <2> QED BY <2>1, <2>2, <2>3
<1>4. (K!Fits(more, n + 1, mark, 1) /\ (n + 1) - 1 >= from) <=> key = mark[1]
  <2>1. n + 1 >= 1 /\ (n + 1) - 1 >= from /\ (n + 1) - 1 + 1 = n + 1
    BY <1>1
  <2>2. more[n + 1] = key
    BY OneMore
  <2>3. K!Fits(more, n + 1, mark, 1) <=> more[(n + 1) - 1 + 1] = mark[1]
    BY <2>1 DEF K!Fits
  <2> QED BY <2>1, <2>2, <2>3
<1> HIDE DEF more, next, n, l
<1>5. ASSUME NEW m \in 1 .. l
      PROVE  (K!Fits(more, n + 1, mark, m) /\ (n + 1) - m >= from) <=> next = m
  <2>1. current \in 0 .. l - 1 /\ \A j \in 2 .. l : mark[j] # mark[1]
    BY DEF l
  <2>2. CASE m = 1
    <3>1. next = 1 <=> key = mark[1]
      <4>1. CASE current = 0
        BY <1>2, <4>1
      <4>2. CASE current # 0
        <5>1. current + 1 \in 2 .. l /\ current + 1 # 1
          BY <1>1, <2>1, <4>2
        <5>2. mark[current + 1] # mark[1]
          BY <2>1, <5>1
        <5> QED BY <1>2, <5>1, <5>2
      <4> QED BY <4>1, <4>2
    <3> QED BY <1>4, <2>2, <3>1
  <2>3. CASE m # 1
    <3>1. m \in 2 .. l /\ (current = m - 1 <=> current + 1 = m)
      BY <1>1, <2>1, <2>3
    <3>2. next = m <=> (current + 1 = m /\ key = mark[m])
      BY <1>1, <1>2, <2>1, <3>1
    <3> QED BY <1>3, <3>1, <3>2
  <2> QED BY <2>2, <2>3
<1> QED BY <1>1, <1>2, <1>5 DEF more, next, l, n

\* What the parser knows of what was typed.
ParserOf(p, keys) ==
  /\ p = [pending |-> p.pending, inPaste |-> p.inPaste, begin |-> p.begin, end |-> p.end]
  /\ p.pending \in BOOLEAN /\ p.inPaste \in BOOLEAN
  /\ p.pending <=> K!IsCommand(keys)[Len(keys)]
  /\ p.inPaste <=> K!PasteOf(keys)[Len(keys)] # 0
  /\ p.begin \in 0 .. Len(PasteBegin) - 1 /\ p.end \in 0 .. Len(PasteEnd) - 1
  /\ ~p.inPaste => p.end = 0 /\ Marked(keys, 0, PasteBegin, p.begin)
  /\ p.inPaste => p.begin = 0 /\ ~p.pending /\ Marked(keys, K!PasteOf(keys)[Len(keys)], PasteEnd, p.end)

LEMMA ParserStarts ==
  ASSUME K!TakeoverAssumption
  PROVE  ParserOf(K!NotStarted, <<>>) /\ K!ForSession(<<>>) = <<>>
<1>1. <<>> \in Seq(Keys) /\ Len(<<>>) = 0
  OBVIOUS
<1>2. K!IsCommand(<<>>)[0] = FALSE /\ K!PasteOf(<<>>)[0] = 0
  BY <1>1, CommandIs, PasteIs, Zenon
<1>3. K!ForSession(<<>>) = <<>>
  BY <1>1, KeptIs
<1>4. Len(PasteBegin) \in Nat /\ Len(PasteBegin) >= 1 /\ Len(PasteEnd) = Len(PasteBegin)
  <2>1. PasteBegin \in Seq(Keys) /\ PasteBegin # <<>> /\ Len(PasteEnd) = Len(PasteBegin)
    BY DEF K!TakeoverAssumption
  <2> QED BY <2>1, EmptySeq
<1>5. Marked(<<>>, 0, PasteBegin, 0)
  BY <1>1, <1>4 DEF Marked, K!Fits
<1> DEFINE p == [pending |-> FALSE, inPaste |-> FALSE, begin |-> 0, end |-> 0]
<1>6. ParserOf(p, <<>>)
  <2>1. /\ p = [pending |-> p.pending, inPaste |-> p.inPaste, begin |-> p.begin, end |-> p.end]
        /\ p.pending = FALSE /\ p.inPaste = FALSE /\ p.begin = 0 /\ p.end = 0
    OBVIOUS
  <2>2. 0 \in 0 .. Len(PasteBegin) - 1 /\ 0 \in 0 .. Len(PasteEnd) - 1
    BY <1>4
  <2> HIDE DEF p
  <2>3. ~K!IsCommand(<<>>)[Len(<<>>)] /\ K!PasteOf(<<>>)[Len(<<>>)] = 0
    BY <1>1, <1>2, Zenon
  <2> QED BY <1>5, <2>1, <2>2, <2>3, Zenon DEF ParserOf
<1>7. K!NotStarted = p
  BY DEF K!NotStarted
<1> QED BY <1>3, <1>6, <1>7

\* A prefix is a command, unless it is pasted or follows one.
LEMMA CommandMeans ==
  ASSUME NEW keys \in Seq(Keys), NEW n \in 1 .. Len(keys)
  PROVE  K!IsCommand(keys)[n] <=>
           keys[n] = "prefix" /\ K!PasteOf(keys)[n - 1] = 0 /\ ~K!IsCommand(keys)[n - 1]
<1> DEFINE x == K!IsCommand(keys)[n]
           y == CommandNext(keys, n, K!IsCommand(keys)[n - 1])
<1>1. x = y
  BY CommandIs, Zenon
<1>2. y <=> keys[n] = "prefix" /\ K!PasteOf(keys)[n - 1] = 0 /\ ~K!IsCommand(keys)[n - 1]
  BY Zenon DEF CommandNext
<1> HIDE DEF x, y
<1>3. x <=> y
  BY <1>1
<1> QED BY <1>2, <1>3 DEF x

ParserWith(pending, inPaste, begin, end) ==
  [pending |-> pending, inPaste |-> inPaste, begin |-> begin, end |-> end]
Pending(p, pending) == [p EXCEPT !.pending = pending]

Sets(a, b, c, d) ==
  /\ Pending(ParserWith(a, b, c, d), FALSE) = ParserWith(FALSE, b, c, d)
  /\ Pending(ParserWith(a, b, c, d), TRUE) = ParserWith(TRUE, b, c, d)

LEMMA PendingSet == ASSUME NEW a, NEW b, NEW c, NEW d PROVE Sets(a, b, c, d)
<1>1. ASSUME NEW e PROVE Pending(ParserWith(a, b, c, d), e) = ParserWith(e, b, c, d)
  BY DEF Pending, ParserWith
<1>2. PICK no, yes : no = FALSE /\ yes = TRUE
  BY Zenon
<1>3. /\ Pending(ParserWith(a, b, c, d), no) = ParserWith(no, b, c, d)
      /\ Pending(ParserWith(a, b, c, d), yes) = ParserWith(yes, b, c, d)
  BY <1>1
<1> QED BY <1>2, <1>3, Zenon DEF Sets

\* The parser follows, and passes on what is for the session.
Followed(fed, p, keys, key) ==
  /\ ParserOf(fed.parser, Append(keys, key))
  /\ fed.forwarded = IF ForHuman(Append(keys, key), Len(keys) + 1) THEN <<>> ELSE <<key>>

LEMMA FollowedBy ==
  ASSUME NEW keys, NEW key, NEW p, NEW q, NEW action, NEW forwarded,
         K!Feed(p, key) = K!Fed(q, action, forwarded), ParserOf(q, Append(keys, key)),
         forwarded = IF ForHuman(Append(keys, key), Len(keys) + 1) THEN <<>> ELSE <<key>>
  PROVE  /\ Followed(K!Feed(p, key), p, keys, key)
         /\ K!Feed(p, key).action = action /\ K!Feed(p, key).forwarded = forwarded
<1> DEFINE fed == K!Feed(p, key)
<1>1. fed.parser = q /\ fed.action = action /\ fed.forwarded = forwarded
  BY DEF K!Fed
<1> HIDE DEF fed
<1> QED BY <1>1 DEF Followed, fed

LEMMA ParserFollows ==
  ASSUME NEW keys \in Seq(Keys), NEW key \in Keys, NEW p, ParserOf(p, keys), K!TakeoverAssumption
  PROVE  /\ Followed(K!Feed(p, key), p, keys, key)
         /\ K!Feed(p, key).action = "detach" => K!Feed(p, key).forwarded = <<>>
<1> DEFINE more == Append(keys, key)
           n == Len(keys)
           paste == K!PasteOf(keys)[n]
           is == K!IsCommand(keys)[n]
           end == K!Advance(p.end, key, PasteEnd)
           begin == K!Advance(p.begin, key, PasteBegin)
           l == Len(PasteBegin)
           a == p.pending
<1>1. /\ p = [pending |-> a, inPaste |-> p.inPaste, begin |-> p.begin, end |-> p.end]
      /\ a \in BOOLEAN /\ p.inPaste \in BOOLEAN
      /\ (a <=> is) /\ (p.inPaste <=> paste # 0)
      /\ p.begin \in 0 .. l - 1 /\ p.end \in 0 .. l - 1
      /\ (~p.inPaste => p.end = 0 /\ Marked(keys, 0, PasteBegin, p.begin))
      /\ (p.inPaste => p.begin = 0 /\ ~a /\ Marked(keys, paste, PasteEnd, p.end))
  <2>1. Len(PasteEnd) = l
    BY DEF K!TakeoverAssumption
  <2> QED BY <2>1, Zenon DEF ParserOf
<1>2. /\ n \in Nat /\ more \in Seq(Keys) /\ Len(more) = n + 1 /\ more[n + 1] = key
      /\ \A j \in 1 .. n : more[j] = keys[j]
  BY OneMore
<1>3. /\ PasteBegin \in Seq(Keys) /\ PasteBegin # <<>> /\ Len(PasteEnd) = l
      /\ PasteEnd \in Seq(Keys) /\ PasteEnd # <<>> /\ l \in Nat /\ l >= 1
      /\ (\A j \in 2 .. l : PasteBegin[j] # PasteBegin[1])
      /\ (\A j \in 2 .. l : PasteEnd[j] # PasteEnd[1])
      /\ (\A j \in 1 .. l : PasteBegin[j] # "prefix" /\ PasteEnd[j] # "prefix")
      /\ PasteBegin[1] = PasteEnd[1]
  <2>1. /\ PasteBegin \in Seq(Keys \ {"prefix"}) /\ PasteEnd \in Seq(Keys \ {"prefix"})
        /\ PasteBegin # <<>> /\ Len(PasteEnd) = l /\ PasteBegin[1] = PasteEnd[1]
        /\ (\A j \in 2 .. l : PasteBegin[j] # PasteBegin[1])
        /\ (\A j \in 2 .. l : PasteEnd[j] # PasteEnd[1])
    BY DEF K!TakeoverAssumption
  <2>2. l \in Nat /\ l # 0
    BY <2>1, EmptySeq
  <2> QED BY <2>1, <2>2
<1>3a. Len(PasteBegin) = l
  OBVIOUS
<1>4. K!PasteOf(more)[n] = paste /\ K!IsCommand(more)[n] = is
  BY <1>2, PasteStays, CommandStays
<1>5. paste \in 0 .. n
  BY <1>2, PasteIs
<1>6. K!PasteOf(more)[n + 1] = PasteNext(more, n + 1, paste)
  <2>1. n + 1 \in 1 .. Len(more) /\ (n + 1) - 1 = n
    BY <1>2
  <2>2. \A k \in 1 .. Len(more) : K!PasteOf(more)[k] = PasteNext(more, k, K!PasteOf(more)[k - 1])
    <3>1. more \in Seq(Keys)
      BY <1>2
    <3> HIDE DEF more
    <3> QED BY <3>1, PasteIs
  <2>3. K!PasteOf(more)[n + 1] = PasteNext(more, n + 1, K!PasteOf(more)[(n + 1) - 1])
    BY <2>1, <2>2
  <2> QED BY <1>4, <2>1, <2>3
<1>7. K!IsCommand(more)[n + 1] <=> key = "prefix" /\ paste = 0 /\ ~is
  <2>1. n + 1 \in 1 .. Len(more) /\ (n + 1) - 1 = n
    BY <1>2
  <2>3. K!IsCommand(more)[n + 1] <=> more[n + 1] = "prefix" /\ K!PasteOf(more)[(n + 1) - 1] = 0 /\ ~K!IsCommand(more)[(n + 1) - 1]
    <3>1. more \in Seq(Keys)
      BY <1>2
    <3> HIDE DEF more
    <3> QED BY <2>1, <3>1, CommandMeans
  <2> QED BY <1>2, <1>4, <2>1, <2>3
<1>8. ForHuman(more, n + 1) <=> (key = "prefix" /\ paste = 0 /\ ~is) \/ (is /\ key \in {"d", "?"})
  <2>1. (n + 1) - 1 = n
    BY <1>2
  <2> QED BY <1>2, <1>4, <1>7, <2>1 DEF ForHuman
<1> DEFINE new == K!PasteOf(more)[Len(more)]
           after == K!IsCommand(more)[Len(more)]
           \* what there is to show of the parser that follows
           fits(q) == /\ q.pending \in BOOLEAN /\ q.inPaste \in BOOLEAN
                      /\ q.pending <=> after
                      /\ q.inPaste <=> new # 0
                      /\ q.begin \in 0 .. Len(PasteBegin) - 1 /\ q.end \in 0 .. Len(PasteEnd) - 1
                      /\ ~q.inPaste => q.end = 0 /\ Marked(more, 0, PasteBegin, q.begin)
                      /\ q.inPaste => q.begin = 0 /\ ~q.pending /\ Marked(more, new, PasteEnd, q.end)
           whole(q) == q = [pending |-> q.pending, inPaste |-> q.inPaste, begin |-> q.begin, end |-> q.end]
<1>9. ASSUME NEW q, whole(q), fits(q) PROVE ParserOf(q, more)
  BY <1>9, Zenon DEF ParserOf
<1>9a. new = PasteNext(more, n + 1, paste) /\ (after <=> key = "prefix" /\ paste = 0 /\ ~is)
  BY <1>2, <1>6, <1>7
<1>10. CASE p.inPaste
  <2>1. paste # 0 /\ ~is /\ ~a /\ p.begin = 0 /\ paste \in 0 .. n
    BY <1>1, <1>5, <1>10
  <2>2. end \in 0 .. l /\ \A m \in 1 .. l : (K!Fits(more, n + 1, PasteEnd, m) /\ (n + 1) - m >= paste) <=> end = m
    <3>1. p.end \in 0 .. Len(PasteEnd) - 1 /\ Marked(keys, paste, PasteEnd, p.end) /\ paste \in 0 .. Len(keys)
      BY <1>1, <1>3, <1>10, <2>1
    <3>2. \A j \in 2 .. Len(PasteEnd) : PasteEnd[j] # PasteEnd[1]
      BY <1>3
    <3> HIDE DEF paste
    <3>3. /\ end \in 0 .. Len(PasteEnd)
          /\ \A m \in 1 .. Len(PasteEnd) :
               (K!Fits(more, Len(more), PasteEnd, m) /\ Len(more) - m >= paste) <=> end = m
      BY <1>3, <3>1, <3>2, MarkAdvances
    <3>4. Len(PasteEnd) = l /\ Len(more) = n + 1
      BY <1>2, <1>3
    <3> HIDE DEF end, more, n, l
    <3>4a. Len(PasteEnd) = l
      BY <3>4
    <3>5. ASSUME NEW m \in 1 .. l
          PROVE  (K!Fits(more, n + 1, PasteEnd, m) /\ (n + 1) - m >= paste) <=> end = m
      <4>1. m \in 1 .. Len(PasteEnd)
        BY <3>4a
      <4>2. Told(more, Len(more), paste, PasteEnd, m, end)
        BY <3>3, <4>1 DEF Told
      <4>3. Told(more, n + 1, paste, PasteEnd, m, end)
        BY <3>4, <4>2, Zenon
      <4> QED BY <4>3, Zenon DEF Told
    <3> QED BY <3>3, <3>4a, <3>5
  <2>3. new = IF end = l THEN 0 ELSE paste
    <3>1. (K!EndsWith(more, n + 1, PasteEnd) /\ (n + 1) - Len(PasteEnd) >= paste) <=> end = l
      BY <1>3, <2>2 DEF K!EndsWith
    <3> QED BY <1>9a, <2>1, <3>1 DEF PasteNext
  <2>4. ~after /\ ~ForHuman(more, n + 1)
    BY <1>8, <1>9a, <2>1
  <2> DEFINE q == [pending |-> a, inPaste |-> end # l, begin |-> 0, end |-> IF end = l THEN 0 ELSE end]
  <2>5. K!Feed(p, key) = [parser |-> q, action |-> "none", forwarded |-> <<key>>]
    <3> DEFINE x == IF end = Len(PasteEnd) THEN [p EXCEPT !.inPaste = FALSE, !.end = 0] ELSE [p EXCEPT !.end = end]
    <3>1. K!Feed(p, key) = [parser |-> x, action |-> "none", forwarded |-> <<key>>]
      BY <1>10, Zenon DEF K!Feed, K!Fed
    <3>2. PICK b, c, d, e : p = [pending |-> b, inPaste |-> c, begin |-> d, end |-> e]
      BY <1>1
    <3>3. b = a /\ c = TRUE /\ d = 0
      BY <3>2, <1>10, <1>1, <2>1
    <3>4. x = q
      <4> HIDE DEF end, l, a
      <4>1. p = [pending |-> a, inPaste |-> TRUE, begin |-> 0, end |-> e]
        BY <3>2, <3>3
      <4>2. CASE end = l
        BY <1>3, <4>1, <4>2
      <4>3. CASE end # l
        BY <1>3, <4>1, <4>3
      <4> QED BY <4>2, <4>3
    <3> QED BY <3>1, <3>4
  <2>6. ParserOf(q, more)
    <3>1. whole(q) /\ q.pending = a /\ q.inPaste = (end # l) /\ q.begin = 0 /\ q.end = IF end = l THEN 0 ELSE end
      <4> HIDE DEF end, l, a
      <4> QED OBVIOUS
    <3>2. q.begin \in 0 .. l - 1 /\ q.end \in 0 .. l - 1
      <4> HIDE DEF q, end, l
      <4> QED BY <1>3, <2>2, <3>1
    <3>3. CASE end = l
      <4>1. Marked(more, 0, PasteBegin, 0)
        <5> SUFFICES ASSUME NEW m \in 1 .. l - 1, K!Fits(more, n + 1, PasteBegin, m) PROVE FALSE
          BY <1>2, <1>3 DEF Marked
        <5>1. K!Fits(more, n + 1, PasteEnd, l)
          BY <1>3, <2>2, <3>3
        <5>2. more[(n + 1) - m + 1] = PasteBegin[1]
          BY <1>3 DEF K!Fits
        <5>3. l - m + 1 \in 2 .. l /\ (n + 1) - l + (l - m + 1) = (n + 1) - m + 1 /\ l - m + 1 \in 1 .. l
          BY <1>2, <1>3
        <5>4. more[(n + 1) - m + 1] = PasteEnd[l - m + 1]
          <6>1. PICK place, j : place = (n + 1) - m + 1 /\ j = l - m + 1
            OBVIOUS
          <6>2. j \in 1 .. l /\ place = (n + 1) - l + j
            BY <5>3, <6>1
          <6> HIDE DEF l, n, more
          <6>3. more[place] = PasteEnd[j]
            BY <5>1, <6>2, FitsNext
          <6> QED BY <6>1, <6>3
        <5> QED BY <1>3, <5>2, <5>3, <5>4
      <4>2. new = 0 /\ ~q.inPaste /\ q.end = 0 /\ q.pending = a
        <5> HIDE DEF q, new, end
        <5> QED BY <2>3, <3>1, <3>3
      <4>3. fits(q)
        <5> HIDE DEF q, new, after, more, l, a
        <5> QED BY <1>1, <1>3, <1>3a, <2>1, <2>4, <3>1, <3>2, <4>1, <4>2
      <4> HIDE DEF q, fits, whole
      <4> QED BY <1>9, <3>1, <4>3
    <3>4. CASE end # l
      <4>1. Marked(more, paste, PasteEnd, end)
        <5>1. \A m \in 1 .. l - 1 : m \in 1 .. l
          BY <1>3
        <5> QED BY <1>2, <1>3, <2>2, <5>1 DEF Marked
      <4>2. new = paste /\ q.inPaste /\ q.end = end /\ q.pending = a
        <5> HIDE DEF q, new, end
        <5> QED BY <2>3, <3>1, <3>4
      <4>3. fits(q)
        <5> HIDE DEF q, new, after, more, l, a, end, paste
        <5> QED BY <1>1, <1>3, <1>3a, <2>1, <2>4, <3>1, <3>2, <4>1, <4>2
      <4> HIDE DEF q, fits, whole
      <4> QED BY <1>9, <3>1, <4>3
    <3> QED BY <3>3, <3>4
  <2> HIDE DEF q
  <2> QED BY <2>4, <2>5, <2>6 DEF Followed
<1>11. CASE ~p.inPaste
  <2>1. paste = 0 /\ p.end = 0 /\ (a <=> is)
    BY <1>1, <1>11
  <2>2. begin \in 0 .. l /\ \A m \in 1 .. l : (K!Fits(more, n + 1, PasteBegin, m) /\ (n + 1) - m >= 0) <=> begin = m
    <3>1. 0 \in 0 .. n
      BY <1>2
    <3>2. p.begin \in 0 .. Len(PasteBegin) - 1 /\ Marked(keys, 0, PasteBegin, p.begin)
      BY <1>1, <1>11
    <3>3. /\ begin \in 0 .. Len(PasteBegin)
          /\ \A m \in 1 .. Len(PasteBegin) :
               (K!Fits(more, Len(more), PasteBegin, m) /\ Len(more) - m >= 0) <=> begin = m
      BY <1>3, <3>1, <3>2, MarkAdvances
    <3>4. Len(more) = n + 1
      BY <1>2
    <3> HIDE DEF begin, more, n, l
    <3>4a. Len(PasteBegin) = l
      BY DEF l
    <3>5. ASSUME NEW m \in 1 .. l
          PROVE  (K!Fits(more, n + 1, PasteBegin, m) /\ (n + 1) - m >= 0) <=> begin = m
      <4>1. m \in 1 .. Len(PasteBegin)
        BY <3>4a
      <4>2. Told(more, Len(more), 0, PasteBegin, m, begin)
        BY <3>3, <4>1 DEF Told
      <4>3. Told(more, n + 1, 0, PasteBegin, m, begin)
        BY <3>4, <4>2, Zenon
      <4> QED BY <4>3, Zenon DEF Told
    <3> QED BY <3>3, <3>4a, <3>5
  <2>3. new = IF begin = l THEN n + 1 ELSE 0
    <3>1. K!EndsWith(more, n + 1, PasteBegin) <=> begin = l
      <4>1. K!Fits(more, n + 1, PasteBegin, l) => (n + 1) - l >= 0
        BY <1>2, <1>3 DEF K!Fits
      <4> QED BY <1>3, <2>2, <4>1 DEF K!EndsWith
    <3> QED BY <1>9a, <2>1, <3>1 DEF PasteNext
  <2>4. begin = l => key # "prefix"
    <3>1. ASSUME begin = l PROVE key = PasteBegin[l]
      <4>1. K!Fits(more, n + 1, PasteBegin, l)
        BY <1>3, <2>2, <3>1
      <4>2. PICK place : place = n + 1
        OBVIOUS
      <4>3. l \in 1 .. l /\ place = (n + 1) - l + l
        BY <1>2, <1>3, <4>2
      <4>4. more[place] = key
        BY <1>2, <4>2
      <4> HIDE DEF more, l, n
      <4>5. more[place] = PasteBegin[l]
        BY <4>1, <4>3, FitsNext
      <4> QED BY <4>4, <4>5
    <3>2. l \in 1 .. l
      BY <1>3
    <3> QED BY <1>3, <3>1, <3>2
  <2> DEFINE b == IF begin = l THEN 0 ELSE begin
             entered == begin = l
             made(pending) == [pending |-> pending, inPaste |-> entered, begin |-> b, end |-> 0]
             q == IF begin = Len(PasteBegin) THEN [p EXCEPT !.inPaste = TRUE, !.begin = 0] ELSE [p EXCEPT !.begin = begin]
  <2>5. q = made(a) /\ [q EXCEPT !.pending = FALSE] = made(FALSE) /\ [q EXCEPT !.pending = TRUE] = made(TRUE)
    <3>1. p = [pending |-> a, inPaste |-> FALSE, begin |-> p.begin, end |-> 0]
      BY <1>1, <1>11, <2>1
    <3>2. PICK c : p = [pending |-> a, inPaste |-> FALSE, begin |-> c, end |-> 0]
      BY <3>1
    <3> HIDE DEF begin, l, a
    <3>3. q = made(a)
      <4>1. CASE begin = l
        BY <3>2, <4>1 DEF l
      <4>2. CASE begin # l
        BY <3>2, <4>2 DEF l
      <4> QED BY <4>1, <4>2
    <3> HIDE DEF q
    <3>4. [q EXCEPT !.pending = FALSE] = made(FALSE) /\ [q EXCEPT !.pending = TRUE] = made(TRUE)
      <4> HIDE DEF b, entered
      <4>1. q = ParserWith(a, entered, b, 0)
        BY <3>3 DEF ParserWith
      <4>2. made(FALSE) = ParserWith(FALSE, entered, b, 0) /\ made(TRUE) = ParserWith(TRUE, entered, b, 0)
        BY Zenon DEF ParserWith
      <4>3. [q EXCEPT !.pending = FALSE] = Pending(q, FALSE) /\ [q EXCEPT !.pending = TRUE] = Pending(q, TRUE)
        BY Zenon DEF Pending
      <4> HIDE DEF made
      <4>4. Sets(a, entered, b, 0)
        <5> HIDE DEF a
        <5> QED BY PendingSet
      <4> QED BY <4>1, <4>2, <4>3, <4>4, Zenon DEF Sets
    <3> QED BY <3>3, <3>4
  <2>6. K!Feed(p, key) =
          IF a THEN CASE key = "d" -> K!Fed(made(FALSE), "detach", <<>>)
                      [] key = "?" -> K!Fed(made(FALSE), "help", <<>>)
                      [] OTHER     -> K!Fed(made(FALSE), "none", <<key>>)
          ELSE IF key = "prefix" THEN K!Fed(made(TRUE), "none", <<>>)
          ELSE K!Fed(made(a), "none", <<key>>)
    <3> HIDE DEF made
    <3> QED BY <1>11, <2>5, Zenon DEF K!Feed
  <2>7. ASSUME NEW z \in BOOLEAN, z <=> after PROVE ParserOf(made(z), more)
    <3>1. /\ whole(made(z)) /\ made(z).pending = z /\ made(z).inPaste = entered
          /\ made(z).begin = b /\ made(z).end = 0
      <4> HIDE DEF begin, l, b, entered
      <4> QED OBVIOUS
    <3>1a. entered <=> begin = l
      OBVIOUS
    <3>1b. entered \in BOOLEAN
      OBVIOUS
    <3>2. b \in 0 .. l - 1 /\ 0 \in 0 .. l - 1
      <4> HIDE DEF begin, l
      <4> QED BY <1>3, <2>2
    <3>3. CASE begin = l
      <4>1. new = n + 1 /\ n + 1 # 0 /\ b = 0
        BY <1>2, <2>3, <3>3
      <4>2. Marked(more, new, PasteEnd, 0)
        <5>1. \A m \in 1 .. l - 1 : ~((n + 1) - m >= n + 1) /\ m # 0
          BY <1>2, <1>3
        <5> HIDE DEF new
        <5> QED BY <1>2, <1>3, <4>1, <5>1 DEF Marked
      <4>3. ~after
        BY <1>9a, <2>4, <3>3
      <4>4. fits(made(z))
        <5> HIDE DEF made, new, after, more, l, begin, b, entered
        <5> QED BY <1>3, <1>3a, <2>7, <3>1, <3>2, <3>3, <3>1a, <3>1b, <4>1, <4>2, <4>3
      <4> HIDE DEF made, fits, whole
      <4> QED BY <1>9, <3>1, <4>4
    <3>4. CASE begin # l
      <4>1. new = 0 /\ b = begin
        BY <2>3, <3>4
      <4>2. Marked(more, 0, PasteBegin, begin)
        <5>1. \A m \in 1 .. l - 1 : m \in 1 .. l
          BY <1>3
        <5> QED BY <1>2, <1>3, <2>2, <5>1 DEF Marked
      <4>3. fits(made(z))
        <5> HIDE DEF made, new, after, more, l, begin, b, entered
        <5> QED BY <1>3, <1>3a, <2>7, <3>1, <3>2, <3>4, <3>1a, <3>1b, <4>1, <4>2
      <4> HIDE DEF made, fits, whole
      <4> QED BY <1>9, <3>1, <4>3
    <3> QED BY <3>3, <3>4
  <2> HIDE DEF made, begin
  <2>8. ASSUME NEW z, NEW action, NEW forwarded
        PROVE  /\ K!Fed(z, action, forwarded).parser = z /\ K!Fed(z, action, forwarded).action = action
               /\ K!Fed(z, action, forwarded).forwarded = forwarded
    BY DEF K!Fed
  <2>9. CASE a
    <3>1. is /\ ~after
      BY <1>9a, <2>1, <2>9
    <3>2. ParserOf(made(FALSE), more)
      BY <2>7, <3>1
    <3>3. ForHuman(more, n + 1) <=> key \in {"d", "?"}
      BY <1>8, <3>1
    <3>4. CASE key = "d"
      <4>1. K!Feed(p, key) = K!Fed(made(FALSE), "detach", <<>>)
        BY <2>6, <2>9, <3>4
      <4>2. <<>> = IF ForHuman(more, n + 1) THEN <<>> ELSE <<key>>
        BY <3>3, <3>4
      <4> HIDE DEF is
      <4>3. Followed(K!Feed(p, key), p, keys, key) /\ K!Feed(p, key).forwarded = <<>>
        BY <3>2, <4>1, <4>2, FollowedBy
      <4> QED BY <4>3
    <3>5. CASE key = "?"
      <4>1. K!Feed(p, key) = K!Fed(made(FALSE), "help", <<>>)
        BY <2>6, <2>9, <3>5
      <4>2. <<>> = IF ForHuman(more, n + 1) THEN <<>> ELSE <<key>>
        BY <3>3, <3>5
      <4> HIDE DEF is
      <4> QED BY <3>2, <4>1, <4>2, FollowedBy
    <3>6. CASE key \notin {"d", "?"}
      <4>1. K!Feed(p, key) = K!Fed(made(FALSE), "none", <<key>>)
        BY <2>6, <2>9, <3>6
      <4>2. <<key>> = IF ForHuman(more, n + 1) THEN <<>> ELSE <<key>>
        BY <3>3, <3>6
      <4> HIDE DEF is
      <4>3. Followed(K!Feed(p, key), p, keys, key) /\ K!Feed(p, key).action = "none"
        BY <3>2, <4>1, <4>2, FollowedBy
      <4> QED BY <4>3
    <3> QED BY <3>4, <3>5, <3>6
  <2>10. CASE ~a
    <3>1. ~is /\ (after <=> key = "prefix") /\ (ForHuman(more, n + 1) <=> key = "prefix")
      BY <1>8, <1>9a, <2>1, <2>10
    <3>2. CASE key = "prefix"
      <4>1. K!Feed(p, key) = K!Fed(made(TRUE), "none", <<>>)
        BY <2>6, <2>10, <3>2
      <4>2. ParserOf(made(TRUE), more)
        BY <2>7, <3>1, <3>2
      <4>3. <<>> = IF ForHuman(more, n + 1) THEN <<>> ELSE <<key>>
        BY <3>1, <3>2
      <4> QED BY <4>1, <4>2, <4>3, FollowedBy
    <3>3. CASE key # "prefix"
      <4>1. K!Feed(p, key) = K!Fed(made(a), "none", <<key>>)
        BY <2>6, <2>10, <3>3
      <4>2. ParserOf(made(a), more)
        BY <1>1, <2>7, <2>10, <3>1, <3>3
      <4> QED BY <2>8, <3>1, <3>3, <4>1, <4>2 DEF Followed
    <3> QED BY <3>2, <3>3
  <2> QED BY <1>1, <2>9, <2>10
<1> QED BY <1>1, <1>10, <1>11

-----------------------------------------------------------------------------
\* What is typed is read in order, and what is for the session is kept or written.
GotInv ==
  /\ typed \in Seq(Keys) /\ written \in Seq(Keys) /\ input \in Seq(Keys)
  /\ phase \in {"inactive", "acquiring", "active", "releasing"}
  /\ phase = "inactive" =>
       typed = <<>> /\ written = <<>> /\ input = <<>> /\ parser = K!NotStarted /\ reason = "detach"
  /\ phase \in {"acquiring", "active"} => reason = "detach" /\ ParserOf(parser, typed)
  /\ K!SessionGetsItsKeys

LEMMA AppendedLast ==
  ASSUME NEW s \in Seq(Keys), NEW t \in Seq(Keys), NEW key \in Keys
  PROVE  /\ s \o (t \o <<key>>) = Append(s \o t, key) /\ t \o <<key>> \in Seq(Keys)
         /\ t \o <<>> = t /\ s \o t \in Seq(Keys) /\ Len(t) <= Len(s \o t)
         /\ Len(<<key>>) = 1 /\ <<key>> # <<>> /\ Len(s) \in Nat /\ Len(t) \in Nat
OBVIOUS

\* A key is read: it is for the human, or it is kept.
LEMMA KeyKept ==
  ASSUME GotInv, phase \in {"acquiring", "active"}, NEW key \in Keys, K!Key(key),
         typed' = Append(typed, key), K!TakeoverAssumption
  PROVE  GotInv'
<1> DEFINE fed == K!Feed(parser, key)
           more == Append(typed, key)
<1>1. /\ typed \in Seq(Keys) /\ written \in Seq(Keys) /\ input \in Seq(Keys)
      /\ reason = "detach" /\ ParserOf(parser, typed) /\ phase # "inactive" /\ phase # "releasing"
      /\ Len(typed) <= MaxWrite => written \o input = K!ForSession(typed)
  BY DEF GotInv, K!SessionGetsItsKeys
<1>2. /\ Len(typed) \in Nat /\ more \in Seq(Keys) /\ Len(more) = Len(typed) + 1
      /\ MaxWrite \in Nat
  BY <1>1, OneMore DEF K!TakeoverAssumption
<1>3. /\ Followed(fed, parser, typed, key)
      /\ fed.action = "detach" => fed.forwarded = <<>>
  BY <1>1, ParserFollows
<1>4. typed' # typed
  <2>1. Len(more) # Len(typed)
    BY <1>2
  <2> QED BY <2>1
<1>5. /\ parser' = fed.parser /\ written' = written
      /\ IF fed.action = "detach" THEN K!BeginReturn("detach", FALSE)
         ELSE input' = K!Retained(fed.forwarded) /\ UNCHANGED <<phase, reason>>
  BY <1>1, <1>4 DEF K!Key
<1>6. /\ K!ForSession(typed) \in Seq(Keys) /\ Len(K!ForSession(typed)) <= Len(typed)
      /\ K!ForSession(more) = IF ForHuman(more, Len(typed) + 1) THEN K!ForSession(typed)
                              ELSE Append(K!ForSession(typed), key)
  BY <1>1, SessionOneMore
<1>7. /\ ParserOf(fed.parser, more)
      /\ fed.forwarded = IF ForHuman(more, Len(typed) + 1) THEN <<>> ELSE <<key>>
  BY <1>3 DEF Followed
<1> PICK forwarded : forwarded = fed.forwarded
  OBVIOUS
<1>8. PICK kept, longer : kept = K!ForSession(typed) /\ longer = K!ForSession(more)
  OBVIOUS
<1>9. PICK human \in BOOLEAN : human <=> ForHuman(more, Len(typed) + 1)
  OBVIOUS
<1>10. /\ kept \in Seq(Keys) /\ Len(kept) <= Len(typed)
       /\ human => longer = kept /\ fed.forwarded = <<>>
       /\ ~human => longer = Append(kept, key) /\ fed.forwarded = <<key>>
  BY <1>6, <1>7, <1>8, <1>9
<1>11. ParserOf(parser', typed')
  BY <1>5, <1>7
<1> HIDE DEF fed
<1>12. /\ input' \in Seq(Keys) /\ written' \in Seq(Keys)
       /\ Len(more) <= MaxWrite => written' \o input' = longer
  <2>1. Len(more) <= MaxWrite => written \o input = kept /\ Len(input) <= Len(typed)
    BY <1>1, <1>2, <1>8, <1>10, AppendedLast
  <2>2. CASE fed.action = "detach"
    <3>1. fed.forwarded = <<>> /\ input' = input
      BY <1>3, <1>5, <2>2 DEF K!BeginReturn
    <3>2. human
      BY <1>10, <3>1, AppendedLast
    <3> QED BY <1>1, <1>5, <1>10, <2>1, <3>1, <3>2
  <2>3. CASE fed.action # "detach"
    <3>1. input' = IF Len(input) + Len(fed.forwarded) <= MaxWrite THEN input \o fed.forwarded ELSE input
      BY <1>5, <2>3 DEF K!Retained
    <3>2. CASE human
      <4>1. input' = input
        BY <1>1, <1>10, <3>1, <3>2, AppendedLast
      <4> QED BY <1>1, <1>5, <1>10, <2>1, <3>2, <4>1
    <3>3. CASE ~human
      <4>1. fed.forwarded = <<key>> /\ Len(fed.forwarded) = 1 /\ longer = Append(kept, key)
        BY <1>10, <3>3
      <4>2. input' \in Seq(Keys)
        BY <1>1, <3>1, <4>1, AppendedLast
      <4>3. ASSUME Len(more) <= MaxWrite PROVE written \o input' = longer
        <5>1. input' = input \o <<key>>
          <6>1. Len(input) \in Nat
            BY <1>1
          <6>2. Len(input) + 1 <= MaxWrite
            BY <1>2, <2>1, <4>3, <6>1
          <6>3. Len(input) + Len(fed.forwarded) <= MaxWrite
            BY <4>1, <6>2
          <6> QED BY <3>1, <4>1, <6>3
        <5>2. written \o (input \o <<key>>) = Append(written \o input, key)
          BY <1>1, AppendedLast
        <5>3. written \o input = kept
          BY <2>1, <4>3
        <5> QED BY <4>1, <5>1, <5>2, <5>3
      <4> QED BY <1>1, <1>5, <4>2, <4>3
    <3> QED BY <3>2, <3>3
  <2> QED BY <2>2, <2>3
<1>13. phase' \in {"acquiring", "active", "releasing"} /\ reason' = "detach"
  <2>1. CASE fed.action = "detach"
    BY <1>5, <2>1 DEF K!BeginReturn
  <2>2. CASE fed.action # "detach"
    BY <1>1, <1>5, <2>2
  <2> QED BY <2>1, <2>2
<1>14. K!SessionGetsItsKeys'
  BY <1>8, <1>12 DEF K!SessionGetsItsKeys
<1> QED BY <1>2, <1>11, <1>12, <1>13, <1>14 DEF GotInv

\* The session gets exactly the keys that were meant for it, in order (src/src/terminal.rs,
\* handle_byte, retain_input): however a paste, a prefix and the flushes come between them.
THEOREM KeysArrive == K!Spec => []SessionGetsItsKeys
<1>0. K!TakeoverAssumption
  BY ProcessesAssumption
<1>1. K!Init => GotInv
  <2> SUFFICES ASSUME K!Init PROVE GotInv
    OBVIOUS
  <2>1. written \o input = <<>> /\ typed = <<>> /\ typed \in Seq(Keys) /\ phase = "inactive"
    BY DEF K!Init
  <2> QED BY <2>1 DEF GotInv, K!Init, K!SessionGetsItsKeys
<1>2. GotInv /\ [K!Next]_K!vars => GotInv'
  <2> SUFFICES ASSUME GotInv, [K!Next]_K!vars PROVE GotInv'
    OBVIOUS
  <2>1. ASSUME NEW key \in Keys, K!Key(key) PROVE GotInv'
    <3>1. CASE ~K!Consumes \/ phase = "releasing"
      <4>1. UNCHANGED <<phase, reason, parser, input, typed, written>>
        BY <2>1, <3>1 DEF K!Key
      <4> QED BY <4>1 DEF GotInv, K!SessionGetsItsKeys
    <3>2. CASE ~(~K!Consumes \/ phase = "releasing")
      <4>1. typed' = Append(typed, key) /\ phase \in {"acquiring", "active"}
        BY <2>1, <3>2 DEF K!Key, GotInv
      <4> QED BY <1>0, <2>1, <4>1, KeyKept
    <3> QED BY <3>1, <3>2
  <2>2. ASSUME NEW why, why # "detach", K!Returns(why) PROVE GotInv'
    <3>1. /\ phase' = "releasing" /\ reason' = why /\ input' = <<>>
          /\ UNCHANGED <<typed, written>>
      BY <2>2 DEF K!Returns, K!BeginReturn
    <3> QED BY <2>2, <3>1 DEF GotInv, K!SessionGetsItsKeys
  <2>3. ASSUME NEW end \in K!Ends, K!Returns(K!LifecycleReason(end)) PROVE GotInv'
    <3>1. K!LifecycleReason(end) # "detach"
      BY DEF K!LifecycleReason
    <3> QED BY <2>2, <2>3, <3>1
  <2>4. ASSUME NEW failure \in K!Failures, K!Returns(K!CompletionReason(failure)) PROVE GotInv'
    <3>1. K!CompletionReason(failure) # "detach"
      BY DEF K!CompletionReason
    <3> QED BY <2>2, <2>4, <3>1
  <2>5. ASSUME NEW failure \in K!Failures, K!ReleaseFails(failure) PROVE GotInv'
    BY <2>5 DEF GotInv, K!ReleaseFails, K!SessionGetsItsKeys
  <2>6. CASE K!Acquire
    <3>1. /\ phase = "inactive" /\ phase' = "acquiring"
          /\ UNCHANGED <<reason, parser, input, typed, written>>
      BY <2>6 DEF K!Acquire
    <3>2. /\ typed = <<>> /\ written = <<>> /\ input = <<>> /\ parser = K!NotStarted /\ reason = "detach"
      BY <3>1 DEF GotInv
    <3>3. ParserOf(K!NotStarted, <<>>) /\ K!ForSession(<<>>) = <<>> /\ <<>> \o <<>> = <<>>
      BY <1>0, ParserStarts
    <3>4. ParserOf(parser', typed') /\ written' \o input' = K!ForSession(typed')
      BY <3>1, <3>2, <3>3
    <3>5. K!SessionGetsItsKeys'
      BY <3>4 DEF K!SessionGetsItsKeys
    <3> QED BY <3>1, <3>2, <3>4, <3>5 DEF GotInv
  <2>7. CASE K!Acquired
    BY <2>7 DEF GotInv, K!Acquired, K!SessionGetsItsKeys
  <2>8. CASE K!Flush
    <3>1. /\ written' = written \o input /\ input' = <<>>
          /\ UNCHANGED <<phase, reason, parser, typed>> /\ phase # "inactive"
      BY <2>8 DEF K!Flush
    <3>2. written' \o input' = written \o input /\ written' \in Seq(Keys) /\ input' \in Seq(Keys)
      BY <3>1 DEF GotInv
    <3>3. K!SessionGetsItsKeys'
      BY <3>1, <3>2 DEF GotInv, K!SessionGetsItsKeys
    <3> QED BY <3>1, <3>2, <3>3 DEF GotInv
  <2>9. ASSUME NEW m \in BOOLEAN, NEW r \in BOOLEAN, K!Released(m, r) PROVE GotInv'
    <3>1. /\ input = <<>> /\ input' = input /\ phase' = "inactive" /\ reason' = "detach"
          /\ parser' = K!NotStarted /\ typed' = <<>> /\ written' = <<>>
      BY <2>9 DEF K!Released
    <3> QED BY <3>1 DEF GotInv, K!SessionGetsItsKeys
  <2>10. CASE UNCHANGED K!vars
    BY <2>10 DEF GotInv, K!vars, K!SessionGetsItsKeys
  <2> QED BY <2>1, <2>3, <2>4, <2>5, <2>6, <2>7, <2>8, <2>9, <2>10 DEF K!Next
<1>3. GotInv => SessionGetsItsKeys
  BY DEF GotInv, SessionGetsItsKeys
<1> QED BY <1>1, <1>2, <1>3, PTL DEF K!Spec
=============================================================================
