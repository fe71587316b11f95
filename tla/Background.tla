----------------------------- MODULE Background -----------------------------
(***************************************************************************)
(* Background jobs: shells that outlive the command that started them, a   *)
(* registry file that says how each one is, and commands that start a job, *)
(* stop it or stop its whole tree.  Every command loads the registry,      *)
(* corrects its copy by what lives and what the logs say, and saves it     *)
(* whole at the end, seconds later; nothing keeps two commands apart.      *)
(*                                                                         *)
(* A job's shell leads a process group, where there is a setsid.  It may   *)
(* fork a member of the group, and that one a process that leaves it.  A   *)
(* child whose parent is gone is nobody's descendant.  Once the group is   *)
(* empty another program may get the shell's pid.                          *)
(*                                                                         *)
(* The shell ends its log with a line that has the exit code.  The log is  *)
(* searched from its end for such a line, and it is not the shell's alone: *)
(* it is opened without O_APPEND, so what a process of the job writes      *)
(* afterwards goes over that line.                                         *)
(***************************************************************************)
EXTENDS Integers, FiniteSets

CONSTANTS Jobs,      \* ids of jobs; bound: each is started once
          Stopped,   \* bound: those that end or are stopped, that fork, that print what is
                     \* not lines of text, and whose pid is used again; others run on
          Clients,   \* processes that give commands
          NoRecord   \* the registry does not have the job

VARIABLES alive,     \* the processes that live: a job and a role
          forked,    \* those that were ever made; bound: each once
          marked,    \* jobs whose shell wrote its exit code to the log
          logs,      \* per job what its log is by now
          unruly,    \* history: jobs that printed anything but lines of text before their
                     \* code, a line like it, or anything after it
          registry,  \* the file: per job its record
          cmd        \* per client: the command and what it holds

os == <<alive, forked, marked, logs, unruly>>
vars == <<os, registry, cmd>>

Roles == {"shell", "member", "escaped", "stranger"}
Process(j, role) == [job |-> j, role |-> role]

\* The last code in a log is the shell's own, or one that the job printed itself;
\* or there is none, in lines of text or in a muddle: a line that has no end yet,
\* or a log that is not UTF-8.
Codes == {"own", "other"}
Logs == {"lines", "muddle"} \cup Codes

Running == [status |-> "running", code |-> "none"]
Ended(status, code) == [status |-> status, code |-> code]

NoCommand == [at |-> "idle"]

Init ==
  /\ alive = {} /\ forked = {} /\ marked = {}
  /\ logs = [j \in Jobs |-> "lines"] /\ unruly = {}
  /\ registry = [j \in Jobs |-> NoRecord]
  /\ cmd = [c \in Clients |-> NoCommand]

-----------------------------------------------------------------------------
(* The operating system.                                                   *)

Lives(j, role) == Process(j, role) \in alive

\* A process that was sent SIGKILL does nothing any more.
Doomed(x) == \E c \in Clients : cmd[c].at = "kill" /\ x \in cmd[c].killed

\* The shell comes to the end of its script.  Its code is not found in a muddle,
\* nor, if the job printed one, when half a line came after that.
WriteMarker(j) ==
  /\ j \in Stopped \ marked /\ Lives(j, "shell") /\ ~Doomed(Process(j, "shell"))
  /\ marked' = marked \cup {j}
  /\ \E l \in {"lines"} \cup Codes :
       /\ l = "lines" <=> logs[j] = "muddle"
       /\ l = "other" => logs[j] = "other"
       /\ logs' = [logs EXCEPT ![j] = l]
  /\ unruly' = IF logs[j] = "lines" THEN unruly ELSE unruly \cup {j}
  /\ UNCHANGED <<alive, forked, registry, cmd>>

\* A process of the job writes, begins or mends a muddle, or prints a line that is
\* taken for a code, which stays.  After the shell's end it writes over its code.
Prints(j, l) ==
  /\ j \in Stopped
  /\ \E role \in {"shell", "member", "escaped"} :
       Lives(j, role) /\ ~Doomed(Process(j, role))
  /\ IF j \in marked THEN l # "muddle" ELSE j \in unruly => l # "lines"
  /\ logs' = [logs EXCEPT ![j] = l]
  /\ unruly' = IF l = "other" \/ j \in marked THEN unruly \cup {j} ELSE unruly
  /\ UNCHANGED <<alive, forked, marked, registry, cmd>>

\* A process ends, by itself or by a signal; the shell with or without its marker.
Exit(x) ==
  /\ x \in alive /\ x.job \in Stopped
  /\ alive' = alive \ {x}
  /\ UNCHANGED <<forked, marked, logs, unruly, registry, cmd>>

Fork(j, parent, child) ==
  /\ j \in Stopped /\ Lives(j, parent) /\ ~Doomed(Process(j, parent))
  /\ Process(j, child) \notin forked
  /\ alive' = alive \cup {Process(j, child)}
  /\ forked' = forked \cup {Process(j, child)}
  /\ UNCHANGED <<marked, logs, unruly, registry, cmd>>

\* The pid of the shell goes to a program that has nothing to do with the job.
ReusePid(j) ==
  /\ j \in Stopped /\ Process(j, "shell") \in forked /\ ~Lives(j, "shell") /\ ~Lives(j, "member")
  /\ Process(j, "stranger") \notin forked
  /\ alive' = alive \cup {Process(j, "stranger")}
  /\ forked' = forked \cup {Process(j, "stranger")}
  /\ UNCHANGED <<marked, logs, unruly, registry, cmd>>

\* Who has the pid that the registry holds, and who is in that group.
Holder(j) == {x \in alive : x.job = j /\ x.role \in {"shell", "stranger"}}
PidAlive(j) == Holder(j) # {}
Group(j) == {x \in alive : x.job = j /\ x.role \in {"shell", "member", "stranger"}}

\* The descendants of a pid, by the parents that a process table names.
Descendants(j) ==
  {x \in alive : /\ x.job = j /\ Lives(j, "shell") /\ Lives(j, "member")
                 /\ x.role \in {"member", "escaped"}}

-----------------------------------------------------------------------------
(* Loading the registry.                                                   *)

Known(copy, j) == copy[j] # NoRecord
IsRunning(copy, j) == Known(copy, j) /\ copy[j].status = "running"

\* The copy is read, and the pids of what it takes to be running are looked up.
Open(c, op, j) ==
  /\ cmd[c].at = "idle"
  /\ IF op = "start" THEN Process(j, "shell") \notin forked ELSE j \in Stopped
  /\ cmd' = [cmd EXCEPT ![c] = [at |-> "loaded", op |-> op, job |-> j, copy |-> registry,
               dead |-> {k \in Jobs : IsRunning(registry, k) /\ ~PidAlive(k)}]]
  /\ UNCHANGED <<os, registry>>

\* The last line of the log that is a code.
ExitCode(j) == IF logs[j] \in Codes THEN logs[j] ELSE "none"

HowItEnded(j) == Ended(IF ExitCode(j) = "none" THEN "failed" ELSE "exited", ExitCode(j))

\* Faulty variant: a code in the log is enough, whether or not the job is dead.
ReconciledByLog(copy, dead) ==
  [k \in Jobs |-> IF k \in dead \/ (IsRunning(copy, k) /\ ExitCode(k) # "none")
                  THEN HowItEnded(k) ELSE copy[k]]

\* The logs of the dead say how they ended.
Reconciled(copy, dead) == [k \in Jobs |-> IF k \in dead THEN HowItEnded(k) ELSE copy[k]]

\* A stop of what does not run is refused.
Reconcile(c) ==
  /\ cmd[c].at = "loaded"
  /\ LET copy == Reconciled(cmd[c].copy, cmd[c].dead)
         refused == cmd[c].op # "start" /\ ~IsRunning(copy, cmd[c].job)
     IN  cmd' = [cmd EXCEPT ![c] =
                   IF refused THEN NoCommand
                   ELSE [at |-> "open", op |-> cmd[c].op, job |-> cmd[c].job, copy |-> copy]]
  /\ UNCHANGED <<os, registry>>

-----------------------------------------------------------------------------
(* The commands.                                                           *)

\* The job is launched and its pid read before anything is saved.
Launch(c) ==
  /\ cmd[c].at = "open" /\ cmd[c].op = "start"
  /\ LET shell == Process(cmd[c].job, "shell") IN
       /\ shell \notin forked
       /\ alive' = alive \cup {shell} /\ forked' = forked \cup {shell}
  /\ cmd' = [cmd EXCEPT ![c].at = "save", ![c].copy[cmd[c].job] = Running]
  /\ UNCHANGED <<marked, logs, unruly, registry>>

\* One look at the process table decides whom to signal; then SIGTERM, which may
\* be obeyed.  Only stop_tree looks for a tree.  A table that cannot be read shows
\* nobody, and no leader.  A shell leads its group unless nohup stood in for
\* setsid; a stranger may lead or not.
Terminate(c) ==
  /\ cmd[c].at = "open" /\ cmd[c].op \in {"stop", "stop_tree"}
  /\ \E leads \in {b \in BOOLEAN : b => PidAlive(cmd[c].job)},
        tree \in {{}, Descendants(cmd[c].job)} :
       /\ IF cmd[c].op = "stop" THEN tree = {} ELSE leads => tree = Descendants(cmd[c].job)
       /\ cmd' = [cmd EXCEPT ![c] =
            [at |-> "wait", op |-> cmd[c].op, job |-> cmd[c].job, copy |-> cmd[c].copy,
             leads |-> leads, targets |-> Holder(cmd[c].job) \cup tree]]
  /\ UNCHANGED <<os, registry>>

\* Faulty variant: the tree is looked up again instead of remembered.
VictimsOfNow(c) ==
  (IF cmd[c].leads THEN Group(cmd[c].job) ELSE {})
    \cup Holder(cmd[c].job) \cup Descendants(cmd[c].job)

\* Faulty variant: nobody is killed who did not obey.
NoVictims(c) == {}

\* Whom SIGKILL is sent to: by stop only if the pid still lives, by stop_tree
\* the group in any case and what is left of the tree that it saw.
Victims(c) ==
  LET j == cmd[c].job
      group == IF cmd[c].leads THEN Group(j) ELSE {}
  IN  IF cmd[c].op = "stop"
      THEN IF PidAlive(j) THEN group \cup Holder(j) ELSE {}
      ELSE group \cup Holder(j) \cup (cmd[c].targets \cap alive)

\* The wait ends because nobody is left, or after the timeout.
Kill(c) ==
  /\ cmd[c].at = "wait"
  /\ cmd' = [cmd EXCEPT ![c] =
       [at |-> "kill", op |-> cmd[c].op, job |-> cmd[c].job, copy |-> cmd[c].copy,
        leads |-> cmd[c].leads, targets |-> cmd[c].targets, killed |-> Victims(c)]]
  /\ UNCHANGED <<os, registry>>

\* A moment later those are dead, and the log is read.
Conclude(c) ==
  /\ cmd[c].at = "kill" /\ cmd[c].killed \cap alive = {}
  /\ cmd' = [cmd EXCEPT ![c] =
       [at |-> "save", op |-> cmd[c].op, job |-> cmd[c].job,
        copy |-> [cmd[c].copy EXCEPT ![cmd[c].job] = Ended("exited", ExitCode(cmd[c].job))]]]
  /\ UNCHANGED <<os, registry>>

Save(c) ==
  /\ cmd[c].at = "save"
  /\ registry' = cmd[c].copy
  /\ cmd' = [cmd EXCEPT ![c] = NoCommand]
  /\ UNCHANGED os

\* The client is killed; the jobs live on.
Crash(c) ==
  /\ cmd[c].at # "idle"
  /\ cmd' = [cmd EXCEPT ![c] = NoCommand]
  /\ UNCHANGED <<os, registry>>

Next ==
  \/ \E j \in Jobs :
       \/ WriteMarker(j) \/ ReusePid(j)
       \/ \E l \in Logs \ {"own"} : Prints(j, l)
       \/ Fork(j, "shell", "member") \/ Fork(j, "member", "escaped")
       \/ \E role \in Roles : Exit(Process(j, role))
  \/ \E c \in Clients :
       \/ \E op \in {"start", "stop", "stop_tree"}, j \in Jobs : Open(c, op, j)
       \/ Reconcile(c) \/ Launch(c) \/ Terminate(c) \/ Kill(c) \/ Conclude(c)
       \/ Save(c) \/ Crash(c)

Spec == Init /\ [][Next]_vars

-----------------------------------------------------------------------------
(* Properties.                                                             *)

Copies == {cmd[c].copy : c \in {d \in Clients : cmd[d].at \notin {"idle", "loaded"}}}

\* Type correctness: of the processes, the logs and every registry; a job that
\* is said to run has no exit code.
TypeOK ==
  /\ alive \subseteq forked /\ forked \subseteq [job : Jobs, role : Roles]
  /\ marked \subseteq Jobs
  /\ logs \in [Jobs -> Logs] /\ unruly \subseteq Jobs
  /\ \A r \in Copies \cup {registry} : r \in [Jobs ->
       {NoRecord, Running} \cup [status : {"exited", "failed"}, code : {"none"} \cup Codes]]

\* What is said of a job that ended is true, in the file and in every copy, in
\* whatever order commands load, wait and save: its shell is gone; a code is the
\* one that the shell wrote, or the job printed a line like it; and a job that
\* prints lines of text, and has nobody who prints after its shell, is reported
\* with its code if and only if the shell wrote one.
EndedIsTrue ==
  \A r \in Copies \cup {registry}, j \in Jobs :
    Known(r, j) /\ ~IsRunning(r, j) =>
      /\ ~Lives(j, "shell")
      /\ r[j].code = "own" => j \in marked
      /\ r[j].code = "other" => j \in unruly
      /\ j \notin unruly /\ j \in marked => r[j].code = "own"

\* "the log gains a trailing `__FX_EXIT_CODE__=` marker on exit": every job is
\* reported with the code that its shell wrote.
CodeIsTheShells ==
  \A r \in Copies \cup {registry}, j \in Jobs :
    Known(r, j) /\ ~IsRunning(r, j) => (r[j].code = "own" <=> j \in marked)

\* When stop_tree has done its work, nothing is left of the tree that it saw,
\* whoever lost his parent in between, nor of a group that it saw led by the
\* shell, whoever joined it.
TreeIsGone ==
  [][\A c \in Clients :
       cmd[c].at = "kill" /\ cmd'[c].at = "save" /\ cmd[c].op = "stop_tree" =>
         /\ cmd[c].targets \cap alive = {}
         /\ cmd[c].leads /\ Process(cmd[c].job, "shell") \in cmd[c].targets =>
              Group(cmd[c].job) \subseteq {Process(cmd[c].job, "stranger")}]_vars

\* "One group signal covers the whole tree including `sh` children [...] then
\* SIGKILL the group": after a stop nothing is left of the group.
StopEndsGroup ==
  [][\A c \in Clients :
       cmd[c].at = "kill" /\ cmd'[c].at = "save" /\ cmd[c].op = "stop" =>
         ~Lives(cmd[c].job, "member")]_vars

\* "Use `get_output` to read output [...] and `stop` to terminate": a job that is
\* in the registry stays there.
StartedIsKnown ==
  [][\A j \in Jobs : Known(registry, j) => Known(registry', j)]_vars
=============================================================================
