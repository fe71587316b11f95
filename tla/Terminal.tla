------------------------------ MODULE Terminal ------------------------------
(***************************************************************************)
(* Native terminal sessions: a child on a pseudo terminal, a thread that   *)
(* reads what it prints, a handle in the memory of the process that        *)
(* spawned it, and a record in a file that all processes share.  A         *)
(* command of a process opens the file, reconciles its copy with the       *)
(* handles it has, acts, and saves the copy whole.  `exec` waits up to     *)
(* five minutes in between.                                                *)
(*                                                                         *)
(* A process gives one command after another.  A child may close its       *)
(* terminal and live on, and may survive the process that spawned it.      *)
(***************************************************************************)
CONSTANTS Procs,      \* processes; bound: each is started once
          Ids,        \* ids of sessions; bound: each is created once
          NoRecord,   \* the file does not have the session
          Nobody,     \* no process
          NoCode,     \* no exit code
          Alone       \* a process is started only when no other is up

TerminalAssumption ==
  /\ Alone \in BOOLEAN /\ Nobody \notin Procs /\ NoCode \notin {0, 1}
  /\ NoRecord \notin {"running", "exited", "lost"}

VARIABLES child,     \* per session: the process on the pseudo terminal
          code,      \* per session: its exit code
          printed,   \* sessions whose output is not empty
          seen,      \* per session: NativeState.status, "running" or "exited"
          handles,   \* per process: native_registry
          host,      \* per session: the process that spawned it
          started, up,  \* processes that were started, and those that live
          file,      \* terminal.json: per session its status
          cmd,       \* per process: the command and what it holds
          stopped,   \* history: sessions that were reported stopped
          reported   \* history: per session, what exec said of it

tty == <<child, code, printed>>
procs == <<host, started, up>>
history == <<stopped, reported>>
vars == <<tty, seen, handles, procs, file, cmd, history>>

NoCommand == [at |-> "idle"]

Init ==
  /\ child = [i \in Ids |-> "unborn"] /\ code = [i \in Ids |-> NoCode] /\ printed = {}
  /\ seen = [i \in Ids |-> "running"]
  /\ handles = [p \in Procs |-> {}] /\ host = [i \in Ids |-> Nobody]
  /\ started = {} /\ up = {}
  /\ file = [i \in Ids |-> NoRecord]
  /\ cmd = [p \in Procs |-> NoCommand]
  /\ stopped = {} /\ reported = [i \in Ids |-> NoCode]

-----------------------------------------------------------------------------
(* The decision table of terminal_recovery.rs: what becomes of a durable   *)
(* terminal record, given what is known of the record, its host, its       *)
(* process and its screen.                                                 *)

Lifecycles == {"starting", "running", "exited", "lost", "closed"}
Final == {"exited", "lost", "closed"}

RecordEvidence == {"valid", "missing", "partial", "corrupt", "unsupported"}
HostEvidence == {"same", "foreign", "absent"}
ProcessEvidence == {"matched", "missing", "mismatched", "unavailable"}
CheckpointEvidence ==
  {"valid", "missing", "corrupt", "unsupported", "disconnected", "evicted", "resized"}

Evidence ==
  [record : RecordEvidence, lifecycle : Lifecycles, termination : BOOLEAN,
   host : HostEvidence, process : ProcessEvidence, checkpoint : CheckpointEvidence]

\* Why a screen cannot be shown; "none" if it can.
RecordScreenReason(record) ==
  CASE record \in {"valid", "missing"} -> "missing"
    [] record \in {"partial", "corrupt"} -> "corrupt"
    [] record = "unsupported" -> "unsupported_schema"

CheckpointReason(checkpoint) ==
  CASE checkpoint = "valid" -> "none"
    [] checkpoint = "disconnected" -> "raw_gap"
    [] checkpoint = "unsupported" -> "unsupported_schema"
    [] OTHER -> checkpoint

Decision(disposition, lifecycle, screen) ==
  [disposition |-> disposition, lifecycle |-> lifecycle, screen |-> screen]

\* Faulty variant: the host and its process are asked before the final states.
DecideByHost(e) ==
  LET screen == CheckpointReason(e.checkpoint) IN
    IF e.record # "valid" THEN Decision("isolate_corrupt", "lost", RecordScreenReason(e.record))
    ELSE IF e.host = "same" /\ e.process = "matched"
         THEN Decision("retain_live", "running", screen)
    ELSE IF e.lifecycle \in Final THEN Decision("retain_final", e.lifecycle, screen)
    ELSE Decision("mark_lost", "lost", screen)

Reconciled(e) ==
  LET screen == CheckpointReason(e.checkpoint) IN
    IF e.record # "valid" THEN Decision("isolate_corrupt", "lost", RecordScreenReason(e.record))
    ELSE IF e.lifecycle \in Final THEN Decision("retain_final", e.lifecycle, screen)
    ELSE IF e.termination THEN Decision("finalize_exited", "exited", screen)
    ELSE IF e.host = "same" /\ e.process = "matched"
         THEN Decision("retain_live", e.lifecycle, screen)
    ELSE IF e.host = "same" /\ e.process = "unavailable"
         THEN Decision("unavailable", e.lifecycle, screen)
    ELSE Decision("mark_lost", "lost", screen)

\* What the store asks of the table: a valid record that runs, without
\* evidence that it ended.
MarksLost(present) ==
  Reconciled([record |-> "valid", lifecycle |-> "running", termination |-> FALSE,
              host |-> IF present THEN "same" ELSE "absent",
              process |-> IF present THEN "mismatched" ELSE "unavailable",
              checkpoint |-> "missing"]).disposition = "mark_lost"

-----------------------------------------------------------------------------
(* The child and the thread that reads from it.                            *)

Prints(i) ==
  /\ child[i] = "runs" /\ host[i] \in up
  /\ printed' = printed \cup {i}
  /\ UNCHANGED <<child, code, seen, handles, procs, file, cmd, history>>

ClosesTerminal(i) ==
  /\ child[i] = "runs"
  /\ child' = [child EXCEPT ![i] = "closed"]
  /\ UNCHANGED <<code, printed, seen, handles, procs, file, cmd, history>>

Ends(i, c) ==
  /\ child[i] \in {"runs", "closed"}
  /\ child' = [child EXCEPT ![i] = "dead"] /\ code' = [code EXCEPT ![i] = c]
  /\ UNCHANGED <<printed, seen, handles, procs, file, cmd, history>>

\* Faulty variant: the end of the output is taken for the end of the child.
EndOfOutputIsEnd(i) ==
  /\ child[i] \in {"closed", "dead", "reaped"} /\ host[i] \in up
  /\ seen[i] = "running"
  /\ seen' = [seen EXCEPT ![i] = "exited"] /\ child' = [child EXCEPT ![i] = "reaped"]
  /\ UNCHANGED <<code, printed, handles, procs, file, cmd, history>>

\* The thread finds the end of the output, which says nothing of the child.
EndOfOutput(i) ==
  /\ child[i] \in {"closed", "dead", "reaped"} /\ host[i] \in up
  /\ seen[i] = "running"
  /\ seen' = [seen EXCEPT ![i] = "exited"]
  /\ UNCHANGED <<tty, handles, procs, file, cmd, history>>

-----------------------------------------------------------------------------
(* Processes.                                                              *)

Start(p) ==
  /\ p \notin started /\ (Alone => up = {})
  /\ started' = started \cup {p} /\ up' = up \cup {p}
  /\ UNCHANGED <<tty, seen, handles, host, file, cmd, history>>

\* A process ends or is killed, with all that it has in memory.
Exit(p) ==
  /\ p \in up
  /\ up' = up \ {p}
  /\ handles' = [handles EXCEPT ![p] = {}]
  /\ cmd' = [cmd EXCEPT ![p] = NoCommand]
  /\ UNCHANGED <<tty, seen, host, started, file, history>>

\* try_exit: of a child that ended, the code is taken and it is gone.
HasEnded(i) == child[i] \in {"dead", "reaped"}

\* Faulty variant: what was settled is reconciled again.
ReconciledAgain(p) ==
  [i \in Ids |->
     IF file[i] = NoRecord THEN NoRecord
     ELSE IF i \notin handles[p] THEN IF MarksLost(FALSE) THEN "lost" ELSE file[i]
     ELSE IF HasEnded(i) THEN "exited" ELSE file[i]]

\* A record that runs is checked against the handles of this process.
Reconcile(p) ==
  [i \in Ids |->
     IF file[i] # "running" THEN file[i]
     ELSE IF i \notin handles[p] THEN IF MarksLost(FALSE) THEN "lost" ELSE file[i]
     ELSE IF HasEnded(i) THEN "exited" ELSE file[i]]

Reaped(p) == {i \in handles[p] : file[i] = "running" /\ HasEnded(i)}

NeedsRunning == {"send", "resize", "stop"}
Spawning == {"create", "exec", "exec_started"}

\* Every command opens the store first; "send" stands for all that save nothing
\* (list and read too); what needs a running session is refused
\* for another, and what saves nothing is over.
Open(p, op, i) ==
  /\ p \in up /\ cmd[p].at = "idle"
  /\ op \in Spawning <=> child[i] = "unborn" /\ \A q \in Procs : cmd[q].at = "idle" \/ cmd[q].id # i
  /\ child' = [k \in Ids |-> IF k \in Reaped(p) THEN "reaped" ELSE child[k]]
  /\ seen' = [k \in Ids |-> IF k \in Reaped(p) THEN "exited" ELSE seen[k]]
  /\ handles' = [handles EXCEPT ![p] = @ \ Reaped(p)]
  /\ LET copy == Reconcile(p)
         over == op = "send" \/ (op \in NeedsRunning /\ copy[i] # "running")
     IN  cmd' = [cmd EXCEPT ![p] =
                   IF over THEN NoCommand
                   ELSE [at |-> "open", op |-> op, id |-> i, copy |-> copy, exit |-> NoCode]]
  /\ UNCHANGED <<code, printed, procs, file, history>>

\* Faulty variant: the handle is dropped when the session has been saved.
SpawnUnregistered(p) ==
  /\ cmd[p].at = "open" /\ cmd[p].op \in Spawning
  /\ child' = [child EXCEPT ![cmd[p].id] = "runs"]
  /\ host' = [host EXCEPT ![cmd[p].id] = p]
  /\ cmd' = [cmd EXCEPT ![p].at = "save", ![p].copy[cmd[p].id] = "running"]
  /\ UNCHANGED <<code, printed, seen, handles, started, up, file, history>>

\* spawn_native, and the handle and the record that say so.
Spawn(p) ==
  /\ cmd[p].at = "open" /\ cmd[p].op \in Spawning
  /\ child' = [child EXCEPT ![cmd[p].id] = "runs"]
  /\ host' = [host EXCEPT ![cmd[p].id] = p]
  /\ handles' = [handles EXCEPT ![p] = @ \cup {cmd[p].id}]
  /\ cmd' = [cmd EXCEPT ![p].at = "save", ![p].copy[cmd[p].id] = "running"]
  /\ UNCHANGED <<code, printed, seen, started, up, file, history>>

Resize(p) ==
  /\ cmd[p].at = "open" /\ cmd[p].op = "resize"
  /\ cmd' = [cmd EXCEPT ![p].at = "save"]
  /\ UNCHANGED <<tty, seen, handles, procs, file, history>>

\* The child is killed and reaped unless the thread has seen the end of its
\* output; the handle goes and the record says exited.
Stop(p) ==
  /\ cmd[p].at = "close" \/ (cmd[p].at = "open" /\ cmd[p].op = "stop")
  /\ LET i == cmd[p].id
         kill == seen[i] = "running"
     IN  /\ child' = IF kill THEN [child EXCEPT ![i] = "reaped"] ELSE child
         /\ code' = IF kill /\ ~HasEnded(i) THEN [code EXCEPT ![i] = 1] ELSE code
         /\ seen' = [seen EXCEPT ![i] = "exited"]
         /\ handles' = [handles EXCEPT ![p] = @ \ {i}]
         /\ cmd' = [cmd EXCEPT ![p].at = "save", ![p].copy[i] = "exited"]
  /\ UNCHANGED <<printed, procs, file, history>>

\* What follows a save: exec waits for its child, or answers.
Save(p) ==
  /\ cmd[p].at = "save"
  /\ file' = cmd[p].copy
  /\ LET i == cmd[p].id
         ends == cmd[p].copy[i] = "exited"
         executes == cmd[p].op \in {"exec", "exec_started"}
     IN  /\ cmd' = [cmd EXCEPT ![p] =
                      IF executes /\ ~ends THEN [cmd[p] EXCEPT !.at = "wait"] ELSE NoCommand]
         /\ stopped' = IF ends THEN stopped \cup {i} ELSE stopped
         /\ reported' = IF ends /\ executes
                        THEN [reported EXCEPT ![i] = IF cmd[p].exit = NoCode THEN 1 ELSE cmd[p].exit]
                        ELSE reported
  /\ UNCHANGED <<tty, seen, handles, procs>>

-----------------------------------------------------------------------------
(* exec.                                                                   *)

\* The loop finds that the child has ended.
PollExit(p) ==
  /\ cmd[p].at = "wait" /\ HasEnded(cmd[p].id)
  /\ child' = [child EXCEPT ![cmd[p].id] = "reaped"]
  /\ seen' = [seen EXCEPT ![cmd[p].id] = "exited"]
  /\ cmd' = [cmd EXCEPT ![p].at = "close", ![p].exit = code[cmd[p].id]]
  /\ UNCHANGED <<code, printed, handles, procs, file, history>>

\* The first output is enough.
PollOutput(p) ==
  /\ cmd[p].at = "wait" /\ cmd[p].op = "exec_started"
  /\ ~HasEnded(cmd[p].id) /\ cmd[p].id \in printed
  /\ cmd' = [cmd EXCEPT ![p].at = "judge"]
  /\ UNCHANGED <<tty, seen, handles, procs, file, history>>

\* Faulty variant: who waits for the first output waits for it alone.
CeilingOfExit(p) ==
  /\ cmd[p].at = "wait" /\ cmd[p].op = "exec" /\ ~HasEnded(cmd[p].id)
  /\ cmd' = [cmd EXCEPT ![p].at = "close"]
  /\ UNCHANGED <<tty, seen, handles, procs, file, history>>

\* wait_ceiling_ms is over.
Ceiling(p) ==
  /\ cmd[p].at \in {"wait", "judge"}
  /\ cmd[p].at = "wait" => ~HasEnded(cmd[p].id)
  /\ cmd' = [cmd EXCEPT ![p].at = "close"]
  /\ UNCHANGED <<tty, seen, handles, procs, file, history>>

\* A command that still runs is left to its caller; one that the thread takes
\* to have ended is closed.
Judge(p) ==
  /\ cmd[p].at = "judge"
  /\ cmd' = [cmd EXCEPT ![p] =
       IF seen[cmd[p].id] = "running" THEN NoCommand ELSE [cmd[p] EXCEPT !.at = "close"]]
  /\ UNCHANGED <<tty, seen, handles, procs, file, history>>

Act(p) ==
  Spawn(p) \/ Resize(p) \/ Stop(p) \/ Save(p)
    \/ PollExit(p) \/ PollOutput(p) \/ Ceiling(p) \/ Judge(p)

Next ==
  \/ \E i \in Ids :
       Prints(i) \/ ClosesTerminal(i) \/ EndOfOutput(i) \/ \E c \in {0, 1} : Ends(i, c)
  \/ \E p \in Procs :
       \/ Start(p) \/ Exit(p) \/ Act(p)
       \/ \E op \in NeedsRunning \cup Spawning, i \in Ids : Open(p, op, i)

\* A process that is given a command carries it out, and clocks go on.
Fairness == \A p \in Procs : WF_vars(Act(p))

Spec == Init /\ [][Next]_vars /\ Fairness

-----------------------------------------------------------------------------
(* Properties.                                                             *)

Status == {NoRecord, "running", "exited", "lost"}
Copies == {cmd[p].copy : p \in {q \in Procs : cmd[q].at # "idle"}} \cup {file}

\* Type correctness, and what goes with it: a handle is one of a process that
\* lives, and a child that is reaped has a code.
TypeOK ==
  /\ child \in [Ids -> {"unborn", "runs", "closed", "dead", "reaped"}]
  /\ code \in [Ids -> {NoCode, 0, 1}] /\ reported \in [Ids -> {NoCode, 0, 1}]
  /\ seen \in [Ids -> {"running", "exited"}] /\ host \in [Ids -> Procs \cup {Nobody}]
  /\ up \subseteq started /\ started \subseteq Procs
  /\ printed \subseteq Ids /\ stopped \subseteq Ids
  /\ \A p \in Procs : handles[p] \subseteq {i \in Ids : p \in up /\ host[i] = p}
  /\ \A r \in Copies : r \in [Ids -> Status]
  /\ \A i \in Ids : HasEnded(i) <=> code[i] # NoCode

\* A session that still has its child and its host is not called lost: neither by
\* a command that opens the store nor by the copy that exec saves minutes later.
LostIsGone ==
  \A i \in Ids : file[i] = "lost" /\ host[i] \in up => HasEnded(i)

\* "Never restart a session": what was settled, exited or lost, stays as it is.
FinalIsFinal ==
  [][\A i \in Ids : file[i] \in {"exited", "lost"} => file'[i] = file[i]]_vars

\* exec answers, whatever its command does: prints nothing, never ends, closes
\* its terminal.
ExecReturns == \A p \in Procs : cmd[p].at # "idle" ~> cmd[p].at = "idle"

\* The table keeps its promises for every evidence: nothing is revived, no
\* screen is made up, a record that cannot be read is left alone, and evidence of
\* an end is believed even if the host is gone.  (It depends on no state: it is
\* evaluated before the first process starts.)
RecoveryIsSound ==
  started = {} => \A e \in Evidence :
    LET d == Reconciled(e) IN
      /\ d.lifecycle \notin Final =>
           e.lifecycle = d.lifecycle /\ e.host = "same" /\ ~e.termination
      /\ d.screen = "none" => e.record = "valid" /\ e.checkpoint = "valid"
      /\ d.disposition = "isolate_corrupt" <=> e.record # "valid"
      /\ e.record = "valid" /\ e.termination /\ e.lifecycle \notin Final =>
           d.lifecycle = "exited"
      /\ e.record = "valid" /\ e.lifecycle \in Final => d.lifecycle = e.lifecycle

\* "Host/process evidence is gone - mark the session lost", and "termination
\* evidence" makes it exited: no session is called lost while its host lives.
LostIsHostGone == \A i \in Ids : file[i] = "lost" => host[i] \notin up

\* "Kill (if needed) and reap the pty child": a session that was reported
\* stopped has no child any more.
StoppedIsDead == \A i \in stopped : child[i] \notin {"runs", "closed"}

\* "Runs a command [...] and waits until the shell exits": the code that exec
\* reports is the code of the command.
CodeIsReal == \A i \in Ids : reported[i] # NoCode /\ HasEnded(i) => reported[i] = code[i]
=============================================================================
