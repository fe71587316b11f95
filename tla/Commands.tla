------------------------------ MODULE Commands ------------------------------
(***************************************************************************)
(* One shell command run to its end: the shell, a process it started that  *)
(* holds the same pipe, the pipe, and fxrs at the other end.  There are    *)
(* three routes: the tool run_command reads the pipe while it waits, and   *)
(* for a limited time; the executor's direct and approved routes wait for  *)
(* the shell first and read afterwards.                                    *)
(***************************************************************************)
EXTENDS Integers

CONSTANTS Routes,   \* of "run_command", "direct", "approved"
          PipeCap,  \* what the pipe holds
          MaxOut    \* bound: what a process writes

CommandAssumption == PipeCap \in Nat \ {0} /\ MaxOut \in Nat

Writers == {"shell", "helper"}

VARIABLES route,
          process, \* each process: "none", "running", "ended" or "killed"
          endless, \* the processes that never end by themselves
          left,    \* what each has yet to write
          pipe,    \* what is in the pipe
          got,     \* what fxrs has read
          at,      \* fxrs: "waiting" for the shell, "draining" the pipe, "returned"
          outcome, \* "none", "exit" with the output, "timeout" without
          output   \* history: what was to be written in all

command == <<route, endless, output>>
vars == <<command, process, left, pipe, got, at, outcome>>

Running(w) == process[w] = "running"
Alive == {w \in Writers : Running(w)}

\* Somebody may still write: the pipe is not at its end.
Total(n) == n["shell"] + n["helper"]

Init ==
  /\ route \in Routes
  /\ process \in [Writers -> {"none", "running"}] /\ process["shell"] = "running"
  /\ endless \in SUBSET {w \in Writers : process[w] = "running"}
  /\ left \in [Writers -> 0 .. MaxOut] /\ (process["helper"] = "none" => left["helper"] = 0)
  /\ pipe = 0 /\ got = 0 /\ at = "waiting" /\ outcome = "none"
  /\ output = Total(left)

-----------------------------------------------------------------------------
(* The command.                                                            *)

\* A full pipe blocks who writes to it.
WriteOut(w) ==
  /\ Running(w) /\ left[w] > 0 /\ pipe < PipeCap /\ at # "returned"
  /\ left' = [left EXCEPT ![w] = @ - 1] /\ pipe' = pipe + 1
  /\ UNCHANGED <<command, process, got, at, outcome>>

Exit(w) ==
  /\ Running(w) /\ left[w] = 0 /\ w \notin endless
  /\ process' = [process EXCEPT ![w] = "ended"]
  /\ UNCHANGED <<command, left, pipe, got, at, outcome>>

-----------------------------------------------------------------------------
(* fxrs.                                                                   *)

\* Faulty variant: nothing reads before the shell has ended.
ReadsAfterwards == at = "draining"

\* Whether something reads the pipe now.
Reads == IF route = "run_command" THEN at \in {"waiting", "draining"} ELSE at = "draining"

CanRead == Reads /\ pipe > 0
Read ==
  /\ CanRead
  /\ pipe' = pipe - 1 /\ got' = got + 1
  /\ UNCHANGED <<command, process, left, at, outcome>>

ShellSeen == at = "waiting" /\ ~Running("shell")
Wait ==
  /\ ShellSeen
  /\ at' = "draining"
  /\ UNCHANGED <<command, process, left, pipe, got, outcome>>

\* Faulty variant: the output is what was read when the shell ended.
NothingMoreToCome == at = "draining"

\* The end of the pipe: it is empty and nobody holds it any more.
EndOfPipe == at = "draining" /\ pipe = 0 /\ Alive = {}

Return ==
  /\ EndOfPipe
  /\ at' = "returned" /\ outcome' = "exit"
  /\ UNCHANGED <<command, process, left, pipe, got>>

\* The time is up: fxrs itself had nothing left to do.  The shell is killed and
\* waited for, what was read is dropped.
Timeout ==
  /\ route = "run_command" /\ at # "returned"
  /\ ~CanRead /\ ~ShellSeen /\ ~EndOfPipe
  /\ process' = [process EXCEPT !["shell"] = IF @ = "running" THEN "killed" ELSE @]
  /\ at' = "returned" /\ outcome' = "timeout" /\ got' = 0
  /\ UNCHANGED <<command, left, pipe>>

Fxrs == Read \/ Wait \/ Return \/ Timeout
Next == Fxrs \/ \E w \in Writers : WriteOut(w) \/ Exit(w)

\* fxrs and the timer run on; so does a process that can.
Spec == Init /\ [][Next]_vars /\ WF_vars(Fxrs) /\ \A w \in Writers : WF_vars(WriteOut(w) \/ Exit(w))

-----------------------------------------------------------------------------
(* Properties.                                                             *)

\* What is returned with an exit status is all that the command and whatever
\* it started have written.
ExitMeansWhole == outcome = "exit" => got = output

\* A command is given up for the time it takes, never for a pipe that nobody
\* reads: some process of it is at work and can go on.
TimeoutMeansBusy ==
  [][outcome # "timeout" /\ outcome' = "timeout" => Alive # {} /\ pipe < PipeCap]_vars

\* A command that ends by itself is returned, however much it writes.
EndedCommandReturns == endless = {} ~> at = "returned"

\* Every call returns.
CallReturns == <>(at = "returned")

\* Nothing of a command is left when it is returned.
NothingRunsOn == at = "returned" => Alive = {}
=============================================================================
