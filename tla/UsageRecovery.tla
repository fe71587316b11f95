---------------------------- MODULE UsageRecovery ----------------------------
(***************************************************************************)
(* What an agent run used is written to three places one after another: to *)
(* the session's file after every round, to a marker that says that the    *)
(* ledger does not have it yet, and to the ledger, usage.jsonl, when the   *)
(* run ends.  A run may be killed, and a write may fail, between any two.  *)
(* `fxrs usage` and `fxrs doctor` collect what is unresolved, while runs   *)
(* of other sessions go on.                                                *)
(*                                                                         *)
(* One process at a time works on a session.                               *)
(***************************************************************************)
EXTENDS Integers, Sequences, FiniteSetsExt

CONSTANTS Sessions,     \* session ids
          NoFile,       \* no file, or no marker
          Unreadable,   \* a file that does not parse
          MaxMarked,    \* MAX_RECOVERY_SESSIONS
          MaxTokens,    \* bound: tokens one run uses
          MaxSaves,     \* bound: saves of one session
          MaxRuns,      \* bound: runs of a session that is resumed
          Resumed,      \* bound: the sessions that are resumed
          MaxFaults     \* bound: crashes and failed writes

ASSUME UsageAssumption ==
  /\ MaxMarked \in Nat /\ MaxTokens \in Nat /\ MaxSaves \in Nat
  /\ MaxRuns \in Nat \ {0} /\ Resumed \subseteq Sessions /\ MaxFaults \in Nat
  /\ NoFile # Unreadable /\ NoFile \notin Nat

VARIABLES file,     \* per session: NoFile, Unreadable or [tokens, time]
          mark,     \* per session: NoFile or the time of the save it protects
          marking,  \* sessions whose marker's temporary file is in the registry
          lines,    \* the ledger's lines: each the records written on it
          open,     \* the ledger's last line has no newline yet
          run,      \* per session: at, tokens, final, time, runs; and, as history,
                    \* what earlier runs used (before) and accounted for (base)
          spent,    \* history: tokens of all runs up to the last checkpoint
          ended,    \* history: sessions whose last run ended by itself
          faults,   \* crashes and failed writes
          report    \* the collector: step, names, totals, owed, clean

usage == <<file, mark, marking, lines, open, run, spent, ended, faults, report>>
registry == <<mark, marking>>
ledger == <<lines, open>>

Idle(s) == run[s].at = "idle"

UsageInit ==
  /\ file = [s \in Sessions |-> NoFile]
  /\ mark = [s \in Sessions |-> NoFile]
  /\ marking = {}
  /\ lines = <<>> /\ open = FALSE
  /\ run = [s \in Sessions |-> [at |-> "idle", tokens |-> 0, before |-> 0, base |-> 0,
                                final |-> FALSE, time |-> 0, runs |-> 0]]
  /\ spent = [s \in Sessions |-> 0]
  /\ ended = {}
  /\ faults = 0
  /\ report = [step |-> "idle", names |-> {}, totals |-> [s \in Sessions |-> 0],
               owed |-> [s \in Sessions |-> 0], clean |-> FALSE]

-----------------------------------------------------------------------------
(* The ledger.  A line counts if exactly one record is on it.              *)

Counts(i, s) == Len(lines[i]) = 1 /\ lines[i][1].session = s

Counted(s) ==
  MapThenSumSet(LAMBDA i : lines[i][1].tokens, {i \in DOMAIN lines : Counts(i, s)})

\* A record and its newline are two writes; what is written goes to the end.
AppendRecord(rec) ==
  /\ lines' = IF open THEN [lines EXCEPT ![Len(lines)] = Append(@, rec)]
              ELSE Append(lines, <<rec>>)
  /\ open' = TRUE

-----------------------------------------------------------------------------
(* A run.                                                                  *)

Goto(s, to) == run' = [run EXCEPT ![s].at = to]

MayRun(s) == run[s].runs < IF s \in Resumed THEN MaxRuns ELSE 1

\* A new run counts from nothing.
BeginRun(s) ==
  /\ Idle(s) /\ MayRun(s)
  /\ run' = [run EXCEPT ![s].at = "model", ![s].tokens = 0,
                         ![s].before = @ + run[s].tokens, ![s].base = spent[s],
                         ![s].final = FALSE, ![s].runs = @ + 1]
  /\ ended' = ended \ {s}
  /\ UNCHANGED <<file, registry, ledger, spent, faults, report>>

Fresh(s) == run[s].runs = 0 /\ BeginRun(s)

\* Faulty variant: a resumed run goes on counting from the session's usage.
ResumeCounting(s) ==
  /\ file[s] \notin {NoFile, Unreadable}
  /\ Idle(s) /\ MayRun(s)
  /\ run' = [run EXCEPT ![s].at = "model", ![s].tokens = file[s].tokens,
                         ![s].before = @ + run[s].tokens - file[s].tokens, ![s].base = spent[s],
                         ![s].final = FALSE, ![s].runs = @ + 1]
  /\ ended' = ended \ {s}
  /\ UNCHANGED <<file, registry, ledger, spent, faults, report>>

\* A session whose file does not parse cannot be resumed.
Resume(s) == file[s] \notin {NoFile, Unreadable} /\ BeginRun(s)

\* One round: the model answers, and its tools run, or the run is over.
Round(s) ==
  /\ run[s].at = "model" /\ run[s].time < MaxSaves
  /\ \E n \in 0 .. MaxTokens - run[s].tokens, f \in BOOLEAN :
       run' = [run EXCEPT ![s].at = "save", ![s].tokens = @ + n, ![s].final = f,
                          ![s].time = @ + 1]
  /\ UNCHANGED <<file, registry, ledger, spent, ended, faults, report>>

\* The session is written in place: first it is empty, then complete.
TruncateSession(s) ==
  /\ run[s].at = "save"
  /\ file' = [file EXCEPT ![s] = Unreadable]
  /\ Goto(s, "write")
  /\ UNCHANGED <<registry, ledger, spent, ended, faults, report>>

\* (A file that was deleted in between stays deleted.)
WriteSession(s) ==
  /\ run[s].at = "write"
  /\ file' = [file EXCEPT ![s] = IF @ = NoFile THEN @
                                 ELSE [tokens |-> run[s].tokens, time |-> run[s].time]]
  /\ Goto(s, "check")
  /\ UNCHANGED <<registry, ledger, spent, ended, faults, report>>

\* After a checkpoint the run goes on to its next round or to the ledger.
AfterCheckpoint(s) == IF run[s].final THEN "append" ELSE "model"

\* The checkpoint is complete: what the run used so far is accounted for.
Checkpointed(s) == spent' = [spent EXCEPT ![s] = run[s].base + run[s].tokens]

NeedsRecovery(tokens, counted) == tokens > counted

Checkpoint(s) ==
  /\ run[s].at = "check"
  /\ IF NeedsRecovery(run[s].tokens, Counted(s))
       THEN /\ Goto(s, "mark")
            /\ UNCHANGED <<mark, spent>>
       ELSE /\ Goto(s, AfterCheckpoint(s))
            /\ mark' = [mark EXCEPT ![s] = NoFile]
            /\ Checkpointed(s)
  /\ UNCHANGED <<file, marking, ledger, ended, faults, report>>

\* The marker is written next to the markers and renamed.
WriteMark(s) ==
  /\ run[s].at = "mark"
  /\ marking' = marking \cup {s}
  /\ Goto(s, "rename")
  /\ UNCHANGED <<file, mark, ledger, spent, ended, faults, report>>

RenameMark(s) ==
  /\ run[s].at = "rename"
  /\ marking' = marking \ {s}
  /\ mark' = [mark EXCEPT ![s] = run[s].time]
  /\ Goto(s, AfterCheckpoint(s))
  /\ Checkpointed(s)
  /\ UNCHANGED <<file, ledger, ended, faults, report>>

\* Faulty variant: the record carries what all runs of the session used.
RecordCumulative(s) ==
  /\ run[s].at = "append"
  /\ AppendRecord([session |-> s, tokens |-> run[s].before + run[s].tokens])
  /\ Goto(s, "newline")
  /\ UNCHANGED <<file, registry, spent, ended, faults, report>>

RecordUsage(s) ==
  /\ run[s].at = "append"
  /\ AppendRecord([session |-> s, tokens |-> run[s].tokens])
  /\ Goto(s, "newline")
  /\ UNCHANGED <<file, registry, spent, ended, faults, report>>

EndLine(s) ==
  /\ run[s].at = "newline"
  /\ open' = FALSE
  /\ Goto(s, "idle")
  /\ ended' = ended \cup {s}
  /\ UNCHANGED <<file, registry, lines, spent, faults, report>>

\* A write that fails is reported and the run goes on: a session keeps its old
\* file or a torn one, a marker stays as it was.
WriteFails(s) ==
  /\ faults < MaxFaults
  /\ faults' = faults + 1
  /\ \/ run[s].at \in {"save", "write"} /\ Goto(s, "check")
     \/ run[s].at \in {"mark", "rename"} /\ Goto(s, AfterCheckpoint(s))
     \/ run[s].at = "append" /\ Goto(s, "idle")
  /\ UNCHANGED <<file, registry, ledger, spent, ended, report>>

KillRun(s) ==
  /\ ~Idle(s) /\ faults < MaxFaults
  /\ faults' = faults + 1
  /\ Goto(s, "idle")
  /\ UNCHANGED <<file, registry, ledger, spent, ended, report>>

\* A session may be deleted, also while a run works on it.
DeleteSession(s) ==
  /\ file[s] # NoFile
  /\ file' = [file EXCEPT ![s] = NoFile]
  /\ UNCHANGED <<registry, ledger, run, spent, ended, faults, report>>

-----------------------------------------------------------------------------
(* The collector.                                                          *)

Claimed(s) == IF file[s] \in {NoFile, Unreadable} THEN 0 ELSE file[s].tokens

Marked == {s \in Sessions : mark[s] # NoFile}

\* What a registry that holds these markers makes the collector give up on: a
\* temporary file is taken for the marker of a session that does not exist.
Unlistable == marking # {} \/ Cardinality(Marked) > MaxMarked

\* Faulty variant: a session that cannot be read has nothing to recover.
SettledIfUnreadable(s, protected, counted) ==
  \/ file[s] = Unreadable
  \/ /\ file[s] # NoFile
     /\ ~NeedsRecovery(file[s].tokens, counted)
     /\ file[s].time >= protected

\* Faulty variant: the time that the marker protects is not looked at.
SettledWhateverTime(s, protected, counted) ==
  /\ file[s] \notin {NoFile, Unreadable}
  /\ ~NeedsRecovery(file[s].tokens, counted)

\* The verdict on one marked session, from the totals that were read.
Settled(s, protected, counted) ==
  /\ file[s] \notin {NoFile, Unreadable}
  /\ ~NeedsRecovery(file[s].tokens, counted)
  /\ file[s].time >= protected

\* What the collector would find now, in one go.
WouldReport == Unlistable \/ \E s \in Marked : ~Settled(s, mark[s], Counted(s))

\* The markers are listed, then the ledger is read, then each session's file.
ListMarks ==
  /\ report.step \in {"idle", "done"}
  /\ report' = [report EXCEPT
       !.step = IF Unlistable THEN "done" ELSE "listed",
       !.names = {<<s, mark[s]>> : s \in Marked},
       !.owed = [s \in Sessions |-> IF s \in Marked THEN Claimed(s) ELSE 0],
       !.clean = FALSE]
  /\ UNCHANGED <<file, registry, ledger, run, spent, ended, faults>>

ReadLedger ==
  /\ report.step = "listed"
  /\ report' = [report EXCEPT !.step = "totals", !.totals = [s \in Sessions |-> Counted(s)]]
  /\ UNCHANGED <<file, registry, ledger, run, spent, ended, faults>>

LoadSessions ==
  /\ report.step = "totals"
  /\ report' = [report EXCEPT !.step = "done",
       !.clean = \A n \in report.names : Settled(n[1], n[2], report.totals[n[1]])]
  /\ UNCHANGED <<file, registry, ledger, run, spent, ended, faults>>

UsageNext ==
  \/ \E s \in Sessions :
       \/ Fresh(s) \/ Resume(s) \/ Round(s)
       \/ TruncateSession(s) \/ WriteSession(s)
       \/ Checkpoint(s) \/ WriteMark(s) \/ RenameMark(s)
       \/ RecordUsage(s) \/ EndLine(s)
       \/ WriteFails(s) \/ KillRun(s) \/ DeleteSession(s)
  \/ ListMarks \/ ReadLedger \/ LoadSessions

UsageSpec == UsageInit /\ [][UsageNext]_usage

-----------------------------------------------------------------------------
(* Properties.                                                             *)

Stage == {"idle", "model", "save", "write", "check", "mark", "rename", "append", "newline"}

\* Type correctness: the three places, the runs and the collector.
UsageTypeOK ==
  /\ file \in [Sessions -> {NoFile, Unreadable} \cup [tokens : 0 .. MaxTokens, time : 0 .. MaxSaves]]
  /\ mark \in [Sessions -> {NoFile} \cup 0 .. MaxSaves]
  /\ marking \subseteq Sessions
  /\ lines \in Seq(Seq([session : Sessions, tokens : 0 .. MaxTokens]))
  /\ open \in BOOLEAN
  /\ run \in [Sessions -> [at : Stage, tokens : 0 .. MaxTokens, before : Nat, base : Nat,
                           final : BOOLEAN, time : 0 .. MaxSaves, runs : Nat]]
  /\ spent \in [Sessions -> Nat]
  /\ ended \subseteq Sessions
  /\ faults \in 0 .. MaxFaults
  /\ report.step \in {"idle", "listed", "totals", "done"} /\ report.clean \in BOOLEAN

\* A resumed run counts from nothing, and its saves hide what the first run
\* used: the properties below that this breaks are about the other sessions.
NeverResumed(s) == run[s].runs <= 1

\* What the run of a session that was never resumed used up to its last
\* checkpoint is in the ledger, or the next report says that something is
\* unresolved: whatever was killed, whatever write failed and however the lines
\* of two runs were mixed.
SpentIsAccounted ==
  \A s \in Sessions : NeverResumed(s) /\ spent[s] > Counted(s) => WouldReport

\* The ledger never charges a session for more than its runs used.
NeverOvercounted ==
  \A s \in Sessions : Counted(s) <= run[s].before + run[s].tokens

\* A report is made from three reads while runs go on.  It is clean only if
\* what each marked session, if it was never resumed, had stored when the markers
\* were listed was in the ledger when the ledger was read.
CleanReportIsTrue ==
  [][LoadSessions /\ report'.clean =>
       \A s \in Sessions : NeverResumed(s) => report.owed[s] <= report.totals[s]]_usage

\* "A crash in the window between the checkpoint and the ledger append leaves
\* the marker": a session that nobody works on, whose file claims more than the
\* ledger has, is marked.
CrashLeavesMarker ==
  \A s \in Sessions : Idle(s) /\ Claimed(s) > Counted(s) => s \in Marked

\* "Once the ledger covers the session's claimed totals, clear it": after a
\* run that ended by itself with its record counted, no marker is left.
SettledIsCleared ==
  \A s \in Sessions :
    s \in ended /\ Idle(s) /\ file[s] \notin {NoFile, Unreadable} /\ Counted(s) >= Claimed(s)
      => s \notin Marked

\* "Recording one record per agent turn": the record of a run that ended by
\* itself counts.
EndedIsCounted == \A s \in ended : Counted(s) >= run[s].tokens
=============================================================================
