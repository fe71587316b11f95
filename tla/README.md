# fxrs: a TLA+ model

`fxrs` is a coding agent for the terminal: a command-line program that asks a
model for text and tool calls, runs the tools, and keeps what happened in
files under its home directory.  There is no database and no server but the
one an editor starts: several `fxrs` processes (a session, `fxrs subagent ...`
commands, an editor's server, terminal and background commands) share those
files, and nothing keeps them apart but the order in which they load and save.
That is one half of the hard behaviour.  The other half is what arrives in
pieces, late, twice or never: a model's answer, the messages of a tool server,
the output of a command, the keys of a human.  Line numbers refer to
`src/src/`.

## 1. The system

| Part | State it keeps | Operations | What makes it correct |
| --- | --- | --- | --- |
| Control record (`subagent_control.rs`, `subagent_domain.rs`) | one JSON file per child: lifecycle state, configuration, parent, queue of work items, event log, revision, generation | create, configure, lifecycle (cancel, resume, close, reopen), relationship, send, milestone; await and resume an approval; claim and finish a work item | the log is dense and never rewritten; a claimed outcome has its event; nothing taken or cancelled becomes pending again |
| Communication ledger (`subagent_communication.rs`) | one file per session: deliveries (at most 256), the eviction mark, cursors, notifications | deliver, advance a cursor, notify, load (filters by the mark), save | the retained deliveries are a suffix of what was sent; a load loses nothing more |
| Approvals (`subagent_approval.rs`) | in the ledger: at most 64 approvals, routes, one notification per approval and root | register, resolve, invalidate | a replay is neither stored nor announced twice; what is settled stays so |
| Executor, tool, commands (`subagent_executor.rs`, `tools/subagent.rs`, `cli.rs` 1173-1973) | copies of both files in the memory of each process | each command; run a work item; the subagent tool; delete | no acknowledged message is lost, no item is run twice, no deleted child comes back |
| Admissions (`subagent_authority.rs`, with the executor and the tool) | in the record: the tools a child is held to; per process: the agents at work, each called by the one before | capture, derive anew at a run, nest | who is held to some tools is held to them, and so is whoever works for it |
| Agent loop (`agent.rs`), response recovery (`model_response_recovery.rs`) | transcript, step counter, retry counter, partial answer | request, stream, retry, tool calls | a retry neither repeats nor joins text; the run ends |
| Providers (`providers/`) | the answer under construction | choose a provider; decode a dialect; put an answer together | the agent goes on with what was sent |
| Permissions, hooks, tool gate (`permissions.rs`, `hooks.rs`, `tool_prep.rs`) | rules, mode, grants | decide, hook, ask, execute | what runs has leave, and is not denied |
| Results (`result_store.rs`, `exec_memory.rs`, `tools/read_tool_result.rs`) | a file per large result; a list of what was done | take in, store, read a range, search | a handle leads to its own text; ranges add up |
| Usage (`usage.rs`, `usage_recovery.rs`) | ledger file, one marker per session | record, checkpoint, clear, collect | tokens of a session that died are counted or reported |
| Sessions (`sessions.rs`) | one file per session, saved in place; the `latest` pointer | create, save, load, delete, recover, migrate | a session goes on from what was saved |
| ACP server (`acp/`) | the editor's sessions | new, load, list, prompt, cancel, close, remove | what has an id can be prompted |
| Full-screen interface (`tui/`), line interface (`ui.rs`) | transcript and viewport, pickers, screen buffers; composer with undo, kill ring, history | keys, resize, listings, prompts, slash commands | what Enter takes is what is shown; undo leads back |
| Commands (`tools/bash.rs`, `executor.rs`) | a shell, its pipe, the projector of its output | start, read, wait, give up | a timeout means a command at work; output means the same however it is cut |
| Background processes (`background.rs`) | registry file with pid and status | start, reconcile, stop, stop tree | a process that runs is never reported as ended |
| Terminals (`terminal.rs`, `tools/terminal.rs`, `terminal_recovery.rs`) | sessions: child, reader thread, handle, record | create, send, read, resize, stop, exec, reconcile | a session that lives is not called lost |
| Takeover (`terminal_takeover.rs`) | phase, prefix parser, paste filter, retained input | enter, keys, write, release | the session gets the keys that were meant for it |
| Skills (`skills/`, `tools/skill.rs`) | directories under the managed root | install, replace, create, remove, discover, load; name a skill in a prompt | a replacement happens wholly or not at all; a header is read as it was written |
| MCP clients (`mcp*.rs`) | one thread and one connection per call | discover, call, answer the server's questions, give up; check arguments | an answer goes to the request that asked; the agent goes on |
| Saves (`auth.rs`, `background.rs`, `subagent_*.rs`, `terminal.rs`) | a file and its temporary file | load, change, write, rename | a reader finds a whole file |
| Relationship queries, operation ids, teams, entry points, configuration files, context, diffs and slash commands, file and web tools, notifications, tmux sessions, SDK | | | not modelled, section 6 |

How they interact.  A command or a tool **loads** a record and a ledger,
**changes** the copies and **saves** each of them whole.  There is no lock.  A
`run` of a child is the one long process: it claims an item and saves, lets an
agent work for as long as it takes, loads the record *again*, finishes the item
on that, saves, and then delivers the result to the parent's ledger.  The
subagent tool does the same with the copy it already has.  Inside a run, a
round is a request and a stream; the provider's events become one answer, each
call of it passes the gate, is carried out by a tool (a command, a terminal, a
job, a call of a tool server), and its result is taken in, or stored and
replaced by a handle.  After the round the session is saved.  The editor's
server, the two interfaces and the command line are four ways to start such a
run.

Hard behaviours, with the lines where they bite, are listed under `hazards`
in `PROJECT.json`.

## 2. Modules

| Module | Models | State and actions |
| --- | --- | --- |
| `SubagentRecord` | the control record as a value: its type, what each manager request makes of it, `LifecycleTarget`, `StateAfterRestart`, `ClaimItem`, `TransitionWork`, `FinishControl` | pure |
| `CommunicationLedger` | the ledger as a value: `Deliver` with eviction, `AdvanceCursor`, `Reload` (the filter of load), `RegisterApproval`, `ResolveApproval`, `InvalidateApprovals` | pure |
| `SubagentLifecycle` | one record under any sequence of manager calls, each as one atomic step | `record`, `working` (the items that an agent has) |
| `SubagentLedger` | one ledger under any sequence of calls, each loading and saving it | `ledger` and what was ever sent |
| `SubagentHost` | the processes: every command, the run and the tool as a list of steps that load and save, crashes, and agents that fail; composes the two value modules | `disk`, `ledger` (the files), `proc` (the copies and the steps left) |
| `Admission` | what a child may do: captured with its record, derived anew at a run, handed on by the tool | `record` (the part that counts), `stack` (agents at work), `granted` |
| `UsageRecovery` | a run's checkpoints, its marker, its record, and the collector | `file`, `mark`, `marking`, `lines`; `run` per session; `report`, the collector's three reads |
| `AtomicStore`, `AtomicSave` | what a store promises, and the load, temporary file and rename by which it does | names and inodes: `path`, `tmp`, `content`; `writer` |
| `ModelRetry` | `agent.rs` 187-531 with the policy of `model_response_recovery.rs`: rounds, attempts, streams that break off, pauses | `at`, `step`, `consumed`, `pacing`, what was heard and what was kept |
| `ProviderStream` | `providers/`: which provider and key, the three dialects of the wire, their translation, and the two listeners (the agent's loop and `chat`) | `sent`, `slots` (the translation), `agent`, `chat` |
| `Permissions` | the best rule, the grants, `decide`, `auto_classify` | pure |
| `ToolGate` | `agent.rs` 527-700: filter, decision, hooks, preparation, and human, classifier or reviewer; grants over save and resume | `grants`, `saved`, the call on its way |
| `ToolResults` | results inline, cut or stored by agents that share a directory; ranges, queries, the execution memory | `files`, `tmp`, `agent`, `transcript`, `memory`, `reader` |
| `Sessions` | the store: `create`, save in place, `latest`, delete, recover, migrate, by clients that may be killed; a resumed agent | `file`, `pointer`, `clock`; `job` (command and memory) per client |
| `AcpServer` | the serve loop as one of the clients of `Sessions` | `serving` (the line at hand), `answer`, `up`; `promised` (the ids given out) |
| `Commands` | one command over the three routes: shell, helper, pipe, timeout | `process`, `pipe`, `left`, `got`, `at` |
| `Projection` | the projector of raw bytes, piece by piece | `rest`, `projector` |
| `Background` | start, reconcile, stop, stop_tree, and the processes of a job, which write to its log like the shell | `alive`, `marked` and `logs` (the system: who lives, whose shell wrote its code, what a reader of the log finds), `registry` (the file), `cmd` (each client's copy) |
| `Terminal` | native sessions and the `exec` of `tools/terminal.rs`: child, reader thread, handles of a process, and the file; the table of `terminal_recovery.rs` | `child`, `code`, `seen` (the thread), `handles`, `file`, `cmd` |
| `Takeover` | the controller: phases, prefix, paste filter, retained input, surfaces | `phase`, `parser`, `input`, `owner`; `typed` and `written` for the properties |
| `TuiViews` | transcript and viewport, pickers, double-buffered screen as values | pure |
| `TuiApp` | the loop of the full-screen interface: render, drain, one key or resize | `at`, `mode`, `rows`, `screen`, `transcript`, `pick`, `spawned` |
| `Composer` | the composer and `input_composer.rs`: text as bytes, undo and redo with joined entries, kill ring, history | `input`, `cursor`, `undo`, `redo`, `ring`, `history` |
| `Repl` | `run_interactive` of `ui.rs` | `conversation` (what each session's model was sent), `keys`, `resume` |
| `Mcp` | discovery with published names, and one worker thread per call: connect, shake hands, list, call, rounds of questions; stdio, http and the legacy transport; servers that are silent, refuse, ask, speak unasked or close | `published`, `worker`, `link`; `told` (the agent), `executed` (the servers) |
| `McpSchema` | the check of arguments: one recursive function with the counter the code threads through it, against the standard's reading, which is stated apart from it (`Means`) | `schema`, `instance`, `verdict` |
| `Streams` | the mask over a model's textual calls and the two decoders of event streams | `fed`; `mask`, `sse`, `lines` |
| `Skills` | install with staging, backup and restore, create, remove, discovery and load, call by call on the file system | `at` and `files` (names and inodes); `actor` per process |
| `SkillContract` | the frontmatter parser, line by line, against what a header says | `next`, `read` |
| `SkillPrompt` | the section that lists skills, the search for names in a prompt, loading | `section`, `plan`, `loaded`, `stage` |
| `MC*` | capacities and constants for TLC; the composite ones hold several components, of which one moves while the others rest in one initial state | |
| `*Proofs` | theorems, section 5 | |

How state and actions correspond.  A definition named after a Rust function is
that function with all it calls; an action is what a process does between two
points where another process can see or change something: a load, a save, a
look at the process table, a message, a wait.  What a process read stays in its
own variable (`proc`, `cmd`, `writer`, `run`, `job`, `actor`, `report`) until it
saves, since that is where stale copies come from.

The abstraction.  Ids of children, parents, jobs and requests are model values;
a work item is the sequence number of the request that made it, which is how the
code names it; texts, times and fingerprints are left out except where an
outcome depends on them.  Where the code works on bytes and a property is about
them (composer, projector, ranges, decoders, prompts), a text is a sequence of
symbols over the smallest alphabet that tells the cases apart: a lead and a
continuation byte, a marker's characters, a wide character.  Globs are a relation
between patterns and targets, with a length per pattern.  Lengths and capacities
are constants.  `SubagentHost` refines `SubagentLifecycle`: `ImplementsManager`
says that the file changes only by manager steps, each made of what is stored;
`AtomicSave` refines `AtomicStore`.

Definitions marked *Faulty variant* change one definition the way a plausible
bug would.  No specification uses them: they serve to show that each property
can fail.

## 3. Runs

| Run | Question and answer | Bounds |
| --- | --- | --- |
| `ledger` | the window, its eviction mark, registrations and decisions, in every order: what is retained is the end of what was sent, a load loses nothing, a request is announced once; children of restricted authority that are configured, run, nested, saved over and killed: each stays held to its admission, as far as the filter knows the names | capacities 2, three things sent, so that one is evicted and the registry is full; 2 requests with 2 fingerprints; 2 children, one of which may be too deep for the other (`MaxDepth` 1), 2 tools that the filter knows and one of another server, and a name that is refused |
| `lifecycle` | every sequence of manager calls on one record of either mode: nothing becomes pending again, a cancelled item never lives | `MaxEvents` 4 log entries, enough for a work item and a cancel, close, reopen and resume around it |
| `host_commands` | commands and the tool, begun and ended while the agent of a run is at work, with a crash: every change of the file is one manager transition of what is stored, no acknowledged message is lost, no item is run twice, no deleted child comes back, no approval outlives a cancel | 3 processes, 5 commands, 1 crash |
| `usage` | runs, crashes, failed writes, two sessions whose lines mix, a resumed session, and a collector in between: what a checkpoint of a new session covered is counted or reported; a report without findings was true | 2 sessions (one with 2 runs), 1 marker listed at a time so that the limit cuts, 1 fault |
| `stores` | a document saved by several processes, and skills installed, replaced, created, removed, discovered and loaded by two, killed or failing anywhere; headers; prompts | save: 2 writers, 3 updates, 3 inodes. Skills: 2 processes, 2 names, 4 directories, a repository of two skills with a third inside. Headers: every three lines out of 15 kinds, and every block with three lines below it. Prompts: up to 5 symbols after each beginning, two catalogues |
| `sessions` | an editor's server and a command line on one store, each killed anywhere, ids of one millisecond that are the same: a session goes on from what was saved, and what the server made can be prompted | 2 clients, 2 milliseconds, 1 round per run, 2 lines to the server |
| `interfaces` | the full-screen interface, its composer, the line interface, and the tools of other servers: the row Enter takes is on the screen after any listing, paging and resize; undo leads back to where it began; a published name leads back to its server, and what the agent is told of a call is the answer to it | screens of 3 and 6 rows, 2 lines, 2 sessions listed; texts of 4 bytes with a character of 2, 2 edits on the stack, 2 killed pieces; 7 configurations of servers that are silent, refuse, ask, speak unasked or close over three transports, 2 calls, 2 rounds of questions, 1 unasked message, 2 notifications passed over |
| `mcp` | the same calls under a clock that goes on, where each gets an end; arguments against schemas; the mask and the decoders | the 7 configurations; texts of four pieces and streams of 5 characters, cut at 1, 2 and 5; schemas that nest to the limit of 4, and 9 with FALSE in them |
| `turn` | two rounds of requests that break off and are sent again; an answer in each dialect; a call at the gate; its result | `Limit` 4 (doubling and cap of the delay are reached), 2 events per stream; answers of text, of two calls, of two calls without ids; 2 targets, one a pattern that matches the other, 6 sets of rules; 2 agents that store under the same ids, one result each, 3 texts below and above every limit, with wide characters at the ends of what is cut |
| `processes` | background jobs, terminal sessions, commands, their output and a takeover: what is said of an ended job is true, `stop_tree` leaves nothing of the tree it saw, who has its child and its host is never called lost, a timeout means a command at work, output means the same however it is cut, the session gets its keys | 2 clients, 2 jobs of which one forks on each level, prints anything, is stopped and ends, while the other runs on; 2 processes with 2 sessions, one process at a time; commands that write more than the pipe of 2; outputs of up to 4 bytes; 5 keys, marks of a paste of 2 |
| `tool_loses_message`, `undo_panics` | what the code says of itself, refuted | section 4 |

In the composite runs (`ledger`, `stores`, `interfaces`, `mcp`, `turn`, `processes`) one component
moves while the others rest in an initial state, so that the run visits the
states of all and no product of them: they share nothing that one of them could
disturb in another.

`Schedule` in `SubagentHost` names how much the environment may overlap.  With
`free` a lost update is possible for almost any two commands, since nothing in
the code prevents it, and only structural properties survive (they are proved,
section 5).  `during_runs` is the overlap that users meet every day, a command
while the agent of a run is at work, and the code takes care of it by loading
the record again; the properties of `host_commands` are what this care
achieves.  `during_agents` also lets commands run while the agent of a tool call
is at work, where the code takes no care.

Every bound is a constant in a `.cfg` or a definition of an `MC` module, and
each is chosen so that the boundary it is about is crossed at least once.
`CHECK_DEADLOCK FALSE` says that the bounds end the behaviours, or that a run
or a command is over, not that the system is stuck.

Fairness.  `turn` assumes that a run goes on (`WF_run(RunStep)`): each step is
the program's own or ends by itself, since a request has a timeout of 300 s
(`providers/gateway.rs` 143-145), a pause is a timer, and a stream has finitely
many events.  `max_agent_steps` 0, no limit, is no instance of the module: such
a run need not end.  `RunEnds` speaks of a run that has begun.  `mcp` assumes
that the clock goes on and that the agent hears an answer that is there
(`WF_vars(Timeout)`, `WF_vars(Hear)`): `AgentGoesOn` needs nothing of the
servers nor of the worker threads.  For the others the code justifies none: a
command is a process that a user starts and may kill, and an agent may work for
ever.

What the properties assume.  `SpentIsAccounted` speaks of sessions that were
never resumed: a resumed run counts from zero again (`agent.rs` 187-194).
`NothingForgotten` excepts a session that two processes had in hand at the same
time, which two sessions of one millisecond are (the id is the millisecond and
the workspace).  `PromptFindsSession` excepts sessions whose file another
process removed or a kill tore.  `AnswerIsOneStream` takes the clean end of a
stream for its whole, as the code does; `AnswerIsAsSent` speaks of answers whose
end mark arrived, and not of the AI SDK's events.  `HandleReadsBack`
excepts the handles that another save is at work on, or whose saves were stopped
(`spoiled`).  `HeldToAdmission` is about the names that the filter knows
(`is_builtin_tool_name`).  `EndedIsTrue` promises the code that a shell wrote only
to jobs that print lines of text, no line like it, and nothing after it (`unruly`);
`VerdictIsTheStandards` is of schemas in which FALSE stands for additional
properties only.  `PublishedLeadsBack` is for server
names without a double underscore and not ending in one; `AnswerIsOurs` for
servers that do not use the ids of the client for requests of their own.
`ShownHoweverCut` is up to newlines after a hidden block.  `TreeIsGone` takes the
150 ms after a SIGKILL (`background.rs` 574) for enough, and speaks of the tree and
the group that the process table showed: where it cannot be read that is the shell
alone, and without `setsid` there is no group.  `Terminal` runs with
one process at a time and one command after another in a process.
`SessionGetsItsKeys` is for input that fits what is retained.  Most of these
exceptions are refuted properties of section 4, or named below it.

## 4. Disagreements between the code and what it says

Checked as runs:

* `tool_loses_message`: the tool finishes the copy of the record that it has
  held since before its agent ran (`tools/subagent.rs` 236).  A message that
  was acknowledged in the meantime is overwritten.
* `undo_panics`: undo slices the text at the offsets of its entry before it
  compares (`input_composer.rs` 484), and a kill edits the text and records
  nothing: an accented letter, Home, a blank, ctrl-u and ctrl-z end the process.
  Line 469 says that undo returns false when the span no longer matches.

The following properties are stated in the modules and refuted by TLC when they
are put into the run's `.cfg`, one at a time, with the constants named here.  In
a composite run a component that is instantiated as `X` needs a line
`P == X!P` in the `MC` module; the one that the `MC` module extends does not.

Subagents (`MCSubagentHost`, `HostCommands.cfg` with `Procs = {p1, p2}`):

| Property | Constants | Shows |
| --- | --- | --- |
| `DeniedStaysCancelled` | `Schedule = "during_agents"` | a run that ends after its item was denied makes the item completed or failed; `cli.rs` 1504 says that a denial cancels it |
| `InterruptedIsResumable` | | the reconciled state of a crashed run is reported and never saved, so the resume that the report suggests is refused |

Admissions (`MCSubagentLedger`, `Ledger.cfg`):

| Property | Constants | Shows |
| --- | --- | --- |
| `NothingOutsideAdmission` | | the filter refuses only names that `is_builtin_tool_name` knows (`agent.rs` 535, `tools/mod.rs` 1025-1053): `read_tool_result`, `mcp` and the tools of other servers pass; `agent.rs` 532 says that names outside the admission snapshot are denied |
| `EachHeldToItsOwn` | | the agent that the tool starts has the filter of the agent that called it, not the names of the call (`tools/subagent.rs` 143-147); `agent.rs` 532 says that names outside the admission snapshot are denied |
| `RefusedIsIdle` | | a child whose admission was refused stays with its work pending, and `fxrs subagent run` runs it with every tool; so is one that a command created without a model |
| `RunsAsConfigured` | | the tool's agent has the permission mode of its caller, and has that of its record only when a `run` starts it; text that is no mode is `yolo` there and `auto` in the admission |

Usage and saves (`Usage.cfg`; `Stores.cfg`):

| Property | Constants | Shows |
| --- | --- | --- |
| `CrashLeavesMarker` | | a crash between the first save of a session and its marker leaves tokens no report knows of; `agent.rs` 966 says that a crash leaves the marker |
| `SettledIsCleared` | | the last checkpoint runs before the record is appended, so every run leaves its marker; `agent.rs` 965 says that it is cleared |
| `EndedIsCounted` | | a record and its newline are two writes (`usage.rs` 53); two runs can lose both records |
| `ReadableAtRest` | `Exclusive = FALSE` | all processes use one name for the temporary file, so two saves that overlap can leave a file that does not parse; `auth.rs` 81 says that write and rename avoid this |

A turn (`Turn.cfg`):

| Property | Constants | Shows |
| --- | --- | --- |
| `BudgetIsPerRun` | | the attempts are counted anew in every round; `agent.rs` 269 calls it a per-run budget |
| `DenyAlwaysWins` | | a longer pattern that allows beats a shorter one that denies; `permissions.rs` 189 says that a deny always wins (what does hold is `DenialYields`, proved) |
| `GrantIsKept` | | the saved map holds one target per tool, so a second grant replaces the first (`agent.rs` 657) |
| `OnceIsOnce` | | a call that was allowed once is granted for the session (`ui.rs` 118) |
| `ExecutedIsDecided` | | a hook changes the arguments after the decision (`agent.rs` 563-574); `hooks.rs` 47 says that hooks come before permissions |
| `FilterHolds` | | the same at the gate of a call: what `is_builtin_tool_name` does not know passes the filter of a subagent (`agent.rs` 535) |
| `GrantsOverrideRules` | | a target that the human granted is refused when a longer pattern denies it: `decide` lets grants resolve only what no rule decides, or what a rule asks about (`permissions.rs` 305-312); lines 189-191 say that session grants override static rules, since they represent explicit human confirmation |
| `ReviewFallsBack` | | an interactive run does not ask the human after a review (`agent.rs` 687); `permissions.rs` 9 says that it does |
| `NoCallIsCut` | | a connection that closes before the end mark is an answer, and the call it cut is run with the fragments as a string |
| `SdkCallsArrive` | | the AI SDK's input deltas are translated without a start, so the agent loses the call; `providers/gateway.rs` 214 says "accumulate like OpenAI tool_calls" |
| `ChatHearsTheSame` | | the two listeners put calls together by different rules |
| `UsageIsCountedOnce` | `MaxUsages = 2` | the agent adds every report of tokens, though each is the total so far; `chat` keeps the last |
| `AnswerIsAsSent` | `InOrder = FALSE` | fragments of a call that arrive before its name are lost |
| `RangesAreCharacters` | | a range that begins after a wide character begins inside it (`result_store.rs` 206) |
| `NothingCutForGood` | | when the store fails the result is cut, and nobody says so |
| `NoResultPanics` | | a preview, a cut or a search window that ends inside a character ends the run |
| `HandleAlwaysReadsBack` | | two runs that save the same result under the same call id (those the client makes up are the same in every run) share one temporary file, and the one renames what the other is still writing: the handle leads to an empty or half a result until that write ends, or for good if it is killed |

Processes (`Processes.cfg`):

| Property | Constants | Shows |
| --- | --- | --- |
| `StopEndsGroup` | | `stop` waits for the shell alone, so a member of its group that ignores SIGTERM outlives it; `background.rs` 311-315 says that the group is killed |
| `CodeIsTheShells` | | the code is printed without a line end before it and searched as a line of its own in a log that must be UTF-8 and that is opened without O_APPEND (`background.rs` 206-218, 732-743): after `printf foo`, or in a log that is no text, it is not found; a process of the job that writes on goes over it; a line like it that the job prints is taken for it; line 170 says that the log gains a trailing marker on exit |
| `StartedIsKnown` | | a stop saves the copy that it has held for seconds, and a job that was started in between is in the registry no more under the id `tools/background.rs` 38 tells the model to use |
| `LostIsGone` | `Alone = FALSE` | whoever opens and saves the store calls the sessions of the others lost, since a handle is only in the memory of its host (`terminal.rs` 621-627) |
| `LostIsHostGone` | | the end of a child that is noticed by a command that does not save takes the handle and not the status (`terminal.rs` 631-634); `terminal_recovery.rs` 14 says that such evidence makes it exited |
| `StoppedIsDead` | | the reader thread marks a session exited when the child closes its terminal (`terminal.rs` 801), and then `terminate` neither kills nor reaps it; line 901 says that it does |
| `CodeIsReal` | | with `return_when` `started`, output and end of output between two looks make `exec` report `ran` with code 1 for a command that ended with 0 (`tools/terminal.rs` 252-276) |
| `EndedCommandReturns` | fairness of the shell | the executor's direct and approved routes wait for the shell before they read (`executor.rs`): more output than the pipe holds is a deadlock |
| `NothingRunsOn` | | a timeout kills the shell alone (`tools/bash.rs`); what it started runs on, and its output is lost |
| `NothingPassedOver` | | an invalid sequence takes as many bytes as its lead promised, printable ones too; `executor.rs` 11 says that every invalid byte is escaped |
| `ProjectionNeverPanics` | outputs longer than `ReadChunk + 3` | a piece that does not fit the buffer is a panic |
| `NoKeyDropped` | `MaxWrite = 2` | retained input that does not fit is dropped without a word |

Skills (`Stores.cfg`):

| Property | Constants | Shows |
| --- | --- | --- |
| `SkillSurvivesKill` | | an install that is killed after it moved the old version away leaves it in a directory nothing restores |
| `RootSkillIsAlone` | `Roots` with `ry`, a valid skill inside a skill | `skills/commands.rs` 469 says that the children of a root that is a single skill are not walked; they are |
| `NoneOverwritten` | | two skills of one install with one name: the second replaces the first |
| `RemovesWhatItNamed` | | a skill replaced between the discovery and the removal is removed under its old name |
| `CreateChangesNone`, `LoadedIsWhole` | | `create` writes in place, over a skill that is there too |
| `CatalogIsOne` | | which of two candidates of one name is listed depends on the order of the directory |
| `NestedKeysAreNotOurs` | | an indented `name:` below another key is the skill's |
| `PromptNeverPanics` | | a prompt with a wide character across its sixth byte ends the run (`skills/invocation.rs` 193) |
| `SectionWithinLimit`, `ChunksReachTheEnd` | | the notice is added beyond the limit; a text longer than the limit is not read to its end in chunks |

MCP and streams (`Mcp.cfg`; `AnswerIsOurs` and `PublishedLeadsBack` stand in
`Interfaces.cfg`, whose constants they need):

| Property | Constants | Shows |
| --- | --- | --- |
| `NoLateRun`, `ChildIsReaped` | | the thread of a call that timed out goes on: the tool runs after the agent was told; the child of a silent server stays |
| `LegacyShakesHands` | | what answers a request over the legacy event stream is handed on envelope and all, so the handshake finds no version in it and every call of such a server fails; `mcp.rs` 10-13 says that every call runs the handshake |
| `FalseAllowsNothing` | | a schema that is the value `false` allows everything where it stands for a property, an item or a pattern, in a composite and at the top, since it is asked for keywords and has none (`mcp_schema.rs` 48-80); it is looked at for additional properties only (166) |
| `AnswersAreOfThisRound` | | the answers of an earlier round go with the next one (`mcp_ext.rs` 358) |
| `ListedLeadsBack` | | the `mcp` tool lists names that lead a call to another server, or to none |
| `AnswerIsOurs` | `ServerIds = {1}`, or `Noises` with `"stream"` | a request of the server's own with the id of ours, or over http a notification before the answer, is taken for it |
| `PublishedLeadsBack` | names with `__` or ending in `_` | the published name is taken apart at another place |
| `SameCharactersShown`, `LastLineCounts` | | newlines after a hidden block depend on the cut; the last line of a provider's stream counts without a line end |

Interfaces (`Interfaces.cfg`):

| Property | Constants | Shows |
| --- | --- | --- |
| `PromptIsServed` | fairness of the tasks | the loop is the future that polls the local tasks and never gives way to them: no agent ever takes a step (`tui/app.rs` 1378; line 10 says that the agent streams its events while the loop drains them) |
| `EveryAgentHeld` | `MaxSpawned = 2` | a second prompt overwrites the handle of the first agent |
| `FrameOnTerminal` | | a resize clears the buffers and not the terminal |
| `ScrollDownGoesDown`, `RenderScrollsNothing` | | with a line taller than the viewport a key that scrolls down moves the window up, and rendering moves a page that keys had put elsewhere |
| `CursorInText` | | an undo, a kill and a redo can leave the cursor inside a character |
| `CommandsNotSent`, `OneConversation` | | /background, /terminal and /compact print their answer and fall through to what sends a prompt; each prompt of a sitting is a conversation of its own |

Other observations, without a property.

* Subagents: a `run` ignores the child's state and executes pending items of a
  cancelled or archived child; a denial of an item that is already completed
  makes it cancelled; a registration does not check that the child exists; the
  ledger file outlives a delete.
* Sessions: a save in place that a kill tore makes `latest` and `recover last`
  an error; the usage of a session starts from zero when it is resumed; an agent
  that runs on a session that was deleted writes its file again; `migrate_all`
  has no caller; the resume picker's "(no sessions...)" row is an error.
* ACP: a prompt is awaited inside the serve loop, so `session/cancel` is read
  only after it ended; an error that `?` carries out of the loop ends the server
  with the request unanswered; `shutdown` and `exit` do not end the loop.
* Providers: a stored `openai` key is never used, and `FX_GATEWAY_API_KEY` only
  for models that are not Claude's; `set_key` with an empty key keeps the old
  one; ids that the client makes up (`call_{i}`) are the same in every round;
  input tokens that Anthropic's first event reports are not counted.  The first
  request of a round is not reserved, so a round may send 11; a `retry-after`
  above 30 s is dropped, not capped.
* Gate: a built-in mode's permission mode overrides `FX_PERMISSION_MODE`
  (`config.rs` 329-335).  The check of the mode's tool policy (`agent.rs` 545-560) never
  refuses: both modes of the registry have the policy `Full`.
* Background: a job whose pid was used again counts as running and a stop
  signals the stranger; a command that calls `exit` leaves no marker and ends as
  failed; `log_text` cuts at a byte (289), which may be inside a character; a
  client killed between launch and save leaves a job nobody knows.
* Terminals: `/terminal send <id> <text>` takes both words for the id.  The
  takeover controller is complete and nothing calls it yet.
* MCP: an `operation_timeout_ms` below 1000 is a timeout of 0 s; of two
  configurations of one server the first wins, where `mcp.rs` 463 says the last;
  an event that is too large is never cleared; a list of one schema under `items` is
  taken for a schema of every item; `const` and `enum` compare numbers as they are
  written, so 1 is not 1.0 (the model has one way to write each).
* Skills: an empty or torn `SKILL.md` is a valid skill; discovery reads a prefix
  of 64 KiB of a header, an install all of it.

## 5. Proofs

| Theorem | Says, for every value of the constants |
| --- | --- |
| `SubagentLedgerProofs`: `TypeCorrect`, `WindowCorrect`, `LoadCorrect`, `RegistrationCorrect`, `DecisionsAreFinal` | the ledger has its type; the window is the end of what was sent; load drops nothing that was retained; a request is announced to a root once; what is settled stays settled |
| `SubagentLedgerProofs`: `RunsAreHeld` | whatever is captured, derived anew and handed on, of the tools that the filter knows an agent executes only what the admission of its child and of every child above it allows |
| `SubagentLifecycleProofs`: `TypeCorrect`, `RecordAlwaysWellFormed`, `TakenOnce`, `CancellationWins` | the record has its type and is well formed; no item becomes pending again; no late approval revives a cancelled item |
| `SubagentScheduleProofs`: `RecordsStayWellFormed` | for any number of unsynchronised processes, any schedule and any crashes, every record that is stored or about to be stored is well formed |
| `SubagentScheduleProofs`: `NoSecondAgent`, `MessagesSurvive`, `DeletedForGood`, `NothingLeftOpen` | one command at a time, beside any number of agents at work: no item is given to two agents, no acknowledged message is lost, no deleted record comes back, and a cancel, close or delete leaves no approval open |
| `SubagentScheduleProofs`: `FollowsManager` | refinement: under the same schedule, every step of the processes is one transition of `SubagentLifecycle` made of the record as it is stored, or leaves it alone |
| `TurnProofs`: `RulesStay`, `DenialsYield`, `DeniedNeverExecuted`, `NothingWithoutLeave` | the rules in force are those of a configuration; a denial yields only to a longer rule that allows or one as long of a nearer key; unless checks are off, no call that the rules deny is executed; a tool that needs approval runs only with leave: a rule, the human's word for this tool, the classifier, or checks that are off |
| `TurnProofs`: `AnswersAreWhole` | for any number of rounds, attempts and events, each message of the transcript is one whole stream and each call that ran came from one |
| `TurnProofs`: `AnswersArrive` | for answers of any length and any interleaving of their calls, by an OpenAI or an Anthropic endpoint, the agent goes on with the whole text and exactly the calls that were sent, in their order and with their whole arguments |
| `TurnProofs`: `HandlesLeadBack` | for any number of agents on one directory, with ids that repeat or not, any texts and limits: a handle leads to the whole result, unless a save of the very same handle is writing over it or was stopped while it could |
| `TurnProofs`: `RangesAddUp` | for texts and ranges of any length, with characters of one or two bytes: a stored result that was read range after range is all there, whatever saves and kills come between; a half character may be shown before a range, but no whole one is lost or told twice |
| `ProcessesProofs`: `EndedJobsEnded`, `TreesAreGone` | a job that a registry, saved or held, calls ended has no shell any more; its code is the shell's, or the job printed a line like it; the shell's is found if the job prints lines of text and nothing after it; what `stop_tree` saw is gone when it saves, and the group that it saw led |
| `ProcessesProofs`: `LostSessionsAreGone`, `SettledStays` | one process at a time: a session that is called lost has no child that a living host could reach; what is exited or lost stays so |
| `ProcessesProofs`: `TimeoutsMeanBusy`, `ExitsAreWhole` | on every route and for every capacity of the pipe, a timeout is reported only of a command whose process was at work and not held up, an exit only with all of the output |
| `ProcessesProofs`: `OutputHoweverCut` | for outputs of any length cut into pieces anywhere, what is shown and counted is what it would be had the output come in one piece |
| `ProcessesProofs`: `KeysArrive` | for any keys, flushes and failed releases, the session has or will get exactly the keys that were meant for it, unless they were too many to keep or the takeover returned by itself |
| `StoresProofs`: `NeverHalfWritten`, `SavesImplementStore` | if saves do not overlap, a reader finds a whole file wherever processes are killed, and the saves implement the abstract store |
| `StoresProofs`: `LastVersionStays`, `SeenWhole` | for any number of processes at work on skills, killed or failing at any call: a skill nobody created anew or removed keeps its last version, under its name or in the backup of the one who replaces it; what anyone sees is whole |
| `StoresProofs`: `FirstRootHasIt` | the catalogue has of each name the first valid candidate and nothing else, for any number of candidates |
| `StoresProofs`: `SpendingIsAccounted`, `CleanReportsAreTrue`, `NeverChargedForMore` | for any number of sessions, runs and records, kills and failed writes: what a session, never resumed, used up to its last checkpoint is in the ledger or is reported; a clean report was right when it read; no session is charged for more than its runs used |
| `StoresProofs`: `NamedSkillsComeAlong` | for every prompt and catalogue, the skills loaded with a prompt are those that it names by whole words or by sigil, each once |
| `InterfaceProofs`: `StoreStaysInOrder`, `NothingIsForgotten`, `RecoverySpares` | for any number of processes with sessions: a save goes on from what was saved before, and a recovery writes where no file is, unless two processes have one session in hand |
| `InterfaceProofs`: `ServerStaysInOrder`, `PromptsFindTheirSessions`, `NothingIsForgottenByServer` | the same with the editor's server among them; a prompt fails only for a session that another process or a kill changed |
| `InterfaceProofs`: `CallsGetTheirAnswers`, `NamesLeadBack` | what the agent is told of a call is the answer to its last request; the name a tool is published under leads back to its server and to it |
| `InterfaceProofs`: `SelectionIsSeen` | the row that Enter would take is in the list and on the screen, for any lists, resizes and loads |
| `InterfaceProofs`: `StacksLeadBack` | whatever was typed, deleted, yanked, undone and done again, the undo stack unwinds from the text shown to the text it began with; a kill or alt-y, which it does not record, excepted |

Assumptions.  Those that the modules name (capacities are positive naturals, the
schedule is one of three, sentinels are not ids, of any patterns one is longest,
`AdmissionAssumption`, `TerminalAssumption`, `CommandAssumption`,
`ProjectionAssumption`, `SkillsAssumption`, `PromptsAssumption` (prompts and names
are texts, and the names in a catalogue differ, since discovery keeps one skill of each:
`FirstRootHasIt`), `UsageAssumption`, `SessionsAssumption`,
`ServerAssumption`, `ResultAssumption`, that what tools give are Strings,
`TakeoverAssumption`, that the two marks of a paste are as long,
begin alike and have their first byte once, as `ESC [200~` and `ESC [201~` do, and
as conjuncts of `InterfacesAssumption`, `ScreenAssumption`, that screens have
three rows at least, and `CharsAssumption`, that characters are not empty and differ in
their first byte),
which TLC evaluates in a run.  Those that a theorem has as a hypothesis:

* `Schedule = "during_runs"` for the five theorems about one child.  The code
  has no lock, and without it keeps none of them: the run `tool_loses_message`
  shows it.
* `Exclusive = TRUE` for the saves: temporary files have one name, so two saves
  at once may share it.
* `Alone = TRUE` for terminals, whose records are saved whole by each process.
* `WholeCalls`: an endpoint opens its calls in the order of their index
  (`InOrder`), and each has a name and arguments whose text is not empty (at least
  `{}`).  Without the order the property is refuted (section 4).
* `CivilServers`: a tool server numbers its requests apart from the client's
  (which are 1 to 3), sends nothing unasked in the body of an http answer and
  answers no round of questions twice.  `mcp.rs` looks at nothing but the id.
* `PlainNames`: a server's name has no `__` and does not end in `_`.
  `parse_prefixed` cuts at the first `__`, and nothing in `mcp.rs` forbids others.
* `CallsAreNumbers`: calls are told apart by numbers (`Calls \subseteq Nat`).

The number of inodes and directories is a bound of the models: a step that needs
a new one waits for one to be free.  The theorems hold for every number.

The argument.  In `SubagentLedgerProofs` the window is inductive only together
with where the sequence numbers stand (the newest is `next_sequence - 1`, they
have no gap, and the mark is the last one evicted).  For admissions the invariant
is that a stored record has the admission it was created with (`FileInv`), and
that a frame which the tool pushed has a copy with that admission (`StackInv`).

`SubagentRecordProofs` proves, once for every function of the record, that it
maps a well formed record to a well formed one; `WellFormed` alone is not
inductive, since a work item's event must exist for an outcome to be claimed,
so the lemmas carry the type of the record and that the item is one of its
queue.  `SubagentLifecycleProofs` has one step per action on top of them.

`SubagentScheduleProofs` has two invariants.  `IInv`, for every schedule, is
about the copies in memory: each is well formed, and a process that is going to
finish an item holds the id of one that its copy has (`HasWork`).  `SInv`, for one
command at a time, adds what a process plans by the steps it has left
(`PlansInv`: a copy that will be saved without being loaded again is the stored
record and one transition more), that all but one rest or have an agent at work
(`Alone`), that those agents have different items (`WorksApart`), what the record
remembers of what ran and what was acknowledged (`PastInv`), and that all
approvals of the ledger are the child's (`OwnInv`).  For the refinement the event
log must have room: a count of the processes that may still log (`Bounded`) gives
it, and `SameWork` and `WorkStarted` tell which items are with an agent.

In `TurnProofs`, a best rule exists (by length, then key, then strictness), so
that `RuleFor` is well defined; `DenialFollowed` says that from the decision on, a
call that the rules deny is on its way to a refusal, whatever was granted.
`GrantsInv` says that every grant, in the run or saved, is one the human gave for
that tool, and `LeaveInv` that a call on its way has the leave that its place
demands.  `HeardInv` says that what was heard while a stream delivers is of this
attempt, and `KeptInv` that what was kept or run is of an attempt that ended: the
reset before every attempt makes the first inductive.  `SavedInv` says of every handle's file, and of the
temporary that is about to take its place, that it is empty or holds a whole text,
unless an agent stands in its write now or was stopped there (`spoiled`): two agents
with one id may write in one file, and only a stop leaves a piece of a text.
`TakenInv` follows a handle from there to the transcript.

For an answer, `WireInv` says that the calls the listener knows are the first ones,
in order (`ListeningInv`), that what it holds of each is what was sent of it, and
of the translation that its slots hold just that (`OpenAiInv`) or that at most one
block is open (`AnthropicInv`).  The events of one arrival are folded by the
listener through a chain of states (`IsHeard`, `CallsAre`): the proof writes down
what the chain must be, and `SameChain`, two chains that begin alike and go on
alike are alike, shows by a smallest difference that it is.

For ranges, `ReaderInv` says that the reader's characters, but for halves, are those
of the text up to where it goes on, and that it goes on where a character begins.
A range that begins with the last byte of a character (`RangeIs`) adds half of one
and then just what follows (`PartAdds`): what is at a place of the part is at its
place of the text (`SameCharacters`).  Results are Strings, the file's broken first
write included (`HeldInv`), so that no byte is half of a character by itself.

In `ProcessesProofs`, `BInv` says of the registry and of every copy that they are
true of the system (`True`), of each command what it may rely on at its stage
(`Sound`), and of each log that a code found there is the shell's, or one that the
job's own output showed (`LogsHonest`).  Both survive because what ended stays ended and a pid that was used
again is a process of another group.  `TInv` has the shape of the records, that a child has one host, and
what a command's copy says of what it holds (`Obeys`, `Sane`).  `CInv` counts
the output: what was got, what is in the pipe and what is left are all of it
until the answer.

`PInv` follows the projector: what it shows is what a walk over the whole output
shows when it comes by the place up to which pieces were taken (`Reached`), and what
it keeps are the bytes from there on that begin a character not all there yet.
`Resumes` says that a walk over a piece goes along with the walk over everything
until the piece ends.  For keys, the property reads all that was typed, the parser
one byte at a time: `ParserOf` says what the parser's two numbers and two flags tell
of what was typed, and `MarkAdvances` that one number is enough for a mark whose
first byte comes once.  `GotInv` adds that the kept input and what was written are
the keys for the session; it never is too much to keep before `MaxWrite` keys were
typed.

In `StoresProofs` the save protocol needs that the two names differ, that one
writer at most is at work, that the temporary file is its own (`OwnsTmp`) and that
its copy is what is stored and one update more (`AddsOne`), which is what the
refinement needs.  For skills, `SkillsInv` says that no directory has two names
(`Apart`), what each process has in its staging and backup directories at its
stage (`Owner`), that a directory someone holds open is at its name or in a
backup (`Held`), that what is visible is whole, and that a version that is not
visible waits in the backup of one who will bring it back or was killed (`Lasts`).  Discovery is a fold over candidates: the
theorem about it is proved by a smallest counterexample, since a principle of
induction cannot be instantiated here.

For the accounts of usage, `Counted` is a sum over the lines that count, which
`MapThenSumSet` takes in an order nobody knows.  `SumTakes` and `SumAgrees` are
again by a smallest counterexample: a set of fewest elements for which two orders
differ cannot exist, so that a line more adds what its record says (`TotalGrows`)
and a record on a line that is not ended takes away what the line counted
(`TotalMixes`).  `UsageInv` has three parts for each session.  `Charged`: the
ledger charges no more than what the runs used that may have recorded it.
`FirstRun`: a session that was never resumed has no record before its run writes
one, so that a checkpoint clears the marker only if nothing was used; its file
never claims more than the run used, and a file as new as the marker claims all
that the last checkpoint covered.  `Owing`: between the collector's reads a session
that it listed goes on claiming what it owed.

In `InterfaceProofs`, `StoreInv` says that a file agrees with what was last saved
(`Agrees`), that a session that one process holds goes on from it (`GoesOn`), that
who is not counted as sharing is alone (`HeldAlone`) and that a recovery in
progress found no file.  `AcpInv` adds the line at hand: the job of the server is
about its session, and whatever failed did so for a session that another process
or a kill changed.  `TalkInv` says of a connection that at most one message on it
answers the request in hand: by stdio because ids grow, by http because a body has
one answer (`OneAnswer`, `OneBody`).  `LedInv` says that what was published is
enabled and is the first of its name, which is how a call finds it; `TakenApart`
that a name is cut where it was joined.  `PickInv` keeps the selection on the
screen while a key is awaited; `ClampFits` is the lemma that the drawing restores
it after anything else.

`Kept` says of a prompt's run that the plan and what is loaded are together what the
prompt names, and have nothing in common.  What is hard is that the code's search
finds what the prompt names: it compares texts from a place on, character by
character, and the property speaks of words.  `NormalizeIs` shows that the normalized
prompt is its words joined with one space, `EqlIs` that the comparison is with the
words of the name joined so, `MatchesIs` that a name and ` skill` stand in the joined
text exactly where they stand among the words (`TextToWords`, `WordsToText`).
`ReferenceIs` is the start of the prompt: its blanks, one polite word, a quote;
`SigilMatches` the sigil.  Each is by what one more character at the end of a text
does to it (`ByCharacters`).

Only model-checked: `Repl`, `Streams`, `McpSchema` (its check is a RECURSIVE operator, as the code's is)
and `SkillContract`.  Out of the prover's reach: liveness (`RunEnds`,
`AgentGoesOn`) and `ENABLED`, and what a fold computes of arbitrary data, but for
properties that a smallest counterexample gives.

The modules state more than the runs list, for a reader who changes them: type
invariants, and `NeverOvercounted`, `NewestInView`, `TerminalAgrees`,
`RunsAreBounded`, `EventsAreItsLines`, `DetachIsAsked`, `ExecReturns`,
`PauseFollowsFailures`, `RecoveryIsSound`, `ResultHasTransition`,
`NothingLeftRunning` and `LedgersWellFormed`.  TLC found no violation of them
under the constants of their runs (`ExecReturns` with weak fairness of
`Terminal`'s `Act`).  `FirstRootWins`, `ExitMeansWhole`, `FinalIsFinal` and
`RecoveryOverwritesNothing` are in no run and are theorems.

## 6. Not modelled, and why

* Relationship queries (`subagent_relationship.rs`) and operation ids
  (`operation_id.rs`): the former read, the latter convert.  Of an admission,
  rules, grants and integration names are stored and read by nothing.
* Teams: a file saved by the protocol of `AtomicSave`, and a list of one-off
  calls of the agent.
* Entry points, configuration files, settings, catalogues: parsing and merging;
  of the credentials, which key is chosen and how they are saved are modelled.
* Context, diffs, slash-command text, compaction of a context: text to text.
* File, search and web tools: each one call on the file system or the network.
* Request bodies and the services of `github.rs`, `review.rs` and `oneoff.rs`:
  conversions.
* Sessions of a tmux server: the state is tmux's own.
* History, captures and the tape: lines that are appended and not read back by
  the program's own logic.
* Notifications, themes, colours and the layout of widgets: formats.
* The shell parser and the read-only classifier: data of `ToolGate` (a command
  is read-only or not); the calls of one answer are executed in one step of
  `ModelRetry` and one at a time in `ToolGate`.
* The JavaScript SDK: a host outside the program.

What would come next: the ledger of
`SubagentHost`, tmux sessions, and the configuration files of MCP servers.
