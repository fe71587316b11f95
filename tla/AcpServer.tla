----------------------------- MODULE AcpServer -----------------------------
(***************************************************************************)
(* An editor's server over the session store: JSON-RPC lines are read and  *)
(* answered one after the other, a prompt is a whole run of the agent, and *)
(* while it runs no other line is read.  The server is one of the store's  *)
(* clients; the command line is another.                                   *)
(***************************************************************************)
EXTENDS Sessions

CONSTANTS Server,   \* the client that is the server
          MaxSent   \* bound: lines the editor sends

ASSUME ServerAssumption == Server \in Clients

VARIABLES serving,   \* the line at hand, or Nothing
          failed,    \* whether what it asked for failed
          answer,    \* the last answer
          lines,     \* number of lines read
          up,        \* the server runs
          promised,  \* history: ids of the sessions the server made
          hurt       \* history: ids that another process changed, or a kill

acp == <<serving, failed, answer, lines, up>>
acpVars == <<vars, acp, promised, hurt>>

\* Requests by what the server does with them.  `plain` are those it answer at once:
\* initialize, list, modes, options, shutdown, what lacks a parameter, what is unknown
\* or no request, and cancel, which finds no run, for no line is read while one goes on.
Methods == {"new", "load", "close", "remove", "prompt", "no text"}
Request(method, i) == [method |-> method, id |-> i]
Nothing == Request("plain", NoId)
Answer(method, i, ok) == [method |-> method, id |-> i, ok |-> ok]

AcpInit ==
  /\ Init
  /\ serving = Nothing /\ failed = FALSE /\ up = TRUE
  /\ answer = Answer("plain", NoId, TRUE) /\ lines = 0
  /\ promised = {} /\ hurt = {}

\* Between two lines the server has nothing at hand.  The editor names sessions
\* it was told of, by the server or by a list.
Read ==
  /\ up /\ serving = Nothing /\ lines < MaxSent
  /\ \E method \in Methods, i \in {k \in Ids : file[k] # Missing \/ k \in promised} \cup {NoId} :
       /\ method = "new" => i = NoId
       /\ method \in {"load", "close", "remove"} => i # NoId
       /\ serving' = Request(method, i)
  /\ lines' = lines + 1
  /\ UNCHANGED <<vars, failed, answer, up>>

Reply(i, ok) ==
  /\ answer' = Answer(serving.method, i, ok)
  /\ serving' = Nothing
  /\ failed' = FALSE
  /\ UNCHANGED lines

-----------------------------------------------------------------------------
(* Handlers.  One that works on the store is a job of the server.          *)

At(methods) == up /\ serving # Nothing /\ serving.method \in methods /\ job[Server] = NoJob

AnswerLoad ==
  /\ At({"load"})
  /\ Reply(serving.id, file[serving.id].is = "whole")
  /\ UNCHANGED <<vars, up>>

\* A file that does not parse ends the server, and nobody answers.
AnswerClose ==
  /\ At({"close"})
  /\ IF file[serving.id].is = "torn"
     THEN up' = FALSE /\ UNCHANGED <<serving, failed, answer, lines>>
     ELSE Reply(serving.id, TRUE) /\ UNCHANGED up
  /\ UNCHANGED vars

Start(j) ==
  /\ Set(Server, j)
  /\ shared' = shared \cup (IF j.at = "truncate" THEN Taken(Server, j.id) ELSE {})
  /\ UNCHANGED <<store, given, kept, failed, answer, lines, up>>

\* Faulty variant: the id is given out and nothing is saved.
PersistNothing(then) == [NoJob EXCEPT !.at = then, !.id = NewId]

\* An empty session, saved under a new id.
PersistEmpty(then) == Saving([NoJob EXCEPT !.id = NewId, !.upd = clock], then)

Stage(name, i) == serving' = [serving EXCEPT !.method = name, !.id = i]

HandleNew ==
  /\ At({"new"})
  /\ Start(PersistEmpty("persisted"))
  /\ Stage("persisted", NewId)

\* The id of the session is known when its save is over.
AnswerNew ==
  /\ up /\ serving.method = "persisted" /\ job[Server].at = "persisted"
  /\ Reply(serving.id, TRUE)
  /\ Done(Server)
  /\ UNCHANGED <<store, given, history, up>>

HandleRemove ==
  /\ At({"remove"})
  /\ Start([NoJob EXCEPT !.at = "remove", !.op = "remove", !.id = serving.id])
  /\ Stage("removed", serving.id)

\* A prompt for no session makes one, even when there is no text to run.
HandlePrompt ==
  /\ At({"prompt", "no text"})
  /\ LET then == IF serving.method = "prompt" THEN "open" ELSE "refuse"
     IN /\ Start(IF serving.id = NoId THEN PersistEmpty(then)
                 ELSE [NoJob EXCEPT !.at = then, !.id = serving.id])
        /\ Stage(IF then = "open" THEN "prompted" ELSE "refused",
              IF serving.id = NoId THEN NewId ELSE serving.id)

AnswerRefused ==
  /\ up /\ serving.method = "refused" /\ job[Server].at = "refuse"
  /\ Reply(serving.id, FALSE)
  /\ Done(Server)
  /\ UNCHANGED <<store, given, history, up>>

\* The job is done: the answer of a prompt or of a removal.
AnswerDone ==
  /\ At({"prompted", "removed"})
  /\ Reply(serving.id, ~failed)
  /\ UNCHANGED <<vars, up>>

\* A step of the job; an agent that cannot load its session fails.
Serve ==
  /\ up /\ Work(Server)
  /\ failed' = (failed \/ (job[Server].at = "open" /\ job'[Server] = NoJob))
  /\ UNCHANGED <<serving, answer, lines, up>>

Crash ==
  /\ up /\ Kill(Server)
  /\ up' = FALSE
  /\ UNCHANGED <<serving, failed, answer, lines>>

Others ==
  /\ \/ Tick
     \/ \E c \in Clients \ {Server} : Work(c) \/ Command(c) \/ Kill(c)
  /\ UNCHANGED acp

\* The ids the server made, and what others did to the files.
Watch ==
  /\ promised' = promised \cup (IF serving # Nothing /\ serving.id = NoId THEN {serving'.id} \ {NoId} ELSE {})
  /\ hurt' = hurt \cup {i \in Ids : /\ file'[i] # file[i]
                                    /\ \/ job'[Server] = job[Server] \/ ~up'
                                       \/ job[Server].op = "remove"}

AcpNext ==
  \/ Read /\ Watch
  \/ AnswerLoad /\ Watch
  \/ AnswerClose /\ Watch
  \/ HandleNew /\ Watch
  \/ AnswerNew /\ Watch
  \/ HandleRemove /\ Watch
  \/ HandlePrompt /\ Watch
  \/ AnswerRefused /\ Watch
  \/ AnswerDone /\ Watch
  \/ Serve /\ Watch
  \/ Crash /\ Watch
  \/ Others /\ Watch

AcpSpec == AcpInit /\ [][AcpNext]_acpVars

-----------------------------------------------------------------------------
(* Properties.                                                             *)

\* A session that the server made or listed can be prompted, as often as one likes,
\* unless another process or a kill got at its file (acp/server.rs:214).
PromptFindsSession == answer.method = "prompted" /\ ~answer.ok => answer.id \in hurt
=============================================================================
