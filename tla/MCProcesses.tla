---------------------------- MODULE MCProcesses ----------------------------
(* What runs outside fxrs: jobs in the background (Background), sessions on *)
(* a terminal (Terminal) and a human at one of them (Takeover), commands    *)
(* that are run to their end (Commands), and what the executor shows of     *)
(* their output (Projection).  One component runs at a time.                *)
EXTENDS Background, Sequences, TLC

CONSTANTS j1, j2, c1, c2, p1, p2, i1, i2

-----------------------------------------------------------------------------
(* Two processes and two sessions.                                          *)
CONSTANTS Procs, Ids, Nobody, NoCode, Alone
VARIABLES child, code, printed, seen, handles, host, started, up, file, command, stopped, reported
terminals == <<child, code, printed, seen, handles, host, started, up, file, command, stopped, reported>>
T == INSTANCE Terminal WITH cmd <- command

-----------------------------------------------------------------------------
(* Every command that writes as much as the pipe holds, and more.           *)
CONSTANTS Routes, PipeCap, MaxOut
VARIABLES route, process, endless, left, pipe, got, at, outcome, output
commands == <<route, process, endless, left, pipe, got, at, outcome, output>>
C == INSTANCE Commands

-----------------------------------------------------------------------------
(* The marks of a paste have two bytes; more than twice that is typed.      *)
CONSTANTS Keys, PasteBegin, PasteEnd, MaxWrite, MaxKeys
VARIABLES phase, reason, parser, input, help, owner, attempts, surface, typed, written
takeover == <<phase, reason, parser, input, help, owner, attempts, surface, typed, written>>
K == INSTANCE Takeover

BeginVal == <<"esc", "0">>
EndVal == <<"esc", "1">>

-----------------------------------------------------------------------------
(* Every output of up to four bytes, in every kind of pieces.               *)
CONSTANTS RawOutputs, ReadChunk
VARIABLES raw, rest, projector, stage
projection == <<raw, rest, projector, stage>>
P == INSTANCE Projection

RawVal == UNION {[1 .. n -> {"a", "k", "2", "3", "C", "c", "x"}] : n \in 1 .. 4}

ASSUME ProcessesAssumption ==
  /\ T!TerminalAssumption /\ C!CommandAssumption
  /\ K!TakeoverAssumption /\ P!ProjectionAssumption

-----------------------------------------------------------------------------
Symmetry == Permutations(Clients)

VARIABLE part   \* the component that runs

CommandsIdle ==
  /\ route = "direct" /\ process = [w \in {"shell", "helper"} |-> IF w = "shell" THEN "running" ELSE "none"]
  /\ endless = {} /\ left = [w \in {"shell", "helper"} |-> 0] /\ C!Init
TakeoverIdle == owner = "none" /\ K!Init
ProjectionIdle == raw = <<"a">> /\ P!Init

MCInit ==
  /\ Init /\ T!Init
  /\ \/ part \in {"background", "terminal"} /\ CommandsIdle /\ TakeoverIdle /\ ProjectionIdle
     \/ part = "commands" /\ C!Init /\ TakeoverIdle /\ ProjectionIdle
     \/ part = "takeover" /\ CommandsIdle /\ K!Init /\ ProjectionIdle
     \/ part = "projection" /\ CommandsIdle /\ TakeoverIdle /\ P!Init

MCNext ==
  /\ UNCHANGED part
  /\ \/ part = "background" /\ Next /\ UNCHANGED <<terminals, commands, takeover, projection>>
     \/ part = "terminal" /\ T!Next /\ UNCHANGED <<vars, commands, takeover, projection>>
     \/ part = "commands" /\ C!Next /\ UNCHANGED <<vars, terminals, takeover, projection>>
     \/ part = "takeover" /\ K!Next /\ UNCHANGED <<vars, terminals, commands, projection>>
     \/ part = "projection" /\ P!Next /\ UNCHANGED <<vars, terminals, commands, takeover>>

all == <<part, vars, terminals, commands, takeover, projection>>
MCSpec == MCInit /\ [][MCNext]_all

LostIsGone == T!LostIsGone
FinalIsFinal == T!FinalIsFinal
ExitMeansWhole == C!ExitMeansWhole
TimeoutMeansBusy == C!TimeoutMeansBusy
SessionGetsItsKeys == K!SessionGetsItsKeys
ProjectedHoweverCut == P!ProjectedHoweverCut
=============================================================================
