-------------------------- MODULE MCSubagentLedger --------------------------
(* What is kept of children for others: the ledger of a session, small      *)
(* enough to evict (SubagentLedger), and what a child may do (Admission).   *)
(* While one component runs, the other rests in its initial state.          *)
EXTENDS SubagentLedger, TLC

CONSTANTS parentModel, root, r1, r2, p1, p2, w1, c1, c2

Symmetry == Permutations({r1, r2}) \cup Permutations({p1, p2})

CONSTANTS Born, Tools, Builtin, Delegate, BadName, Modes, Odd, Yolo, MaxDepth, NoRecord, NoAdmission
VARIABLES record, stack, granted
admission == <<record, stack, granted>>
A == INSTANCE Admission WITH Children <- Born

ASSUME A!AdmissionAssumption

MCInit == Init /\ A!Init
MCNext == \/ A!Init /\ Next /\ UNCHANGED admission
          \/ Init /\ A!Next /\ UNCHANGED vars

all == <<vars, admission>>
MCSpec == MCInit /\ [][MCNext]_all

HeldToAdmission == A!HeldToAdmission
=============================================================================
