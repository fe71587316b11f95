----------------------------- MODULE AtomicStore -----------------------------
(***************************************************************************)
(* What a store promises to the code that saves through it: a file holds   *)
(* the updates of every save that was committed, and a save adds one       *)
(* update to what is there, at once or not at all.                         *)
(***************************************************************************)
CONSTANTS Updates,   \* updates that saves make
          NoValue    \* there is no file

VARIABLE value       \* the updates that the file holds, or NoValue

Held == IF value = NoValue THEN {} ELSE value

Init == value = NoValue

Add(u) == value' = Held \cup {u}

Delete == value' = NoValue

Next == Delete \/ \E u \in Updates : Add(u)

Spec == Init /\ [][Next]_value
=============================================================================
