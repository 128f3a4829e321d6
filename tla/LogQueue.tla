------------------------------ MODULE LogQueue ------------------------------
(***************************************************************************)
(* What the log manager promises to the rest of the server: a bounded      *)
(* queue that keeps order, may refuse an entry, and on close delivers       *)
(* everything it had accepted by then, and nothing more once closed.        *)
(***************************************************************************)
EXTENDS Naturals, Sequences

CONSTANTS Entries, Capacity

VARIABLES
    accepted,  \* entries taken, in order
    shipped,   \* how many of them have been dealt with
    phase,     \* "open", "closing", "closed"
    due        \* how many have to be dealt with before the queue is closed

vars == <<accepted, shipped, phase, due>>

Init == accepted = <<>> /\ shipped = 0 /\ phase = "open" /\ due = 0

\* One entry is being dealt with while Capacity others wait.
Accept(e) ==
    /\ Len(accepted) - shipped <= Capacity
    /\ accepted' = Append(accepted, e)
    /\ UNCHANGED <<shipped, phase, due>>

Ship ==
    /\ phase # "closed"
    /\ shipped < Len(accepted)
    /\ shipped' = shipped + 1
    /\ UNCHANGED <<accepted, phase, due>>

BeginClose ==
    /\ phase = "open"
    /\ phase' = "closing"
    /\ due' = Len(accepted)
    /\ UNCHANGED <<accepted, shipped>>

EndClose ==
    /\ phase = "closing"
    /\ shipped >= due
    /\ phase' = "closed"
    /\ UNCHANGED <<accepted, shipped, due>>

Next == (\E e \in Entries : Accept(e)) \/ Ship \/ BeginClose \/ EndClose

Spec == Init /\ [][Next]_vars
=============================================================================
