------------------------------ MODULE StreamWire ------------------------------
(***************************************************************************)
(* What a client of the speech sidecar's buffered streaming recognizer sees  *)
(* of StreamRoute: the events it is sent, and what they promise it.           *)
(***************************************************************************)
EXTENDS Integers, Sequences

VARIABLE wire \* events sent to the client

\* The finals that reach the client cover successive stretches of the stream:
\* no audio is transcribed into two of them, and none goes back in time.
FinalsInOrder ==
    \A i, j \in 1..Len(wire) :
        i < j /\ wire[i].kind = "final" /\ wire[j].kind = "final" =>
            wire[i].to <= wire[j].from

\* scheduleEndpointWatchdog: it does nothing if the endpoint was already
\* consumed; so one speech end ends one utterance.
EndpointConsumedOnce ==
    \A i, j \in 1..Len(wire) :
        /\ wire[i].kind = "utterance_end" /\ wire[j].kind = "utterance_end"
        /\ wire[i].from = wire[j].from
        => i = j
=============================================================================
