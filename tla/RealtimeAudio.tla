---------------------------- MODULE RealtimeAudio ----------------------------
(***************************************************************************)
(* The way of a client's audio in RealtimeStream: frames wait in a queue     *)
(* while the models load, and end in the engine, which is external.           *)
(***************************************************************************)
EXTENDS Naturals, Sequences, SequencesExt

VARIABLES
    pending, \* frames kept until the engine is ready
    engine   \* the audio it was given, and whether it was finished and released

\* However the tasks of frames and the loader interleave, the engine is given the
\* audio of a frame at most once, and none that is still queued for it.
HeardOnce ==
    /\ IsInjective(pending) /\ IsInjective(engine.heard)
    /\ Range(engine.heard) \cap Range(pending) = {}

\* The same, in the order it came in.
HeardInOrder == \A i, j \in DOMAIN engine.heard : i < j => engine.heard[i] < engine.heard[j]
=============================================================================
