---------------------------- MODULE MCLiveSession ----------------------------
(***************************************************************************)
(* Small instances of LiveSession; frames of a kind are interchangeable.    *)
(***************************************************************************)
EXTENDS LiveSession, TLC

Symmetry == Permutations(Audio) \cup Permutations(Finalizes)

AllEndpoints == {"native", "watson", "openai_realtime", "deepgram_realtime", "deepgram"}

\* The turns of openai_realtime take several events each.
Events == [e \in Endpoints |-> IF e = "openai_realtime" THEN 2 ELSE 1]
=============================================================================
