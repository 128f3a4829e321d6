------------------------------- MODULE MCVoices -------------------------------
(***************************************************************************)
(* Small instances of VoiceStorage, and every request of Speech.  The two run *)
(* apart: where there is a request for speech, the storage is at rest.        *)
(***************************************************************************)
EXTENDS VoiceStorage, TLC

VARIABLES ask, engines, default, ffmpeg, stage, call, said, heard, answers

svars == <<ask, engines, default, ffmpeg, stage, call, said, heard, answers>>

SP == INSTANCE Speech WITH pc <- stage

Symmetry == Permutations(Nodes) \cup Permutations(Requests) \cup Permutations(Names)
              \cup Permutations(Voices \ {Legacy})

AtRest ==
    /\ rows = [v \in Voices |-> [state |-> "absent", name |-> None, blob |-> None]]
    /\ disk = [n \in Nodes |-> [v \in Voices |-> None]]
    /\ op = [r \in Requests |-> Over]
    /\ sync = [n \in Nodes |-> [Booting EXCEPT !.pc = "done"]]
    /\ boots = MaxBoots /\ asked = {} /\ spoilt = {}

\* Of the requests yet to come and the nodes that come up at first there are two: two
\* requests, which meet the pass of a node that restarts; one, and a pass that meets
\* another; or the passes of two nodes, and one more.
Two ==
    Cardinality({r \in Requests : op[r] = New})
      + Cardinality({n \in Nodes : sync[n] = Booting}) = 2

MCInit == (Init /\ Two /\ SP!Quiet) \/ (AtRest /\ SP!Init)

MCNext == (Next /\ UNCHANGED svars) \/ (SP!Next /\ UNCHANGED vars)

MCSpec == MCInit /\ [][MCNext]_<<vars, svars>>

VoiceHonoured == SP!VoiceHonoured
=============================================================================
