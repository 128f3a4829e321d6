---------------------------- MODULE MCStreamRoute ----------------------------
(***************************************************************************)
(* Small instances of StreamRoute.  Frames are interchangeable (they carry  *)
(* no number), and so are watchdogs and the messages of each kind.          *)
(***************************************************************************)
EXTENDS StreamRoute, TLC

Symmetry == Permutations(Frames) 
=============================================================================
