---------------------------- MODULE MCS2SSession ----------------------------
(***************************************************************************)
(* Small instances of S2SSession for TLC.                                  *)
(***************************************************************************)
EXTENDS S2SSession, TLC

\* Responses are only compared for equality, so they may be permuted.
Symmetry == Permutations(Responses)
=============================================================================
