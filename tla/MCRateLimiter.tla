---------------------------- MODULE MCRateLimiter ----------------------------
(***************************************************************************)
(* Small instances of RateLimiter: requests are interchangeable, and so are *)
(* window objects.                                                         *)
(***************************************************************************)
EXTENDS RateLimiter, TLC

Symmetry == Permutations(Requests) \cup Permutations(Windows)

(***************************************************************************)
(* With many requests, numbering them as they arrive is the cheaper way to *)
(* leave out behaviours that differ only in the names of requests.         *)
(***************************************************************************)
WindowSymmetry == Permutations(Windows)

Arrives(q) == req[q].pc = "new" /\ req'[q].pc # "new"

InTurn ==
    \A q \in Requests : Arrives(q) => \A p \in Requests : p < q => req[p].pc # "new"

NumberedSpec == Init /\ [][Next /\ InTurn]_vars
=============================================================================
