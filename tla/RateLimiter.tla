----------------------------- MODULE RateLimiter -----------------------------
(***************************************************************************)
(* The sliding-window rate limiter (internal/middleware/ratelimit.go) as    *)
(* seen by one user of a limited tier: windows of different users share     *)
(* nothing but the lock of the map.  A request looks its window up, counts   *)
(* what is in it, and adds itself, under a lock each time but not across    *)
(* them; the cleanup goroutine removes windows in between.                  *)
(***************************************************************************)
EXTENDS Integers, FiniteSets

CONSTANTS
    Requests,    \* requests of the user
    Windows,     \* window objects that may be created
    NoWindow,    \* the map has no window for the user
    Limit,       \* requests per interval for the user's tier, not 0
    Interval,    \* length of the interval, in ticks
    Period,      \* ticks between two rounds of cleanup (5 intervals)
    MaxInFlight, \* requests of the user inside the middleware at one time
    MaxTime      \* bound on the clock

ASSUME LimiterAssumption ==
    /\ NoWindow \notin Windows
    /\ {Limit, Interval, Period, MaxInFlight} \subseteq Nat \ {0}
    /\ Period >= Interval
    /\ MaxTime \in Nat
    /\ IsFiniteSet(Requests)

VARIABLES
    now,     \* the clock
    swept,   \* time of the last round of cleanup
    window,  \* the user's entry in rl.windows
    stamps,  \* per window object: the requests that added a timestamp to it
    req,     \* per request: its step, the window it holds, its time; and since when
             \* it holds it (no state of the code's)
    caught   \* history variable: the requests inside at the last round of cleanup

vars == <<now, swept, window, stamps, req, caught>>

Steps == {"new", "held", "timed", "counted", "admitted", "refused"}

\* Windows hold stamps of the past and requests are at one of their steps.
TypeOK ==
    /\ now \in 0..MaxTime
    /\ swept \in 0..now
    /\ window \in Windows \cup {NoWindow}
    /\ stamps \in [Windows -> SUBSET Requests]
    /\ req \in [Requests -> [pc : Steps, win : Windows \cup {NoWindow}, since : 0..now,
                             at : 0..now]]
    /\ caught \subseteq Requests

Init ==
    /\ now = 0
    /\ swept = 0
    /\ window = NoWindow
    /\ stamps = [w \in Windows |-> {}]
    /\ req = [q \in Requests |-> [pc |-> "new", win |-> NoWindow, since |-> 0, at |-> 0]]
    /\ caught = {}

InFlight == {q \in Requests : req[q].pc \in {"held", "timed", "counted"}}

\* t.After(now - interval)
Fresh(q, time, age) == req[q].at > time - age

\* An object nobody has used: the map never had it.
Unused(w) == w # window /\ \A q \in Requests : req[q].win # w

-----------------------------------------------------------------------------
\* getWindow: the double check makes lookup and creation one step.
GetWindow(q) ==
    /\ req[q].pc = "new"
    /\ Cardinality(InFlight) < MaxInFlight
    /\ \E w \in Windows :
          /\ IF window = NoWindow THEN Unused(w) ELSE w = window
          /\ window' = w
          /\ req' = [req EXCEPT ![q].pc = "held", ![q].win = w, ![q].since = now]
    /\ UNCHANGED <<now, swept, stamps, caught>>

\* time.Now(), read before the lock is taken.
ReadClock(q) ==
    /\ req[q].pc = "held"
    /\ req' = [req EXCEPT ![q].pc = "timed", ![q].at = now]
    /\ UNCHANGED <<now, swept, window, stamps, caught>>

\* Mutant: the limit itself is still let through.
CountOffByOne(q) ==
    /\ req[q].pc = "timed"
    /\ LET count == Cardinality({p \in stamps[req[q].win] : Fresh(p, req[q].at, Interval)})
       IN  req' = [req EXCEPT ![q].pc = IF count > Limit THEN "refused" ELSE "counted"]
    /\ UNCHANGED <<now, swept, window, stamps, caught>>

\* count, on the window held; the request is refused at the limit.
Count(q) ==
    /\ req[q].pc = "timed"
    /\ LET count == Cardinality({p \in stamps[req[q].win] : Fresh(p, req[q].at, Interval)})
       IN  req' = [req EXCEPT ![q].pc = IF count >= Limit THEN "refused" ELSE "counted"]
    /\ UNCHANGED <<now, swept, window, stamps, caught>>

\* add, with the time read before counting.
Add(q) ==
    /\ req[q].pc = "counted"
    /\ stamps' = [stamps EXCEPT ![req[q].win] = @ \cup {q}]
    /\ req' = [req EXCEPT ![q].pc = "admitted"]
    /\ UNCHANGED <<now, swept, window, caught>>

\* One round of cleanup: old timestamps go, and so does a window left empty.
Cleanup ==
    /\ now >= swept + Period
    /\ swept' = now /\ caught' = InFlight
    /\ \/ window = NoWindow /\ UNCHANGED <<window, stamps>>
       \/ /\ window # NoWindow
          /\ LET fresh == {p \in stamps[window] : Fresh(p, now, 2 * Interval)} IN
             /\ stamps' = [stamps EXCEPT ![window] = fresh]
             /\ window' = IF fresh = {} THEN NoWindow ELSE window
    /\ UNCHANGED <<now, req>>

Tick ==
    /\ now < MaxTime
    /\ now' = now + 1
    /\ UNCHANGED <<swept, window, stamps, req, caught>>

Next == (\E q \in Requests : GetWindow(q) \/ ReadClock(q) \/ Count(q) \/ Add(q)) \/ Cleanup \/ Tick

Spec == Init /\ [][Next]_vars

-----------------------------------------------------------------------------
(* Properties                                                              *)

Admitted(time) == {q \in Requests : req[q].pc = "admitted" /\ Fresh(q, time, Interval)}

\* What races cost the limiter: beyond the limit, one interval admits at most the
\* requests that were counted before the first of them was added, those that held a
\* window when it was removed, and those that have held, since before the interval, a
\* window removed in an earlier round.
OverrunBounded == Cardinality(Admitted(now)) <= Limit + 3 * MaxInFlight - 1

-----------------------------------------------------------------------------
(* What the type's comment says of it                                       *)

\* ratelimit.go and docs/api.md: a sliding window of Limit requests per interval.
AtMostLimit == Cardinality(Admitted(now)) <= Limit
=============================================================================
