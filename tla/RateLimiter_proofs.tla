------------------------- MODULE RateLimiter_proofs -------------------------
(***************************************************************************)
(* Proofs about RateLimiter, for any number of requests, limit, interval and *)
(* period of the cleanup: its types, and by how much the limit is overrun.   *)
(***************************************************************************)
EXTENDS RateLimiter, TLAPS, FiniteSetTheorems

Inside(q) == req[q].pc \in {"held", "timed", "counted"}

\* Who is not new holds a window, of those there are.
HeldInv == \A q \in Requests : req[q].pc # "new" <=> req[q].win \in Windows

\* A stamp is kept for two intervals.
StampInv ==
    \A q \in Requests : req[q].pc = "admitted" /\ Fresh(q, now, 2 * Interval) =>
                           q \in stamps[req[q].win]

\* Those with a place in the current window, or about to have one.
Entitled ==
    {q \in Requests : /\ req[q].win = window /\ req[q].pc \in {"counted", "admitted"}
                      /\ Fresh(q, now, Interval)}

EntitledInv == Cardinality(Entitled) <= Limit + MaxInFlight - 1

\* Those that were inside at the end of an instant, as long as they are, and those that
\* have read the clock since.
Across(time) ==
    {q \in Requests : /\ req[q].pc # "new" /\ req[q].since <= time
                      /\ Inside(q) \/ (req[q].pc = "admitted" /\ req[q].at > time)}

InsideInv ==
    /\ Cardinality(InFlight) <= MaxInFlight
    /\ Cardinality(caught) <= MaxInFlight
    /\ \A time \in 0..(now - 1) : Cardinality(Across(time)) <= MaxInFlight

\* Who holds a window that was removed either was inside when the last round of cleanup
\* removed it, or has held it since an earlier round, or has left long ago.
CaughtInv == \A q \in caught : req[q].pc # "new" /\ req[q].since <= swept

RemovedInv ==
    \A q \in Requests : req[q].win \in Windows /\ req[q].win # window =>
        \/ q \in caught
        \/ req[q].since <= swept - Period
        \/ req[q].pc = "refused"
        \/ req[q].pc = "admitted" /\ req[q].at <= swept - 2 * Interval

IInv == TypeOK /\ HeldInv /\ StampInv /\ EntitledInv /\ InsideInv /\ CaughtInv /\ RemovedInv

-----------------------------------------------------------------------------
(* Sets of requests                                                         *)

LEMMA ConstantsTyped ==
    ASSUME LimiterAssumption
    PROVE  /\ Limit \in Nat /\ Interval \in Nat /\ Period \in Nat /\ MaxInFlight \in Nat
           /\ Limit > 0 /\ Interval > 0 /\ Period >= Interval /\ MaxInFlight > 0 /\ MaxTime \in Nat
BY DEF LimiterAssumption

\* Sets of requests are finite, and the larger ones have more members.
LEMMA Subsets ==
    ASSUME LimiterAssumption, NEW S \in SUBSET Requests, NEW T \in SUBSET S
    PROVE  Cardinality(S) \in Nat /\ Cardinality(T) \in Nat /\ Cardinality(T) <= Cardinality(S)
<1>1. IsFiniteSet(S)
  BY FS_Subset DEF LimiterAssumption
<1>2. IsFiniteSet(T)
  BY <1>1, FS_Subset
<1> QED
  BY <1>1, <1>2, FS_Subset, FS_CardinalityType

\* What is within two sets has no more members than they have together.
LEMMA Covered ==
    ASSUME LimiterAssumption, NEW S \in SUBSET Requests, NEW T \in SUBSET Requests,
           NEW U \in SUBSET (S \cup T)
    PROVE  Cardinality(U) <= Cardinality(S) + Cardinality(T)
<1>1. IsFiniteSet(S) /\ IsFiniteSet(T)
  BY FS_Subset DEF LimiterAssumption
<1>2. /\ IsFiniteSet(S \cup T)
      /\ Cardinality(S \cup T) = Cardinality(S) + Cardinality(T) - Cardinality(S \cap T)
  BY <1>1, FS_Union
<1>3. IsFiniteSet(S \cap T)
  BY <1>1, FS_Intersection
<1>4. /\ Cardinality(S) \in Nat /\ Cardinality(T) \in Nat /\ Cardinality(S \cap T) \in Nat
      /\ Cardinality(S \cup T) \in Nat
  BY <1>1, <1>2, <1>3, FS_CardinalityType
<1>5. IsFiniteSet(U) /\ Cardinality(U) <= Cardinality(S \cup T)
  BY <1>2, FS_Subset
<1>6. Cardinality(U) \in Nat
  BY <1>5, FS_CardinalityType
<1> QED
  BY <1>2, <1>4, <1>5, <1>6

-----------------------------------------------------------------------------
(* What one request does                                                    *)

\* One step of q: to pc, in the window win, with its times.
Step(q, pc, win, since, at) ==
    /\ req' \in [Requests -> [pc : Steps, win : Windows \cup {NoWindow}, since : 0..now, at : 0..now]]
    /\ \A p \in Requests : p # q => req'[p] = req[p]
    /\ req'[q].pc = pc /\ req'[q].win = win /\ req'[q].since = since /\ req'[q].at = at
    /\ now' = now /\ swept' = swept /\ caught' = caught

LEMMA RequestSteps ==
    ASSUME LimiterAssumption, TypeOK, NEW q \in Requests
    PROVE  /\ GetWindow(q) =>
                /\ req[q].pc = "new" /\ Cardinality(InFlight) < MaxInFlight
                /\ window' \in Windows /\ stamps' = stamps
                /\ IF window = NoWindow THEN Unused(window') ELSE window' = window
                /\ Step(q, "held", window', now, req[q].at)
           /\ ReadClock(q) =>
                /\ req[q].pc = "held" /\ window' = window /\ stamps' = stamps
                /\ Step(q, "timed", req[q].win, req[q].since, now)
           /\ Count(q) =>
                /\ req[q].pc = "timed" /\ window' = window /\ stamps' = stamps
                /\ \/ Step(q, "refused", req[q].win, req[q].since, req[q].at)
                   \/ /\ Step(q, "counted", req[q].win, req[q].since, req[q].at)
                      /\ ~(Cardinality({p \in stamps[req[q].win] : Fresh(p, req[q].at, Interval)}) >= Limit)
           /\ Add(q) =>
                /\ req[q].pc = "counted" /\ window' = window
                /\ Step(q, "admitted", req[q].win, req[q].since, req[q].at)
                /\ stamps' = [stamps EXCEPT ![req[q].win] = @ \cup {q}]
<1> USE DEF Step
<1>0. now \in Nat /\ now \in 0..now /\ Steps = {"new", "held", "timed", "counted", "admitted", "refused"}
  BY ConstantsTyped DEF TypeOK, Steps
<1>1. GetWindow(q) =>
        /\ req[q].pc = "new" /\ Cardinality(InFlight) < MaxInFlight
        /\ window' \in Windows /\ stamps' = stamps
        /\ IF window = NoWindow THEN Unused(window') ELSE window' = window
        /\ Step(q, "held", window', now, req[q].at)
  <2> SUFFICES ASSUME GetWindow(q)
               PROVE  /\ req[q].pc = "new" /\ Cardinality(InFlight) < MaxInFlight
                      /\ window' \in Windows /\ stamps' = stamps
                      /\ IF window = NoWindow THEN Unused(window') ELSE window' = window
                      /\ Step(q, "held", window', now, req[q].at)
    OBVIOUS
  <2> DEFINE r == [[[req[q] EXCEPT !.pc = "held"] EXCEPT !.win = window'] EXCEPT !.since = now]
  <2>1. /\ req[q].pc = "new" /\ Cardinality(InFlight) < MaxInFlight
        /\ window' \in Windows /\ UNCHANGED <<now, swept, stamps, caught>>
        /\ IF window = NoWindow THEN Unused(window') ELSE window' = window
    BY DEF GetWindow
  <2>2. req' = [req EXCEPT ![q] = r]
    BY DEF GetWindow, TypeOK
  <2>3. /\ r \in [pc : Steps, win : Windows \cup {NoWindow}, since : 0..now, at : 0..now]
        /\ r.pc = "held" /\ r.win = window' /\ r.since = now /\ r.at = req[q].at
    BY <1>0, <2>1 DEF TypeOK
  <2> HIDE DEF r
  <2> QED
    BY <2>1, <2>2, <2>3 DEF TypeOK
<1>2. ReadClock(q) =>
        /\ req[q].pc = "held" /\ window' = window /\ stamps' = stamps
        /\ Step(q, "timed", req[q].win, req[q].since, now)
  <2> SUFFICES ASSUME ReadClock(q)
               PROVE  /\ req[q].pc = "held" /\ window' = window /\ stamps' = stamps
                      /\ Step(q, "timed", req[q].win, req[q].since, now)
    OBVIOUS
  <2> DEFINE r == [[req[q] EXCEPT !.pc = "timed"] EXCEPT !.at = now]
  <2>1. req[q].pc = "held" /\ UNCHANGED <<now, swept, window, stamps, caught>>
    BY DEF ReadClock
  <2>2. req' = [req EXCEPT ![q] = r]
    BY DEF ReadClock, TypeOK
  <2>3. /\ r \in [pc : Steps, win : Windows \cup {NoWindow}, since : 0..now, at : 0..now]
        /\ r.pc = "timed" /\ r.win = req[q].win /\ r.since = req[q].since /\ r.at = now
    BY <1>0 DEF TypeOK
  <2> HIDE DEF r
  <2> QED
    BY <2>1, <2>2, <2>3 DEF TypeOK
<1>3. Count(q) =>
        /\ req[q].pc = "timed" /\ window' = window /\ stamps' = stamps
        /\ \/ Step(q, "refused", req[q].win, req[q].since, req[q].at)
           \/ /\ Step(q, "counted", req[q].win, req[q].since, req[q].at)
              /\ ~(Cardinality({p \in stamps[req[q].win] : Fresh(p, req[q].at, Interval)}) >= Limit)
  <2> DEFINE full == Cardinality({p \in stamps[req[q].win] : Fresh(p, req[q].at, Interval)}) >= Limit
  <2>1. Count(q) => /\ req[q].pc = "timed" /\ UNCHANGED <<now, swept, window, stamps, caught>>
                    /\ req' = [req EXCEPT ![q].pc = IF full THEN "refused" ELSE "counted"]
    BY DEF Count
  <2> HIDE DEF full
  <2> SUFFICES ASSUME Count(q)
               PROVE  /\ req[q].pc = "timed" /\ window' = window /\ stamps' = stamps
                      /\ \/ Step(q, "refused", req[q].win, req[q].since, req[q].at)
                         \/ /\ Step(q, "counted", req[q].win, req[q].since, req[q].at)
                            /\ ~full
    BY DEF full
  <2>2. CASE full
    BY <1>0, <2>1, <2>2 DEF TypeOK
  <2>3. CASE ~full
    BY <1>0, <2>1, <2>3 DEF TypeOK
  <2> QED
    BY <2>2, <2>3
<1>4. Add(q) =>
        /\ req[q].pc = "counted" /\ window' = window
        /\ Step(q, "admitted", req[q].win, req[q].since, req[q].at)
        /\ stamps' = [stamps EXCEPT ![req[q].win] = @ \cup {q}]
  <2> SUFFICES ASSUME Add(q)
               PROVE  /\ req[q].pc = "counted" /\ window' = window
                      /\ Step(q, "admitted", req[q].win, req[q].since, req[q].at)
                      /\ stamps' = [stamps EXCEPT ![req[q].win] = @ \cup {q}]
    OBVIOUS
  <2>1. req[q].pc = "counted" /\ window' = window
    BY DEF Add
  <2>2. stamps' = [stamps EXCEPT ![req[q].win] = @ \cup {q}]
    BY DEF Add
  <2>3. Step(q, "admitted", req[q].win, req[q].since, req[q].at)
    BY <1>0 DEF Add, TypeOK
  <2> QED
    BY <2>1, <2>2, <2>3 DEF Step
<1> HIDE DEF Step
<1> QED
  BY <1>1, <1>2, <1>3, <1>4

\* The parts that all steps of requests keep alike.
LEMMA StepKeeps ==
    ASSUME LimiterAssumption, IInv, NEW q \in Requests, NEW pc, NEW win, NEW since, NEW at,
           Step(q, pc, win, since, at), pc \in {"held", "timed", "counted", "refused", "admitted"},
           win \in Windows, window' \in Windows \cup {NoWindow},
           \/ req[q].pc = "new" /\ pc = "held" /\ since = now /\ Cardinality(InFlight) < MaxInFlight
           \/ Inside(q) /\ since = req[q].since
    PROVE  HeldInv' /\ InsideInv' /\ CaughtInv'
<1> USE DEF Step
<1>0. now \in Nat /\ swept \in Nat /\ swept <= now /\ NoWindow \notin Windows
  BY ConstantsTyped DEF IInv, TypeOK, LimiterAssumption
<1>1. HeldInv'
  BY <1>0 DEF IInv, HeldInv
<1>2. CaughtInv'
  BY <1>0 DEF IInv, CaughtInv, Inside, TypeOK
<1>3. Cardinality(InFlight') <= MaxInFlight
  <2>1. CASE req[q].pc = "new"
    <3>1. InFlight' \in SUBSET (InFlight \cup {q}) /\ InFlight \in SUBSET Requests
      BY DEF InFlight, Inside
    <3>2. IsFiniteSet(InFlight)
      BY <3>1, FS_Subset DEF LimiterAssumption
    <3>3. Cardinality(InFlight \cup {q}) <= Cardinality(InFlight) + 1 /\ Cardinality(InFlight) \in Nat
      <4>1. Cardinality(InFlight) \in Nat
        BY <3>2, FS_CardinalityType
      <4>2. Cardinality(InFlight \cup {q}) =
              IF q \in InFlight THEN Cardinality(InFlight) ELSE Cardinality(InFlight) + 1
        BY <3>2, FS_AddElement, Zenon
      <4> QED
        BY <4>1, <4>2
    <3>4. /\ Cardinality(InFlight') <= Cardinality(InFlight \cup {q})
          /\ Cardinality(InFlight') \in Nat /\ Cardinality(InFlight \cup {q}) \in Nat
      BY <3>1, Subsets
    <3>5. Cardinality(InFlight) < MaxInFlight
      BY <2>1 DEF Inside
    <3> QED
      BY <3>3, <3>4, <3>5, ConstantsTyped
  <2>2. CASE Inside(q)
    <3>1. InFlight' \in SUBSET InFlight /\ InFlight \in SUBSET Requests
      BY <2>2 DEF InFlight, Inside
    <3> QED
      BY <3>1, Subsets, ConstantsTyped DEF IInv, InsideInv
  <2> QED
    BY <2>1, <2>2
<1>4. ASSUME NEW time \in 0..(now - 1)
      PROVE  Cardinality(Across(time)') <= MaxInFlight
  <2>1. Across(time)' \in SUBSET Across(time) /\ Across(time) \in SUBSET Requests
    <3>1. ASSUME NEW p \in Across(time)'
          PROVE  p \in Across(time)
      <4>1. /\ p \in Requests /\ req'[p].pc # "new" /\ req'[p].since <= time
            /\ Inside(p)' \/ (req'[p].pc = "admitted" /\ req'[p].at > time)
        BY <3>1 DEF Across
      <4>2. CASE p = q
        <5>1. ~(now <= time)
          BY <1>0, <1>4
        <5>2. Inside(q) /\ since = req[q].since
          BY <4>1, <4>2, <5>1
        <5> QED
          BY <4>1, <4>2, <5>2 DEF Across, Inside
      <4>3. CASE p # q
        BY <4>1, <4>3 DEF Across, Inside
      <4> QED
        BY <4>2, <4>3
    <3> QED
      BY <3>1 DEF Across
  <2>2. Cardinality(Across(time)) <= MaxInFlight
    BY <1>4 DEF IInv, InsideInv
  <2> QED
    BY <2>1, <2>2, Subsets, ConstantsTyped
<1>5. InsideInv'
  BY <1>3, <1>4 DEF InsideInv, IInv
<1> QED
  BY <1>1, <1>2, <1>5

\* A set that only loses members keeps its bound.
LEMMA EntitledShrinks ==
    ASSUME LimiterAssumption, IInv, Entitled' \subseteq Entitled
    PROVE  EntitledInv'
<1>1. Entitled \in SUBSET Requests /\ Entitled' \in SUBSET Entitled
  BY DEF Entitled
<1>2. Cardinality(Entitled') <= Cardinality(Entitled) /\ Cardinality(Entitled') \in Nat
      /\ Cardinality(Entitled) \in Nat
  BY <1>1, Subsets
<1> QED
  BY <1>2, ConstantsTyped DEF IInv, EntitledInv

LEMMA GetWindowKeeps ==
    ASSUME LimiterAssumption, IInv, NEW q \in Requests, GetWindow(q)
    PROVE  IInv'
<1>1. /\ req[q].pc = "new" /\ Cardinality(InFlight) < MaxInFlight
      /\ window' \in Windows /\ stamps' = stamps
      /\ IF window = NoWindow THEN Unused(window') ELSE window' = window
      /\ Step(q, "held", window', now, req[q].at)
  BY RequestSteps DEF IInv
<1>0. now \in Nat /\ swept \in Nat /\ swept <= now /\ NoWindow \notin Windows
  BY ConstantsTyped DEF IInv, TypeOK, LimiterAssumption
<1>2. TypeOK'
  BY <1>1 DEF Step, IInv, TypeOK
<1>3. HeldInv' /\ InsideInv' /\ CaughtInv'
  BY <1>1, StepKeeps
<1>4. StampInv'
  BY <1>1 DEF Step, IInv, StampInv, Fresh
<1>5. \A p \in Requests : p # q => req[p].win # window' \/ window' = window
  BY <1>1 DEF Unused
<1>6. EntitledInv'
  <2>1. Entitled' \subseteq Entitled
    BY <1>1, <1>5 DEF Step, Entitled, Fresh
  <2> QED
    BY <2>1, EntitledShrinks
<1>7. RemovedInv'
  BY <1>0, <1>1, <1>5 DEF Step, IInv, RemovedInv, HeldInv
<1> QED
  BY <1>2, <1>3, <1>4, <1>6, <1>7 DEF IInv

LEMMA ReadClockKeeps ==
    ASSUME LimiterAssumption, IInv, NEW q \in Requests, ReadClock(q)
    PROVE  IInv'
<1>1. /\ req[q].pc = "held" /\ window' = window /\ stamps' = stamps
      /\ Step(q, "timed", req[q].win, req[q].since, now)
  BY RequestSteps DEF IInv
<1>2. TypeOK'
  BY <1>1 DEF Step, IInv, TypeOK
<1>3. HeldInv' /\ InsideInv' /\ CaughtInv'
  <2>1. req[q].win \in Windows /\ Inside(q) /\ window' \in Windows \cup {NoWindow}
    BY <1>1 DEF IInv, HeldInv, Inside, TypeOK
  <2> QED
    BY <1>1, <2>1, StepKeeps
<1>4. StampInv'
  BY <1>1 DEF Step, IInv, StampInv, Fresh
<1>5. EntitledInv'
  <2>1. Entitled' \subseteq Entitled
    BY <1>1 DEF Step, Entitled, Fresh
  <2> QED
    BY <2>1, EntitledShrinks
<1>6. RemovedInv'
  BY <1>1 DEF Step, IInv, RemovedInv
<1> QED
  BY <1>2, <1>3, <1>4, <1>5, <1>6 DEF IInv

\* Of those entitled beside q, the admitted ones were counted, and the others are inside.
LEMMA CountKeeps ==
    ASSUME LimiterAssumption, IInv, NEW q \in Requests, Count(q)
    PROVE  IInv'
<1> DEFINE stamped == {p \in stamps[req[q].win] : Fresh(p, req[q].at, Interval)}
<1>1. PICK pc \in {"refused", "counted"} :
      /\ req[q].pc = "timed" /\ window' = window /\ stamps' = stamps
      /\ Step(q, pc, req[q].win, req[q].since, req[q].at)
      /\ pc = "counted" => ~(Cardinality(stamped) >= Limit)
  BY RequestSteps DEF IInv
<1> HIDE DEF stamped
<1>0. now \in Nat /\ req[q].at \in Nat /\ req[q].at <= now /\ req[q].win \in Windows
  BY <1>1, ConstantsTyped DEF IInv, TypeOK, HeldInv
<1>2. TypeOK'
  BY <1>1 DEF Step, IInv, TypeOK
<1>3. HeldInv' /\ InsideInv' /\ CaughtInv'
  <2>1. Inside(q) /\ window' \in Windows \cup {NoWindow}
    BY <1>1 DEF Inside, IInv, TypeOK
  <2> QED
    BY <1>0, <1>1, <2>1, StepKeeps
<1>4. StampInv'
  BY <1>1 DEF Step, IInv, StampInv, Fresh
<1>5. EntitledInv'
  <2>1. CASE pc = "refused" \/ req[q].win # window
    <3>1. Entitled' \subseteq Entitled
      BY <1>1, <2>1 DEF Step, Entitled, Fresh
    <3> QED
      BY <3>1, EntitledShrinks
  <2>2. CASE pc = "counted" /\ req[q].win = window
    <3>1. stamped \in SUBSET Requests /\ InFlight' \in SUBSET Requests
      BY <1>0 DEF stamped, InFlight, IInv, TypeOK
    <3>2. Entitled' \in SUBSET (stamped \cup InFlight')
      <4> SUFFICES ASSUME NEW p \in Entitled', p \notin InFlight'
                   PROVE  p \in stamped
        OBVIOUS
      <4>1. /\ p \in Requests /\ p # q /\ req[p].pc = "admitted" /\ req[p].win = window
            /\ req[p].at > now - Interval
        BY <1>1, <2>2 DEF Step, Entitled, Fresh, InFlight
      <4>2. req[p].at \in Nat
        BY <4>1 DEF IInv, TypeOK
      <4>3. p \in stamps[window]
        BY <1>0, <4>1, <4>2, ConstantsTyped DEF IInv, StampInv, Fresh
      <4> QED
        BY <1>0, <2>2, <4>1, <4>2, <4>3, ConstantsTyped DEF stamped, Fresh
    <3>3. /\ Cardinality(Entitled') <= Cardinality(stamped) + Cardinality(InFlight')
          /\ Cardinality(stamped) \in Nat /\ Cardinality(InFlight') \in Nat
      BY <3>1, <3>2, Covered, Subsets
    <3>4. Cardinality(InFlight') <= MaxInFlight
      BY <1>3 DEF InsideInv
    <3>5. Cardinality(Entitled') \in Nat
      <4>1. Entitled' \in SUBSET Requests
        BY <1>1 DEF Step, Entitled
      <4> QED
        BY <4>1, Subsets
    <3> QED
      BY <1>1, <2>2, <3>3, <3>4, <3>5, ConstantsTyped DEF EntitledInv
  <2> QED
    BY <2>1, <2>2
<1>6. RemovedInv'
  BY <1>1 DEF Step, IInv, RemovedInv
<1> QED
  BY <1>2, <1>3, <1>4, <1>5, <1>6 DEF IInv

LEMMA AddKeeps ==
    ASSUME LimiterAssumption, IInv, NEW q \in Requests, Add(q)
    PROVE  IInv'
<1>1. /\ req[q].pc = "counted" /\ window' = window
      /\ Step(q, "admitted", req[q].win, req[q].since, req[q].at)
      /\ stamps' = [stamps EXCEPT ![req[q].win] = @ \cup {q}]
  BY RequestSteps DEF IInv
<1>0. req[q].win \in Windows
  BY <1>1 DEF IInv, HeldInv
<1>2. TypeOK'
  BY <1>0, <1>1 DEF Step, IInv, TypeOK
<1>3. HeldInv' /\ InsideInv' /\ CaughtInv'
  <2>1. Inside(q) /\ window' \in Windows \cup {NoWindow}
    BY <1>1 DEF Inside, IInv, TypeOK
  <2> QED
    BY <1>0, <1>1, <2>1, StepKeeps
<1>4. StampInv'
  <2>1. \A w \in Windows : stamps[w] \subseteq stamps'[w]
    BY <1>0, <1>1 DEF IInv, TypeOK
  <2>2. q \in stamps'[req[q].win]
    BY <1>0, <1>1 DEF IInv, TypeOK
  <2> QED
    BY <1>1, <2>1, <2>2 DEF Step, IInv, StampInv, HeldInv, Fresh
<1>5. EntitledInv'
  <2>1. Entitled' \subseteq Entitled
    BY <1>1 DEF Step, Entitled, Fresh
  <2> QED
    BY <2>1, EntitledShrinks
<1>6. RemovedInv'
  BY <1>1 DEF Step, IInv, RemovedInv
<1> QED
  BY <1>2, <1>3, <1>4, <1>5, <1>6 DEF IInv

-----------------------------------------------------------------------------
(* Cleanup, and the clock                                                   *)

LEMMA CleanupKeeps ==
    ASSUME LimiterAssumption, IInv, Cleanup
    PROVE  IInv'
<1>0. /\ now \in Nat /\ swept \in Nat /\ swept + Period <= now /\ NoWindow \notin Windows
      /\ \A q \in Requests : req[q].at \in Nat /\ req[q].since \in Nat /\ req[q].since <= now
      /\ Interval \in Nat /\ Period \in Nat
  BY ConstantsTyped DEF Cleanup, IInv, TypeOK, LimiterAssumption
<1> DEFINE fresh == {p \in stamps[window] : Fresh(p, now, 2 * Interval)}
<1>1. /\ swept' = now /\ caught' = InFlight /\ now' = now /\ req' = req
      /\ \/ window = NoWindow /\ UNCHANGED <<window, stamps>>
         \/ /\ window # NoWindow /\ stamps' = [stamps EXCEPT ![window] = fresh]
            /\ window' = IF fresh = {} THEN NoWindow ELSE window
  BY DEF Cleanup
<1>2. window # NoWindow => fresh \subseteq stamps[window] /\ stamps[window] \subseteq Requests
  BY DEF IInv, TypeOK
<1>3. \A p \in Requests : p \in fresh <=> p \in stamps[window] /\ req[p].at > now - 2 * Interval
  BY DEF Fresh
<1> HIDE DEF fresh
<1>4. TypeOK'
  <2>1. stamps' \in [Windows -> SUBSET Requests]
    BY <1>1, <1>2 DEF IInv, TypeOK
  <2>2. window' \in Windows \cup {NoWindow} /\ caught' \subseteq Requests
    BY <1>1 DEF IInv, TypeOK, InFlight
  <2> QED
    BY <1>0, <1>1, <2>1, <2>2 DEF IInv, TypeOK
<1>5. HeldInv'
  BY <1>1 DEF IInv, HeldInv
<1>6. StampInv'
  <2>1. ASSUME NEW q \in Requests, req[q].pc = "admitted", req[q].at > now - 2 * Interval
        PROVE  q \in stamps'[req[q].win]
    <3>1. q \in stamps[req[q].win] /\ req[q].win \in Windows
      BY <2>1 DEF IInv, StampInv, HeldInv, Fresh
    <3> QED
      BY <1>1, <1>3, <2>1, <3>1 DEF IInv, TypeOK
  <2> QED
    BY <1>1, <2>1 DEF StampInv, Fresh
<1>7. EntitledInv'
  <2>1. Entitled' \subseteq Entitled
    <3>1. ASSUME NEW p \in Entitled'
          PROVE  p \in Entitled
      <4>1. p \in Requests /\ req[p].pc \in {"counted", "admitted"} /\ Fresh(p, now, Interval)
            /\ req[p].win = window'
        BY <1>1, <3>1 DEF Entitled, Fresh
      <4>2. window' = window
        BY <1>0, <1>1, <4>1 DEF IInv, HeldInv
      <4> QED
        BY <4>1, <4>2 DEF Entitled
    <3> QED
      BY <3>1
  <2> QED
    BY <2>1, EntitledShrinks
<1>8. InsideInv'
  <2>1. InFlight' = InFlight /\ \A time : Across(time)' = Across(time)
    BY <1>1 DEF InFlight, Across, Inside
  <2> QED
    BY <1>1, <2>1 DEF IInv, InsideInv
<1>9. CaughtInv'
  BY <1>0, <1>1 DEF CaughtInv, InFlight
<1>10. RemovedInv'
  <2> SUFFICES ASSUME NEW q \in Requests, req[q].win \in Windows, req[q].win # window'
               PROVE  \/ q \in InFlight
                      \/ req[q].since <= now - Period
                      \/ req[q].pc = "refused"
                      \/ req[q].pc = "admitted" /\ req[q].at <= now - 2 * Interval
    BY <1>1 DEF RemovedInv
  <2>1. req[q].pc \in {"held", "timed", "counted", "admitted", "refused"}
    BY DEF IInv, HeldInv, TypeOK, Steps
  <2>2. CASE req[q].win = window
    <3>1. fresh = {}
      BY <1>0, <1>1, <2>2
    <3>2. req[q].pc = "admitted" => ~(req[q].at > now - 2 * Interval)
      BY <1>3, <2>2, <3>1 DEF IInv, StampInv, Fresh
    <3> QED
      BY <1>0, <2>1, <3>2 DEF InFlight
  <2>3. CASE req[q].win # window
    <3>1. \/ q \in caught
          \/ req[q].since <= swept - Period
          \/ req[q].pc = "refused"
          \/ req[q].pc = "admitted" /\ req[q].at <= swept - 2 * Interval
      BY <2>3 DEF IInv, RemovedInv
    <3>2. q \in caught => req[q].since <= swept
      BY DEF IInv, CaughtInv
    <3> QED
      BY <1>0, <3>1, <3>2
  <2> QED
    BY <2>2, <2>3
<1> QED
  BY <1>4, <1>5, <1>6, <1>7, <1>8, <1>9, <1>10 DEF IInv

\* Those inside when the clock goes on are the ones across.
LEMMA TickKeeps ==
    ASSUME LimiterAssumption, IInv, Tick
    PROVE  IInv'
<1>0. /\ now \in Nat /\ swept \in Nat /\ swept <= now /\ now < MaxTime /\ MaxTime \in Nat
      /\ \A q \in Requests : req[q].at \in Nat /\ req[q].at <= now
      /\ Interval \in Nat
  BY ConstantsTyped DEF Tick, IInv, TypeOK
<1>1. now' = now + 1 /\ UNCHANGED <<swept, window, stamps, req, caught>>
  BY DEF Tick
<1>2. TypeOK'
  <2>1. req' \in [Requests -> [pc : Steps, win : Windows \cup {NoWindow}, since : 0..now', at : 0..now']]
    <3>1. 0..now \subseteq 0..now'
      BY <1>0, <1>1
    <3>2. req \in [Requests -> [pc : Steps, win : Windows \cup {NoWindow}, since : 0..now, at : 0..now]]
      BY DEF IInv, TypeOK
    <3> DEFINE D == 0..now
               E == 0..now'
    <3> HIDE DEF D, E
    <3>3. \A r \in [pc : Steps, win : Windows \cup {NoWindow}, since : D, at : D] :
             D \subseteq E => r \in [pc : Steps, win : Windows \cup {NoWindow}, since : E, at : E]
      OBVIOUS
    <3> QED
      BY <1>1, <3>1, <3>2, <3>3 DEF D, E
  <2> QED
    BY <1>0, <1>1, <2>1 DEF IInv, TypeOK
<1>3. HeldInv' /\ CaughtInv' /\ RemovedInv'
  BY <1>1 DEF IInv, HeldInv, CaughtInv, RemovedInv
<1>4. StampInv'
  BY <1>0, <1>1 DEF IInv, StampInv, Fresh
<1>5. EntitledInv'
  <2>1. Entitled' \subseteq Entitled
    BY <1>0, <1>1 DEF Entitled, Fresh
  <2> QED
    BY <2>1, EntitledShrinks
<1>6. InsideInv'
  <2>1. InFlight' = InFlight /\ \A time : Across(time)' = Across(time)
    BY <1>1 DEF InFlight, Across, Inside
  <2>2. ASSUME NEW time \in 0..(now' - 1)
        PROVE  Cardinality(Across(time)) <= MaxInFlight
    <3>1. CASE time \in 0..(now - 1)
      BY <3>1 DEF IInv, InsideInv
    <3>2. CASE time = now
      <4>1. Across(time) \in SUBSET InFlight /\ InFlight \in SUBSET Requests
        BY <1>0, <3>2 DEF Across, InFlight, Inside
      <4> QED
        BY <4>1, Subsets, ConstantsTyped DEF IInv, InsideInv
    <3> QED
      BY <1>0, <1>1, <3>1, <3>2
  <2> QED
    BY <1>1, <2>1, <2>2 DEF IInv, InsideInv
<1> QED
  BY <1>2, <1>3, <1>4, <1>5, <1>6 DEF IInv

-----------------------------------------------------------------------------
(* The theorems                                                             *)

LEMMA Beginning ==
    ASSUME LimiterAssumption, Init
    PROVE  IInv
<1>1. /\ now = 0 /\ swept = 0 /\ window = NoWindow /\ caught = {}
      /\ \A q \in Requests : req[q].pc = "new" /\ req[q].win = NoWindow
      /\ NoWindow \notin Windows
  BY DEF Init, LimiterAssumption
<1>2. TypeOK
  <2>1. 0 \in 0..0 /\ 0 \in 0..MaxTime
    BY ConstantsTyped
  <2> QED
    BY <2>1 DEF Init, TypeOK, Steps
<1>3. HeldInv /\ StampInv /\ CaughtInv /\ RemovedInv
  BY <1>1 DEF HeldInv, StampInv, CaughtInv, RemovedInv
<1>4. Entitled = {} /\ InFlight = {}
  BY <1>1 DEF Entitled, InFlight
<1>5. EntitledInv
  BY <1>4, FS_EmptySet, ConstantsTyped DEF EntitledInv
<1>6. InsideInv
  <2>1. 0..(now - 1) = {}
    BY <1>1
  <2> QED
    BY <1>1, <1>4, <2>1, FS_EmptySet, ConstantsTyped DEF InsideInv
<1> QED
  BY <1>2, <1>3, <1>5, <1>6 DEF IInv

LEMMA Stutter ==
    ASSUME IInv, UNCHANGED vars
    PROVE  IInv'
<1>1. UNCHANGED <<now, swept, window, stamps, req, caught>>
  BY DEF vars
<1>2. TypeOK' /\ HeldInv' /\ CaughtInv' /\ RemovedInv'
  BY <1>1 DEF IInv, TypeOK, HeldInv, CaughtInv, RemovedInv
<1>3. StampInv'
  BY <1>1 DEF IInv, StampInv, Fresh
<1>4. Entitled' = Entitled /\ InFlight' = InFlight /\ \A time : Across(time)' = Across(time)
  BY <1>1 DEF Entitled, InFlight, Across, Inside, Fresh
<1> QED
  BY <1>1, <1>2, <1>3, <1>4 DEF IInv, EntitledInv, InsideInv

\* The inductive invariant of a user's windows.
THEOREM Invariance == Spec => []IInv
<1>1. Init => IInv
  BY LimiterAssumption, Beginning
<1>2. IInv /\ [Next]_vars => IInv'
  BY LimiterAssumption, GetWindowKeeps, ReadClockKeeps, CountKeeps, AddKeeps, CleanupKeeps, TickKeeps,
     Stutter DEF Next
<1> QED
  BY <1>1, <1>2, PTL DEF Spec

\* Windows hold stamps of requests, and no time is in the future.
THEOREM TypeCorrect == Spec => []TypeOK
<1>1. IInv => TypeOK
  BY DEF IInv
<1> QED
  BY <1>1, Invariance, PTL

\* Whatever the interval and the order of lookups, counts and rounds of cleanup, a user
\* is let past the limit by less than three times the requests inside at one time.
THEOREM OverrunIsBounded == Spec => []OverrunBounded
<1>1. ASSUME IInv, LimiterAssumption
      PROVE  OverrunBounded
  <2> DEFINE A == Admitted(now)
             across == IF now >= Interval THEN Across(now - Interval) ELSE {}
  <2>0. /\ now \in Nat /\ swept \in Nat /\ swept <= now
        /\ Interval \in Nat /\ Period \in Nat /\ Period >= Interval /\ Interval > 0
        /\ \A q \in Requests : req[q].at \in Nat /\ req[q].since \in Nat
    BY <1>1, ConstantsTyped DEF IInv, TypeOK
  <2>1. Entitled \in SUBSET Requests /\ caught \in SUBSET Requests /\ across \in SUBSET Requests
    BY <1>1 DEF IInv, TypeOK, Entitled, Across
  <2>2. A \in SUBSET ((Entitled \cup caught) \cup across)
    <3> SUFFICES ASSUME NEW q \in A, q \notin Entitled, q \notin caught
                 PROVE  q \in across
      OBVIOUS
    <3>1. q \in Requests /\ req[q].pc = "admitted" /\ req[q].at > now - Interval
      BY DEF Admitted, Fresh
    <3>2. req[q].win # window /\ req[q].win \in Windows
      BY <1>1, <3>1 DEF Entitled, Fresh, IInv, HeldInv
    <3>3. req[q].since <= swept - Period \/ req[q].at <= swept - 2 * Interval
      BY <1>1, <3>1, <3>2 DEF IInv, RemovedInv
    <3>4. req[q].since <= now - Interval /\ now >= Interval
      BY <2>0, <3>1, <3>3
    <3> QED
      BY <3>1, <3>4 DEF Across
  <2>3. Cardinality(Entitled) <= Limit + MaxInFlight - 1 /\ Cardinality(caught) <= MaxInFlight
    BY <1>1 DEF IInv, EntitledInv, InsideInv
  <2>4. Cardinality(across) <= MaxInFlight
    <3>1. CASE now >= Interval
      <4>1. now - Interval \in 0..(now - 1)
        BY <2>0, <3>1
      <4> QED
        BY <1>1, <3>1, <4>1 DEF IInv, InsideInv
    <3>2. CASE ~(now >= Interval)
      BY <1>1, <3>2, FS_EmptySet, ConstantsTyped
    <3> QED
      BY <3>1, <3>2
  <2>5. (Entitled \cup caught) \in SUBSET Requests /\ A \in SUBSET Requests
    BY <2>1 DEF Admitted
  <2> HIDE DEF A, across
  <2>6. Cardinality(Entitled \cup caught) <= Cardinality(Entitled) + Cardinality(caught)
    BY <1>1, <2>1, Covered
  <2>7. Cardinality(A) <= Cardinality(Entitled \cup caught) + Cardinality(across)
    BY <1>1, <2>1, <2>2, <2>5, Covered
  <2>8. /\ Cardinality(Entitled) \in Nat /\ Cardinality(caught) \in Nat /\ Cardinality(across) \in Nat
        /\ Cardinality(Entitled \cup caught) \in Nat /\ Cardinality(A) \in Nat
    BY <1>1, <2>1, <2>5, Subsets
  <2>9. Cardinality(A) <= Limit + 3 * MaxInFlight - 1
    BY <1>1, <2>3, <2>4, <2>6, <2>7, <2>8, ConstantsTyped
  <2> QED
    BY <2>9 DEF OverrunBounded, A
<1> QED
  BY <1>1, Invariance, LimiterAssumption, PTL
=============================================================================
