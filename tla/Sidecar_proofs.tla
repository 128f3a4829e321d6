--------------------------- MODULE Sidecar_proofs ---------------------------
(***************************************************************************)
(* Proofs about the two sidecars: ModelManager, for any registry, any calls  *)
(* and any limit of resident models; StreamRoute, for any frames, control    *)
(* messages and watchdogs; RealtimeStream, for any number of frames.          *)
(* The components share no state.  StreamRoute is SR, RealtimeStream is RT. *)
(***************************************************************************)
EXTENDS ModelManager, StreamWire, RealtimeAudio, TLAPS, FiniteSetTheorems, SequenceTheorems

\* The constants and variables of StreamRoute.
CONSTANTS Frames, Finalizes, Closes, MaxMessages, Watchdogs, NoTask, Endpointing,
          PartialInterval, MinTranscribe, MaxSegment

VARIABLES audio, lastTranscribed, finalizedUpTo, finalsEmitted, pendingEnd, generation,
          vad, closed, gate, task, heard

SR == INSTANCE StreamRoute

\* Those of RealtimeStream.
CONSTANTS MaxFrames, Observed

VARIABLES eou, link, sent, late, shut, ready, backlog, judged, worker, loader, finalize,
          close, out, seen

RT == INSTANCE RealtimeStream WITH closed <- shut, vad <- judged, task <- worker

-----------------------------------------------------------------------------
(* ModelManager                                                            *)

\* What is resident has a time of last use, so eviction can reach it.
ReachableInv ==
    /\ IsFiniteSet(DOMAIN lastUsed)
    /\ Resident \subseteq DOMAIN lastUsed

IInv == TypeOK /\ ReachableInv /\ ResidencySound

-----------------------------------------------------------------------------
\* A nonempty finite set of models with times has one that is used the least
\* recently of them.
LEMMA LeastRecent ==
    ASSUME InOrder, IsFiniteSet(DOMAIN lastUsed),
           NEW T \in SUBSET DOMAIN lastUsed, T # {}
    PROVE  \E m \in T : \A n \in T : n \notin lastUsed[m]
<1> DEFINE D == DOMAIN lastUsed
           Times == {lastUsed[m] : m \in T}
<1>1. Times \subseteq FiniteSubsetsOf(D) /\ Times # {}
  <2>1. \A m \in T : lastUsed[m] \in SUBSET D /\ IsFiniteSet(lastUsed[m])
    BY FS_Subset DEF InOrder
  <2> QED
    BY <2>1 DEF FiniteSubsetsOf
<1>2. PICK t \in Times : \A u \in Times : <<u, t>> \notin StrictSubsetOrdering(D)
  BY <1>1, FS_StrictSubsetOrderingWellFounded, WFMin
<1>3. PICK m \in T : t = lastUsed[m]
  BY <1>2
<1>4. ASSUME NEW n \in T, n \in lastUsed[m]
      PROVE  FALSE
  <2>1. lastUsed[n] \subseteq lastUsed[m] /\ n \notin lastUsed[n]
    BY <1>4 DEF InOrder
  <2>2. lastUsed[n] \in Times /\ lastUsed[n] \in SUBSET D /\ lastUsed[m] \in SUBSET D
    BY DEF InOrder
  <2>3. <<lastUsed[n], lastUsed[m]>> \in StrictSubsetOrdering(D)
    BY <1>4, <2>1, <2>2 DEF StrictSubsetOrdering
  <2> QED
    BY <1>2, <1>3, <2>2, <2>3
<1> QED
  BY <1>4

\* Eviction leaves as many resident as may be: if too many were left, the least
\* recently used of those would have gone.
LEMMA EvictionSuffices ==
    ASSUME ModelAssumption, InOrder, ReachableInv, NEW keep \in Models
    PROVE  /\ IsFiniteSet((Resident \cup {keep}) \ Evicted(keep))
           /\ Cardinality((Resident \cup {keep}) \ Evicted(keep)) <= MaxResident
<1> DEFINE K == Resident \cup {keep}
           T == (DOMAIN lastUsed \ {keep}) \ Evicted(keep)
<1>1. IsFiniteSet(K)
  <2>1. IsFiniteSet(Resident)
    BY FS_Subset DEF ReachableInv
  <2> QED
    BY <2>1, FS_AddElement, Zenon
<1>2. ASSUME NEW S
      PROVE  IsFiniteSet(K \ S) /\ Cardinality(K \ S) \in Nat
  <2>1. IsFiniteSet(K \ S)
    BY <1>1, FS_Difference, Zenon
  <2> QED
    BY <2>1, FS_CardinalityType
<1>3. MaxResident \in Nat /\ MaxResident >= 1
  BY DEF ModelAssumption
<1>4. CASE T = {}
  <2>1. K \ Evicted(keep) \subseteq {keep}
    BY <1>4 DEF ReachableInv
  <2>2. IsFiniteSet({keep}) /\ Cardinality({keep}) = 1
    BY FS_Singleton
  <2>3. Cardinality(K \ Evicted(keep)) <= Cardinality({keep})
    BY <2>1, <2>2, FS_Subset, Zenon
  <2> QED
    BY <1>2, <1>3, <2>2, <2>3
<1>5. CASE T # {}
  <2>1. PICK m \in T : \A n \in T : n \notin lastUsed[m]
    <3>1. T \in SUBSET DOMAIN lastUsed /\ IsFiniteSet(DOMAIN lastUsed)
      BY DEF ReachableInv
    <3> HIDE DEF T
    <3> QED
      BY <1>5, <3>1, LeastRecent
  <2>2. lastUsed[m] \subseteq DOMAIN lastUsed
    BY DEF InOrder
  <2>3. K \ Evicted(keep) \subseteq K \ (lastUsed[m] \ {keep})
    BY <2>1, <2>2
  <2>4. Cardinality(K \ Evicted(keep)) <= Cardinality(K \ (lastUsed[m] \ {keep}))
    BY <1>2, <2>3, FS_Subset, Zenon
  <2>5. ~(Cardinality(K \ (lastUsed[m] \ {keep})) > MaxResident)
    BY DEF Evicted
  <2>6. /\ Cardinality(K \ Evicted(keep)) \in Nat
        /\ Cardinality(K \ (lastUsed[m] \ {keep})) \in Nat
    BY <1>2
  <2> QED
    BY <1>2, <1>3, <2>4, <2>5, <2>6
<1> QED
  BY <1>2, <1>4, <1>5

\* What is evicted has a time, and is not the model that is kept.
LEMMA EvictedAreOthers ==
    ASSUME NEW keep
    PROVE  Evicted(keep) \subseteq DOMAIN lastUsed \ {keep}
BY DEF Evicted

\* Taking models out of the order, or putting one at its end, leaves it an order.
LEMMA OrderKept ==
    ASSUME InOrder, IsFiniteSet(DOMAIN lastUsed), DOMAIN lastUsed \subseteq Models,
           NEW m \in Models, NEW gone,
           lastUsed' \in {Without(gone), UsedNow(m, gone)}
    PROVE  /\ InOrder' /\ IsFiniteSet(DOMAIN lastUsed') /\ DOMAIN lastUsed' \subseteq Models
           /\ DOMAIN lastUsed \ gone \subseteq DOMAIN lastUsed'
           /\ lastUsed' = UsedNow(m, gone) => m \in DOMAIN lastUsed'
<1>1. IsFiniteSet(DOMAIN lastUsed \ gone)
  BY FS_Difference
<1>2. IsFiniteSet((DOMAIN lastUsed \ gone) \cup {m})
  BY <1>1, FS_AddElement, Zenon
<1>3. CASE lastUsed' = Without(gone)
  <2>1. /\ DOMAIN lastUsed' = DOMAIN lastUsed \ gone
        /\ \A n \in DOMAIN lastUsed' : lastUsed'[n] = lastUsed[n] \ gone
        /\ lastUsed' = [n \in DOMAIN lastUsed' |-> lastUsed'[n]]
    BY <1>3 DEF Without
  <2>2. InOrder'
    BY <2>1 DEF InOrder
  <2> QED
    BY <1>1, <2>1, <2>2, <1>3 DEF UsedNow
<1>4. CASE lastUsed' = UsedNow(m, gone)
  <2>1. /\ DOMAIN lastUsed' = (DOMAIN lastUsed \ gone) \cup {m}
        /\ lastUsed'[m] = DOMAIN lastUsed \ (gone \cup {m})
        /\ \A n \in DOMAIN lastUsed' \ {m} : lastUsed'[n] = lastUsed[n] \ (gone \cup {m})
        /\ lastUsed' = [n \in DOMAIN lastUsed' |-> lastUsed'[n]]
    BY <1>4 DEF UsedNow
  <2>2. InOrder'
    BY <2>1 DEF InOrder
  <2> QED
    BY <1>2, <2>1, <2>2
<1> QED
  BY <1>3, <1>4

-----------------------------------------------------------------------------
InProgress == {"downloading", "compiling", "loading"}

\* What every step does to statuses: that of its own model is left in progress only
\* by a call that stays suspended; others become "downloaded" at most.
Reports(c, m) ==
    /\ call[c].pc = "new" \/ call[c].for = m
    /\ \E pc \in CallSteps :
          /\ GoTo(c, m, pc)
          /\ \/ pc \notin {"new", "returned", "threw"}
             \/ statuses'[m] \notin InProgress
             \/ call[c].pc = "new" /\ statuses'[m] = statuses[m]
    /\ statuses' \in [Models -> Statuses]
    /\ \A n \in Models \ {m} : statuses'[n] \in {statuses[n], "downloaded"}

\* What the steps do that make no runner resident, and use none.
Shrinks ==
    /\ runners' \in [Models -> Calls \cup {NoRunner}]
    /\ \A n \in Models : runners'[n] \in {runners[n], NoRunner}
    /\ UNCHANGED lastUsed

KeepsFiles == present' \subseteq Models /\ compiled' \subseteq Models

\* Statuses stay backed by calls.
LEMMA ReportsKeep ==
    ASSUME TypeOK, InProgressIsReal, NEW c \in Calls, NEW m \in Models, Reports(c, m)
    PROVE  /\ call' \in [Calls -> [pc : CallSteps, for : Models \cup {NoRunner}]]
           /\ InProgressIsReal'
<1>1. PICK pc \in CallSteps :
          /\ call' = [call EXCEPT ![c] = [pc |-> pc, for |-> m]]
          /\ \/ pc \notin {"new", "returned", "threw"}
             \/ statuses'[m] \notin InProgress
             \/ call[c].pc = "new" /\ statuses'[m] = statuses[m]
  BY DEF Reports, GoTo
<1>2. /\ call' \in [Calls -> [pc : CallSteps, for : Models \cup {NoRunner}]]
      /\ call'[c].pc = pc /\ call'[c].for = m
      /\ \A d \in Calls \ {c} : call'[d] = call[d]
  BY <1>1 DEF TypeOK
<1>3. SUFFICES ASSUME NEW n \in Models, statuses'[n] \in InProgress
               PROVE  \E d \in Calls : Suspended(d)' /\ call'[d].for = n
  BY <1>2 DEF InProgressIsReal, InProgress
<1>4. CASE pc \notin {"new", "returned", "threw"} /\ n = m
  BY <1>2, <1>4 DEF Suspended
<1>5. CASE ~(pc \notin {"new", "returned", "threw"} /\ n = m)
  <2>1. statuses'[n] = statuses[n] /\ (n = m => call[c].pc = "new")
    BY <1>1, <1>3, <1>5 DEF Reports, InProgress
  <2>2. PICK d \in Calls : Suspended(d) /\ call[d].for = n
    BY <1>3, <2>1 DEF InProgressIsReal, InProgress
  <2>3. d # c
    BY <2>1, <2>2 DEF Reports, Suspended
  <2> QED
    BY <1>2, <2>2, <2>3 DEF Suspended
<1> QED
  BY <1>4, <1>5

\* The steps that only shrink what is resident keep the invariant.
LEMMA ShrinkKeeps ==
    ASSUME IInv, NEW c \in Calls, NEW m \in Models, Reports(c, m),
           Shrinks, KeepsFiles, UNCHANGED autoDownload
    PROVE  IInv'
<1>1. /\ call' \in [Calls -> [pc : CallSteps, for : Models \cup {NoRunner}]]
      /\ InProgressIsReal'
  BY ReportsKeep DEF IInv, ResidencySound
<1>2. TypeOK'
  BY <1>1 DEF IInv, TypeOK, InOrder, Reports, Shrinks, KeepsFiles
<1>3. Resident' \subseteq Resident
  BY DEF Resident, Shrinks
<1>4. ReachableInv'
  BY <1>3 DEF IInv, ReachableInv, Shrinks
<1>5. IsFiniteSet(Resident)
  BY FS_Subset DEF IInv, ReachableInv
<1>6. /\ Cardinality(Resident') <= Cardinality(Resident)
      /\ Cardinality(Resident) \in Nat /\ Cardinality(Resident') \in Nat
  BY <1>3, <1>5, FS_Subset, FS_CardinalityType
<1>7. ResidentBounded'
  BY <1>6, ModelAssumption DEF IInv, ResidencySound, ResidentBounded, ModelAssumption
<1> QED
  BY <1>1, <1>2, <1>4, <1>7 DEF IInv, ResidencySound

\* A runner that is resident is used: nothing is inserted or removed.
LEMMA ResidentKeeps ==
    ASSUME IInv, NEW c \in Calls, NEW m \in Models, RunnerResident(c, m),
           UNCHANGED autoDownload
    PROVE  IInv'
<1>1. Reports(c, m)
  BY DEF RunnerResident, Reports, CallSteps, IInv, TypeOK
<1>2. /\ call' \in [Calls -> [pc : CallSteps, for : Models \cup {NoRunner}]]
      /\ InProgressIsReal'
  BY <1>1, ReportsKeep DEF IInv, ResidencySound
<1>3. UNCHANGED <<statuses, runners, present, compiled>>
  BY DEF RunnerResident, files
<1>4. /\ InOrder' /\ IsFiniteSet(DOMAIN lastUsed') /\ DOMAIN lastUsed' \subseteq Models
      /\ DOMAIN lastUsed \ {} \subseteq DOMAIN lastUsed'
  BY OrderKept DEF RunnerResident, IInv, TypeOK, ReachableInv
<1>5. TypeOK'
  BY <1>2, <1>3, <1>4 DEF IInv, TypeOK
<1>6. Resident' = Resident
  BY <1>3 DEF Resident
<1> QED
  BY <1>2, <1>4, <1>5, <1>6 DEF IInv, ReachableInv, ResidencySound, ResidentBounded

\* What is unloaded loses its runner and its time together.
LEMMA UnloadKeeps ==
    ASSUME IInv, NEW c \in Calls, NEW m \in Models, Unload(c, m), UNCHANGED autoDownload
    PROVE  IInv'
<1>1. Reports(c, m)
  BY DEF Unload, Status, Reports, CallSteps, IInv, TypeOK, Statuses, InProgress
<1>2. /\ call' \in [Calls -> [pc : CallSteps, for : Models \cup {NoRunner}]]
      /\ InProgressIsReal'
  BY <1>1, ReportsKeep DEF IInv, ResidencySound
<1>3. /\ UNCHANGED <<present, compiled>>
      /\ runners' \in [Models -> Calls \cup {NoRunner}] /\ runners'[m] = NoRunner
      /\ \A n \in Models \ {m} : runners'[n] = runners[n]
  BY DEF Unload, files, IInv, TypeOK
<1>4. /\ InOrder' /\ IsFiniteSet(DOMAIN lastUsed') /\ DOMAIN lastUsed' \subseteq Models
      /\ DOMAIN lastUsed \ {m} \subseteq DOMAIN lastUsed'
  <2>1. lastUsed' \in {Without({m}), UsedNow(m, {m})}
    BY DEF Unload
  <2>2. InOrder /\ IsFiniteSet(DOMAIN lastUsed) /\ DOMAIN lastUsed \subseteq Models
    BY DEF IInv, TypeOK, ReachableInv
  <2> DEFINE gone == {m}
  <2> HIDE DEF gone
  <2>3. lastUsed' \in {Without(gone), UsedNow(m, gone)}
    BY <2>1 DEF gone
  <2>4. /\ InOrder' /\ IsFiniteSet(DOMAIN lastUsed') /\ DOMAIN lastUsed' \subseteq Models
        /\ DOMAIN lastUsed \ gone \subseteq DOMAIN lastUsed'
    BY <2>2, <2>3, OrderKept
  <2> QED
    BY <2>4 DEF gone
<1>5. TypeOK'
  BY <1>1, <1>2, <1>3, <1>4 DEF IInv, TypeOK, Reports
<1>6. Resident' = Resident \ {m}
  BY <1>3 DEF Resident
<1>7. ReachableInv'
  BY <1>4, <1>6 DEF IInv, ReachableInv
<1>8. IsFiniteSet(Resident)
  BY FS_Subset DEF IInv, ReachableInv
<1>9. /\ Cardinality(Resident') <= Cardinality(Resident)
      /\ Cardinality(Resident) \in Nat /\ Cardinality(Resident') \in Nat
  <2>1. Resident' \in SUBSET Resident
    BY <1>6
  <2>2. IsFiniteSet(Resident') /\ Cardinality(Resident') <= Cardinality(Resident)
    BY <1>8, <2>1, FS_Subset, Zenon
  <2> QED
    BY <1>8, <2>2, FS_CardinalityType
<1>10. ResidentBounded'
  BY <1>9, ModelAssumption DEF IInv, ResidencySound, ResidentBounded, ModelAssumption
<1> QED
  BY <1>2, <1>5, <1>7, <1>10 DEF IInv, ResidencySound

\* A model that is inserted is used, and evicts others until few enough are left.
LEMMA InsertKeeps ==
    ASSUME IInv, NEW c \in Calls, NEW m \in Models, Insert(c, m), UNCHANGED autoDownload
    PROVE  IInv'
<1> DEFINE gone == Evicted(m)
<1>1. /\ UNCHANGED <<present, compiled>>
      /\ gone \subseteq Models \ {m}
      /\ runners' = [n \in Models |-> IF n = m THEN c
                                      ELSE IF n \in gone THEN NoRunner
                                      ELSE runners[n]]
      /\ lastUsed' = UsedNow(m, gone)
      /\ statuses' = [n \in Models |->
            IF n \in gone /\ statuses[n] = "ready" THEN "downloaded" ELSE statuses[n]]
      /\ GoTo(c, m, "warmup") /\ At(c, m, "tokenizer")
  BY EvictedAreOthers DEF Insert, files, IInv, TypeOK
<1> HIDE DEF gone
<1>2. Reports(c, m)
  BY <1>1 DEF At, Reports, CallSteps, IInv, TypeOK, Statuses
<1>3. /\ call' \in [Calls -> [pc : CallSteps, for : Models \cup {NoRunner}]]
      /\ InProgressIsReal'
  BY <1>2, ReportsKeep DEF IInv, ResidencySound
<1>4. /\ InOrder' /\ IsFiniteSet(DOMAIN lastUsed') /\ DOMAIN lastUsed' \subseteq Models
      /\ DOMAIN lastUsed \ gone \subseteq DOMAIN lastUsed' /\ m \in DOMAIN lastUsed'
  BY <1>1, OrderKept DEF IInv, TypeOK, ReachableInv
<1>5. TypeOK'
  BY <1>1, <1>2, <1>3, <1>4 DEF IInv, TypeOK, Reports
<1>6. Resident' = (Resident \cup {m}) \ gone
  BY <1>1, ModelAssumption DEF Resident, ModelAssumption
<1>7. ReachableInv'
  BY <1>4, <1>6 DEF IInv, ReachableInv
<1>8. ResidentBounded'
  BY <1>6, EvictionSuffices, ModelAssumption DEF ResidentBounded, IInv, TypeOK, gone
<1> QED
  BY <1>3, <1>5, <1>7, <1>8 DEF IInv, ResidencySound

-----------------------------------------------------------------------------
\* The invariant holds at first: nothing is resident, and nothing in progress.
LEMMA InitInvariant == Init => IInv
<1> SUFFICES ASSUME Init PROVE IInv
  OBVIOUS
<1>1. DOMAIN lastUsed = {}
  BY DEF Init
<1>2. Resident = {}
  BY DEF Init, Resident
<1>3. TypeOK
  BY <1>1 DEF Init, TypeOK, InOrder, Statuses, CallSteps
<1>4. ReachableInv
  BY <1>1, <1>2, FS_EmptySet DEF ReachableInv
<1>5. ResidencySound
  BY <1>2, FS_EmptySet, ModelAssumption
  DEF Init, ResidencySound, ResidentBounded, InProgressIsReal, ModelAssumption
<1> QED
  BY <1>3, <1>4, <1>5 DEF IInv

\* What the two outcomes of a probe, and the compiler before it, do.
LEMMA ProbeEffect ==
    ASSUME TypeOK, NEW c \in Calls, NEW m \in Models, call[c].pc = "new" \/ call[c].for = m,
           AfterFetch(c, m) \/ Probe(c, m), UNCHANGED lastUsed
    PROVE  Reports(c, m) /\ Shrinks
<1>1. CASE /\ \E s \in {"loading", "compiling"}, pc \in {"tokenizer", "compile"} :
                 Status(m, s) /\ GoTo(c, m, pc)
           /\ UNCHANGED runners
  BY <1>1 DEF Status, Reports, Shrinks, TypeOK, Statuses, CallSteps
<1>2. CASE Throw(c, m)
  BY <1>2 DEF Throw, Status, Reports, Shrinks, TypeOK, Statuses, CallSteps, InProgress
<1> QED
  BY <1>1, <1>2 DEF AfterFetch, Probe

\* What a call does when it begins.
LEMMA BeginKeeps ==
    ASSUME IInv, NEW c \in Calls, NEW m \in Models, Begin(c, m), UNCHANGED autoDownload
    PROVE  IInv'
<1> USE DEF files
<1>0. TypeOK /\ KeepsFiles
  BY DEF IInv, TypeOK, KeepsFiles, Begin, RunnerResident, RunnerPresent, RunnerFetch, RunnerRefused,
         DownloadRunning, DownloadPresent, DownloadFetch, Unload
<1>1. CASE RunnerResident(c, m)
  BY <1>1, ResidentKeeps
<1>2. CASE RunnerPresent(c, m)
  <2>1. Reports(c, m) /\ Shrinks
    BY <1>0, <1>2, ProbeEffect DEF RunnerPresent
  <2> QED
    BY <1>0, <2>1, ShrinkKeeps
<1>3. CASE RunnerFetch(c, m)
  <2>1. Reports(c, m) /\ Shrinks
    BY <1>0, <1>3 DEF RunnerFetch, Status, Reports, Shrinks, TypeOK, Statuses, CallSteps
  <2> QED
    BY <1>0, <2>1, ShrinkKeeps
<1>4. CASE RunnerRefused(c, m)
  <2>1. Reports(c, m) /\ Shrinks
    BY <1>0, <1>4
    DEF RunnerRefused, Throw, Status, Reports, Shrinks, TypeOK, Statuses, CallSteps, InProgress
  <2> QED
    BY <1>0, <2>1, ShrinkKeeps
<1>5. CASE DownloadRunning(c, m)
  <2>1. Reports(c, m) /\ Shrinks
    BY <1>0, <1>5 DEF DownloadRunning, Reports, Shrinks, TypeOK, CallSteps
  <2> QED
    BY <1>0, <2>1, ShrinkKeeps
<1>6. CASE DownloadPresent(c, m)
  <2>1. Reports(c, m) /\ Shrinks
    BY <1>0, <1>6
    DEF DownloadPresent, Status, Reports, Shrinks, TypeOK, Statuses, CallSteps, InProgress
  <2> QED
    BY <1>0, <2>1, ShrinkKeeps
<1>7. CASE DownloadFetch(c, m)
  <2>1. Reports(c, m) /\ Shrinks
    BY <1>0, <1>7 DEF DownloadFetch, Status, Reports, Shrinks, TypeOK, Statuses, CallSteps
  <2> QED
    BY <1>0, <2>1, ShrinkKeeps
<1>8. CASE Unload(c, m)
  BY <1>8, UnloadKeeps
<1> QED
  BY <1>1, <1>2, <1>3, <1>4, <1>5, <1>6, <1>7, <1>8 DEF Begin

\* What a call does when what it awaited is over.
LEMMA ResumeKeeps ==
    ASSUME IInv, NEW c \in Calls, NEW m \in Models, Resume(c, m), UNCHANGED autoDownload
    PROVE  IInv'
<1> USE DEF files
<1>0. TypeOK /\ KeepsFiles
  BY DEF IInv, TypeOK, KeepsFiles, Resume, Fetched, Compiled, Insert, Warm, RunnerFails,
         Downloaded, DownloadFails
<1>1. CASE Fetched(c, m) \/ Compiled(c, m)
  <2>1. Reports(c, m) /\ Shrinks
    BY <1>0, <1>1, ProbeEffect DEF Fetched, Compiled, At
  <2> QED
    BY <1>0, <2>1, ShrinkKeeps
<1>2. CASE Insert(c, m)
  BY <1>2, InsertKeeps
<1>3. CASE Warm(c, m)
  <2>1. Reports(c, m) /\ Shrinks
    BY <1>0, <1>3
    DEF Warm, At, Status, Reports, Shrinks, TypeOK, Statuses, CallSteps, InProgress
  <2> QED
    BY <1>0, <2>1, ShrinkKeeps
<1>4. CASE RunnerFails(c, m)
  <2>1. Reports(c, m) /\ Shrinks
    BY <1>0, <1>4
    DEF RunnerFails, Throw, At, Status, Reports, Shrinks, TypeOK, Statuses, CallSteps, InProgress
  <2> QED
    BY <1>0, <2>1, ShrinkKeeps
<1>5. CASE Downloaded(c, m) \/ DownloadFails(c, m)
  <2>1. Reports(c, m) /\ Shrinks
    BY <1>0, <1>5
    DEF Downloaded, DownloadFails, At, Status, Reports, Shrinks, TypeOK, Statuses, CallSteps, InProgress
  <2> QED
    BY <1>0, <2>1, ShrinkKeeps
<1> QED
  BY <1>1, <1>2, <1>3, <1>4, <1>5 DEF Resume

\* Every step keeps the invariant.
LEMMA NextInvariant == IInv /\ [Next]_vars => IInv'
<1> SUFFICES ASSUME IInv, [Next]_vars PROVE IInv'
  OBVIOUS
<1>1. CASE Next
  BY <1>1, BeginKeeps, ResumeKeeps DEF Next
<1>2. CASE UNCHANGED vars
  <2>1. UNCHANGED <<autoDownload, statuses, runners, lastUsed, present, compiled, call>>
    BY <1>2 DEF vars
  <2>2. Resident' = Resident
    BY <2>1 DEF Resident
  <2>3. TypeOK'
    BY <2>1 DEF IInv, TypeOK, InOrder
  <2>4. ReachableInv' /\ ResidentBounded'
    BY <2>1, <2>2 DEF IInv, ReachableInv, ResidencySound, ResidentBounded
  <2>5. InProgressIsReal'
    BY <2>1 DEF IInv, ResidencySound, InProgressIsReal, Suspended
  <2> QED
    BY <2>3, <2>4, <2>5 DEF IInv, ResidencySound
<1> QED
  BY <1>1, <1>2

\* Every reachable state satisfies the invariant.
THEOREM Invariance == Spec => []IInv
  BY InitInvariant, NextInvariant, PTL DEF Spec

\* However calls overlap, times of last use stay totally ordered, so that eviction
\* always finds the least recently used (ModelManager.swift).
THEOREM TypeCorrect == Spec => []TypeOK
<1>1. IInv => TypeOK
  BY DEF IInv
<1> QED
  BY <1>1, Invariance, PTL

\* However calls overlap, no more than MaxResident runners are ever resident, and a
\* status that shows work in progress has a call behind it (ModelManager.swift).
THEOREM ResidencyIsSound == Spec => []ResidencySound
<1>1. IInv => ResidencySound
  BY DEF IInv
<1> QED
  BY <1>1, Invariance, PTL

-----------------------------------------------------------------------------
(* StreamRoute                                                             *)

\* A change of one local of a task keeps the locals of all typed.
LEMMA LocalKept ==
    ASSUME NEW g \in [SR!Tasks -> SR!Locals], NEW t \in SR!Tasks
    PROVE  /\ \A pc \in SR!Steps : [g EXCEPT ![t].pc = pc] \in [SR!Tasks -> SR!Locals]
           /\ \A p \in SR!Purposes : [g EXCEPT ![t].for = p] \in [SR!Tasks -> SR!Locals]
           /\ \A n \in Nat : /\ [g EXCEPT ![t].from = n] \in [SR!Tasks -> SR!Locals]
                             /\ [g EXCEPT ![t].to = n] \in [SR!Tasks -> SR!Locals]
                             /\ [g EXCEPT ![t].seen = n] \in [SR!Tasks -> SR!Locals]
           /\ \A n \in Int : [g EXCEPT ![t].end = n] \in [SR!Tasks -> SR!Locals]
           /\ \A b \in BOOLEAN : /\ [g EXCEPT ![t].talking = b] \in [SR!Tasks -> SR!Locals]
                                 /\ [g EXCEPT ![t].sent = b] \in [SR!Tasks -> SR!Locals]
BY DEF SR!Locals

\* So do the changes that the handlers make together.
LEMMA LocalsKept ==
    ASSUME NEW g \in [SR!Tasks -> SR!Locals], NEW t \in SR!Tasks, NEW pc \in SR!Steps
    PROVE  /\ \A p \in SR!Purposes :
                 [g EXCEPT ![t].pc = pc, ![t].for = p] \in [SR!Tasks -> SR!Locals]
           /\ \A p \in SR!Purposes, n \in Int :
                 [g EXCEPT ![t].pc = pc, ![t].for = p, ![t].end = n]
                    \in [SR!Tasks -> SR!Locals]
           /\ \A n, k \in Nat :
                 [g EXCEPT ![t].pc = pc, ![t].from = n, ![t].to = k]
                    \in [SR!Tasks -> SR!Locals]
           /\ \A n \in Nat, b \in BOOLEAN :
                 [g EXCEPT ![t].pc = pc, ![t].seen = n, ![t].talking = b]
                    \in [SR!Tasks -> SR!Locals]
           /\ \A b \in BOOLEAN :
                 [g EXCEPT ![t].pc = pc, ![t].sent = b] \in [SR!Tasks -> SR!Locals]
<1> DEFINE T == [SR!Tasks -> SR!Locals]
           h == [g EXCEPT ![t].pc = pc]
<1>0. h \in T
  BY LocalKept
<1>1. ASSUME NEW p \in SR!Purposes
      PROVE  [h EXCEPT ![t].for = p] \in T
  <2> HIDE DEF h
  <2> QED
    BY <1>0, LocalKept
<1>2. ASSUME NEW p \in SR!Purposes, NEW n \in Int
      PROVE  [[h EXCEPT ![t].for = p] EXCEPT ![t].end = n] \in T
  <2> DEFINE k == [h EXCEPT ![t].for = p]
  <2>1. k \in T
    BY <1>1
  <2> HIDE DEF k
  <2> QED
    BY <2>1, LocalKept
<1>3. ASSUME NEW n \in Nat, NEW m \in Nat
      PROVE  [[h EXCEPT ![t].from = n] EXCEPT ![t].to = m] \in T
  <2> DEFINE k == [h EXCEPT ![t].from = n]
  <2>1. k \in T
    <3> HIDE DEF h
    <3> QED
      BY <1>0, LocalKept
  <2> HIDE DEF k
  <2> QED
    BY <2>1, LocalKept
<1>4. ASSUME NEW n \in Nat, NEW b \in BOOLEAN
      PROVE  [[h EXCEPT ![t].seen = n] EXCEPT ![t].talking = b] \in T
  <2> DEFINE k == [h EXCEPT ![t].seen = n]
  <2>1. k \in T
    <3> HIDE DEF h
    <3> QED
      BY <1>0, LocalKept
  <2> HIDE DEF k
  <2> QED
    BY <2>1, LocalKept
<1>5. ASSUME NEW b \in BOOLEAN
      PROVE  [h EXCEPT ![t].sent = b] \in T
  <2> HIDE DEF h
  <2> QED
    BY <1>0, LocalKept
<1> QED
  BY <1>1, <1>2, <1>3, <1>4, <1>5

\* What an action that only moves a task on, or sends one event, does to the types.
LEMMA GoToTyped ==
    ASSUME SR!TypeOK, NEW t \in SR!Tasks, NEW pc \in SR!Steps, SR!GoTo(t, pc)
    PROVE  task' \in [SR!Tasks -> SR!Locals]
BY LocalKept DEF SR!GoTo, SR!TypeOK

LEMMA SendTyped ==
    ASSUME SR!TypeOK, NEW t \in SR!Tasks, NEW from \in Int, NEW to \in Int,
           NEW kind \in {"partial", "final", "utterance_end", "error", "done", "close"},
           SR!Send(t, kind, from, to)
    PROVE  wire' \in Seq(SR!Event)
<1>1. [kind |-> kind, from |-> from, to |-> to, by |-> t] \in SR!Event
  BY DEF SR!Event
<1>2. wire \in Seq(SR!Event)
  BY DEF SR!TypeOK
<1>3. \A e \in SR!Event : Append(wire, e) \in Seq(SR!Event)
  BY <1>2, AppendProperties
<1> QED
  BY <1>1, <1>2, <1>3 DEF SR!Send

LEMMA LocalsTyped ==
    ASSUME SR!TypeOK, NEW t \in SR!Tasks
    PROVE  /\ task[t].pc \in SR!Steps /\ task[t].for \in SR!Purposes
           /\ task[t].from \in Nat /\ task[t].to \in Nat /\ task[t].end \in Int
           /\ task[t].seen \in Nat /\ task[t].talking \in BOOLEAN /\ task[t].sent \in BOOLEAN
BY DEF SR!TypeOK, SR!Locals

\* The steps of a frame's handler keep the types.
LEMMA FrameTyped ==
    ASSUME SR!TypeOK, NEW f \in Frames, SR!FrameStep(f)
    PROVE  SR!TypeOK'
<1> USE DEF SR!buffer, SR!endpoint
<1> DEFINE T == [SR!Tasks -> SR!Locals]
           Vad == [backlog : Nat, processed : Nat, talking : BOOLEAN]
<1>0. f \in SR!Tasks
  BY DEF SR!Tasks
<1>s. {"vad", "chunk", "due", "rest", "try", "partial", "sendPartial", "wait", "end"}
         \subseteq SR!Steps
  BY DEF SR!Steps
<1>v. /\ vad = [backlog |-> vad.backlog, processed |-> vad.processed, talking |-> vad.talking]
      /\ vad.backlog \in Nat /\ vad.processed \in Nat /\ vad.talking \in BOOLEAN
  BY DEF SR!TypeOK
<1>b. \A b \in BOOLEAN : [vad EXCEPT !.talking = b] \in Vad
  BY <1>v
<1>1. CASE SR!AppendSamples(f)
  <2>1. task' \in T
    BY <1>0, <1>1, <1>s, GoToTyped DEF SR!AppendSamples
  <2>2. heard' \subseteq 1..audio'
    BY <1>1 DEF SR!AppendSamples, SR!TypeOK
  <2>3. vad' \in Vad
    BY <1>1, <1>v DEF SR!AppendSamples
  <2> QED
    BY <1>1, <2>1, <2>2, <2>3 DEF SR!AppendSamples, SR!TypeOK
<1>2. CASE SR!DrainVadChunk(f)
  <2>1. vad.backlog - 1 \in Nat /\ vad.processed + 1 \in Nat
    BY <1>2, <1>v DEF SR!DrainVadChunk
  <2>2. task' \in T
    <3>1. task' = [task EXCEPT ![f].pc = "chunk", ![f].seen = vad.processed + 1,
                               ![f].talking = vad.talking]
      BY <1>2 DEF SR!DrainVadChunk
    <3>2. task \in T /\ "chunk" \in SR!Steps
      BY <1>s DEF SR!TypeOK
    <3>3. \A n \in Nat, b \in BOOLEAN :
             [task EXCEPT ![f].pc = "chunk", ![f].seen = n, ![f].talking = b] \in T
      BY <1>0, <3>2, LocalsKept
    <3>4. vad.talking \in BOOLEAN
      BY <1>v
    <3> HIDE DEF T
    <3> QED
      BY <2>1, <3>1, <3>3, <3>4
  <2>3. vad' \in Vad
    BY <1>2, <1>v, <2>1 DEF SR!DrainVadChunk
  <2> QED
    BY <1>2, <2>2, <2>3 DEF SR!DrainVadChunk, SR!TypeOK
<1>3. CASE SR!VadDrained(f)
  <2>1. task' \in T
    BY <1>0, <1>3, <1>s, GoToTyped DEF SR!VadDrained
  <2> QED
    BY <1>3, <2>1 DEF SR!VadDrained, SR!TypeOK
<1>4. CASE SR!VadQuiet(f)
  <2>1. task' \in T
    BY <1>0, <1>4, <1>s, GoToTyped DEF SR!VadQuiet
  <2>2. vad' \in Vad
    BY <1>0, <1>4, <1>b, <1>v, LocalsTyped DEF SR!VadQuiet
  <2> QED
    BY <1>4, <2>1, <2>2 DEF SR!VadQuiet, SR!TypeOK
<1>5. CASE SR!SpeechStart(f)
  <2>1. task' \in T
    BY <1>0, <1>5, <1>s, GoToTyped DEF SR!SpeechStart
  <2>2. vad' \in Vad
    BY <1>5, <1>b DEF SR!SpeechStart
  <2> QED
    BY <1>5, <2>1, <2>2 DEF SR!SpeechStart, SR!TypeOK, SR!clearPendingEndpoint
<1>6. CASE SR!SpeechEnd(f)
  <2>1. vad' \in Vad
    BY <1>6, <1>b DEF SR!SpeechEnd
  <2>2. ASSUME Endpointing = 0
        PROVE  task' \in T
    BY <1>0, <1>6, <1>s, <2>2, GoToTyped DEF SR!SpeechEnd
  <2>3. ASSUME Endpointing # 0
        PROVE  task' \in T
    <3>1. PICK w \in Watchdogs :
             task' = [task EXCEPT ![f].pc = "due", ![w].pc = "due",
                                  ![w].seen = generation + 1]
      BY <1>6, <2>3 DEF SR!SpeechEnd
    <3> DEFINE g == [task EXCEPT ![f].pc = "due"]
               h == [g EXCEPT ![w].pc = "due"]
    <3>2. g \in T
      BY <1>0, <1>s, LocalKept DEF SR!TypeOK
    <3>3. w \in SR!Tasks /\ generation + 1 \in Nat
      BY DEF SR!Tasks, SR!TypeOK
    <3>4. h \in T
      <4> HIDE DEF g
      <4> QED
        BY <1>s, <3>2, <3>3, LocalKept
    <3>5. [h EXCEPT ![w].seen = generation + 1] \in T
      <4> HIDE DEF h
      <4> QED
        BY <3>3, <3>4, LocalKept
    <3> QED
      BY <3>1, <3>5
  <2>4. pendingEnd' \in Nat /\ generation' \in Nat
    BY <1>0, <1>6, LocalsTyped DEF SR!SpeechEnd, SR!TypeOK
  <2>5. task' \in T
    BY <2>2, <2>3
  <2> QED
    BY <1>6, <2>1, <2>4, <2>5 DEF SR!SpeechEnd, SR!TypeOK
<1>7. CASE SR!EndpointDue(f)
  <2>1. pendingEnd \in Int /\ "endpoint" \in SR!Purposes
    BY DEF SR!TypeOK, SR!NoEnd, SR!Purposes
  <2>2. task' \in T
    <3>1. \/ SR!GoTo(f, "vad")
          \/ task' = [task EXCEPT ![f].pc = "wait", ![f].for = "endpoint", ![f].end = pendingEnd]
      BY <1>7 DEF SR!EndpointDue
    <3>2. task \in T
      BY DEF SR!TypeOK
    <3>3. [task EXCEPT ![f].pc = "wait", ![f].for = "endpoint", ![f].end = pendingEnd] \in T
      <4>1. f \in SR!Tasks /\ "wait" \in SR!Steps /\ "endpoint" \in SR!Purposes
        BY <1>0, <1>s, <2>1
      <4> QED
        BY <2>1, <3>2, <4>1, LocalsKept, Zenon
    <3>4. SR!GoTo(f, "vad") => task' \in T
      BY <1>0, <1>s, GoToTyped
    <3> QED
      BY <3>1, <3>3, <3>4
  <2> QED
    BY <1>7, <2>2 DEF SR!EndpointDue, SR!TypeOK
<1>8. CASE SR!Rest(f)
  <2>1. "rolling" \in SR!Purposes
    BY DEF SR!Purposes
  <2>2. task' \in T
    <3>1. \/ SR!GoTo(f, "try") \/ SR!GoTo(f, "end")
          \/ task' = [task EXCEPT ![f].pc = "wait", ![f].for = "rolling"]
      BY <1>8 DEF SR!Rest
    <3>2. task \in T
      BY DEF SR!TypeOK
    <3>3. [task EXCEPT ![f].pc = "wait", ![f].for = "rolling"] \in T
      BY <1>0, <1>s, <2>1, <3>2, LocalsKept
    <3>4. (SR!GoTo(f, "try") \/ SR!GoTo(f, "end")) => task' \in T
      BY <1>0, <1>s, GoToTyped
    <3> QED
      BY <3>1, <3>3, <3>4
  <2> QED
    BY <1>8, <2>2 DEF SR!Rest, SR!TypeOK
<1>9. CASE SR!TryPartial(f)
  <2>1. audio \in Nat /\ finalizedUpTo \in Nat
    BY DEF SR!TypeOK
  <2>2. task' \in T
    <3>1. \/ SR!GoTo(f, "end")
          \/ task' = [task EXCEPT ![f].pc = "partial", ![f].from = finalizedUpTo, ![f].to = audio]
      BY <1>9 DEF SR!TryPartial
    <3>2. task \in T
      BY DEF SR!TypeOK
    <3>3. [task EXCEPT ![f].pc = "partial", ![f].from = finalizedUpTo, ![f].to = audio] \in T
      BY <1>0, <1>s, <2>1, <3>2, LocalsKept
    <3>4. SR!GoTo(f, "end") => task' \in T
      BY <1>0, <1>s, GoToTyped
    <3> QED
      BY <3>1, <3>3, <3>4
  <2>3. gate' \in SR!Tasks \cup {NoTask} /\ lastTranscribed' \in 0..audio
    BY <1>0, <1>9 DEF SR!TryPartial, SR!TypeOK
  <2> QED
    BY <1>9, <2>2, <2>3 DEF SR!TryPartial, SR!TypeOK
<1>10. CASE SR!PartialDone(f)
  <2>1. task' \in T
    BY <1>0, <1>10, <1>s, GoToTyped DEF SR!PartialDone
  <2> QED
    BY <1>10, <2>1 DEF SR!PartialDone, SR!TypeOK
<1>11. CASE SR!SendPartial(f)
  <2>1. task' \in T
    BY <1>0, <1>11, <1>s, GoToTyped DEF SR!SendPartial
  <2>2. wire' \in Seq(SR!Event)
    BY <1>0, <1>11, LocalsTyped, SendTyped DEF SR!SendPartial
  <2> QED
    BY <1>11, <2>1, <2>2 DEF SR!SendPartial, SR!TypeOK
<1> QED
  BY <1>1, <1>2, <1>3, <1>4, <1>5, <1>6, <1>7, <1>8, <1>9, <1>10, <1>11 DEF SR!FrameStep

\* So do those of a final, whoever asks for it.
LEMMA FinalTyped ==
    ASSUME SR!TypeOK, NEW t \in SR!Tasks, SR!FinalStep(t)
    PROVE  SR!TypeOK'
<1> USE DEF SR!buffer, SR!endpoint
<1> DEFINE T == [SR!Tasks -> SR!Locals]
<1>s. {"vad", "text", "mark", "utterance", "done", "close", "end"} \subseteq SR!Steps
  BY DEF SR!Steps
<1>l. task[t].from \in Int /\ task[t].to \in Int /\ task[t].end \in Int /\ 0 \in Int
  BY LocalsTyped
<1>1. CASE SR!Acquire(t)
  <2>1. audio \in Nat /\ finalizedUpTo \in Nat
    BY DEF SR!TypeOK
  <2>2. task' \in T
    BY <1>1, <1>s, <2>1, LocalsKept DEF SR!Acquire, SR!TypeOK
  <2>3. heard' \subseteq 1..audio
    BY <1>1 DEF SR!Acquire, SR!TypeOK
  <2>4. pendingEnd' \in {SR!NoEnd} \cup Nat /\ generation' \in Nat
    BY <1>1 DEF SR!Acquire, SR!TypeOK, SR!clearPendingEndpoint
  <2> QED
    BY <1>1, <2>2, <2>3, <2>4 DEF SR!Acquire, SR!TypeOK
<1>2. CASE SR!SendFinal(t)
  <2>1. task' \in T
    BY <1>2, <1>s, LocalsKept DEF SR!SendFinal, SR!TypeOK
  <2>2. wire' \in Seq(SR!Event)
    BY <1>2, <1>l, SendTyped DEF SR!SendFinal
  <2> QED
    BY <1>2, <2>1, <2>2 DEF SR!SendFinal, SR!TypeOK
<1>3. CASE SR!NoFinal(t)
  <2>1. task' \in T
    BY <1>3, <1>s, GoToTyped DEF SR!NoFinal
  <2> QED
    BY <1>3, <2>1 DEF SR!NoFinal, SR!TypeOK
<1>4. CASE SR!FinalFails(t)
  <2>1. task' \in T
    BY <1>4, <1>s, GoToTyped DEF SR!FinalFails
  <2>2. wire' \in Seq(SR!Event)
    BY <1>4, <1>l, SendTyped DEF SR!FinalFails
  <2> QED
    BY <1>4, <2>1, <2>2 DEF SR!FinalFails, SR!TypeOK
<1>5. CASE SR!Mark(t)
  <2>1. SR!AfterMark(t) \in SR!Steps
    BY <1>s DEF SR!AfterMark
  <2>2. task' \in T
    BY <1>5, <2>1, LocalsKept DEF SR!Mark, SR!TypeOK
  <2>3. gate' \in SR!Tasks \cup {NoTask} /\ finalsEmitted' \in Nat
    BY <1>5 DEF SR!Mark, SR!GateAfter, SR!TypeOK
  <2> QED
    BY <1>5, <2>2, <2>3 DEF SR!Mark, SR!TypeOK
<1>6. CASE SR!UtteranceEnd(t)
  <2>1. task' \in T
    BY <1>6, <1>s, GoToTyped DEF SR!UtteranceEnd
  <2>2. wire' \in Seq(SR!Event)
    BY <1>6, <1>l, SendTyped DEF SR!UtteranceEnd
  <2> QED
    BY <1>6, <2>1, <2>2 DEF SR!UtteranceEnd, SR!TypeOK
<1>7. CASE SR!Done(t)
  <2>1. task' \in T
    BY <1>7, <1>s, GoToTyped DEF SR!Done
  <2>2. wire' \in Seq(SR!Event)
    BY <1>7, <1>l, SendTyped DEF SR!Done
  <2> QED
    BY <1>7, <2>1, <2>2 DEF SR!Done, SR!TypeOK
<1>8. CASE SR!HangUp(t)
  <2>1. task' \in T
    BY <1>8, <1>s, GoToTyped DEF SR!HangUp
  <2>2. wire' \in Seq(SR!Event)
    BY <1>8, <1>l, SendTyped DEF SR!HangUp
  <2> QED
    BY <1>8, <2>1, <2>2 DEF SR!HangUp, SR!TypeOK
<1> QED
  BY <1>1, <1>2, <1>3, <1>4, <1>5, <1>6, <1>7, <1>8 DEF SR!FinalStep

LEMMA StreamTyped ==
    ASSUME SR!TypeOK, [SR!Next]_(SR!vars)
    PROVE  SR!TypeOK'
<1> USE DEF SR!buffer, SR!endpoint
<1> DEFINE T == [SR!Tasks -> SR!Locals]
<1>s. {"accepted", "wait", "end"} \subseteq SR!Steps
      /\ {"endpoint", "finalize", "close"} \subseteq SR!Purposes
  BY DEF SR!Steps, SR!Purposes
<1>t. Frames \cup SR!Controls \cup Watchdogs \subseteq SR!Tasks
  BY DEF SR!Tasks
<1>1. ASSUME NEW t \in Frames \cup SR!Controls, SR!Receive(t)
      PROVE  SR!TypeOK'
  <2>1. task' \in T
    BY <1>1, <1>s, <1>t, GoToTyped DEF SR!Receive
  <2> QED
    BY <1>1, <2>1 DEF SR!Receive, SR!TypeOK
<1>2. ASSUME NEW w \in Watchdogs, SR!WatchdogFires(w)
      PROVE  SR!TypeOK'
  <2>1. pendingEnd \in Int
    BY DEF SR!TypeOK, SR!NoEnd
  <2>2. task' \in T
    <3>1. \/ SR!GoTo(w, "end")
          \/ task' = [task EXCEPT ![w].pc = "wait", ![w].for = "endpoint", ![w].end = pendingEnd]
      BY <1>2 DEF SR!WatchdogFires
    <3>2. task \in T
      BY DEF SR!TypeOK
    <3>3. [task EXCEPT ![w].pc = "wait", ![w].for = "endpoint", ![w].end = pendingEnd] \in T
      <4>1. w \in SR!Tasks /\ "wait" \in SR!Steps /\ "endpoint" \in SR!Purposes
        BY <1>s, <1>t
      <4> QED
        BY <2>1, <3>2, <4>1, LocalsKept, Zenon
    <3>4. SR!GoTo(w, "end") => task' \in T
      BY <1>s, <1>t, GoToTyped
    <3> QED
      BY <3>1, <3>3, <3>4
  <2> QED
    BY <1>2, <2>2 DEF SR!WatchdogFires, SR!TypeOK
<1>3. ASSUME NEW c \in SR!Controls, SR!ControlStep(c)
      PROVE  SR!TypeOK'
  <2>1. CASE SR!Finalize(c)
    <3>1. task' \in T
      <4>1. task' = [task EXCEPT ![c].pc = "wait", ![c].for = "finalize"]
        BY <2>1 DEF SR!Finalize
      <4>2. task \in T
        BY DEF SR!TypeOK
      <4>3. c \in SR!Tasks /\ "wait" \in SR!Steps /\ "finalize" \in SR!Purposes
        BY <1>s, <1>t
      <4>4. [task EXCEPT ![c].pc = "wait", ![c].for = "finalize"] \in T
        BY <4>2, <4>3, LocalsKept, Zenon
      <4> QED
        BY <4>1, <4>4
    <3> QED
      BY <2>1, <3>1 DEF SR!Finalize, SR!TypeOK, SR!clearPendingEndpoint
  <2>2. CASE SR!CloseStream(c)
    <3>1. task' \in T
      <4>1. task' = [task EXCEPT ![c].pc = "wait", ![c].for = "close"]
        BY <2>2 DEF SR!CloseStream
      <4>2. task \in T
        BY DEF SR!TypeOK
      <4>3. c \in SR!Tasks /\ "wait" \in SR!Steps /\ "close" \in SR!Purposes
        BY <1>s, <1>t
      <4>4. [task EXCEPT ![c].pc = "wait", ![c].for = "close"] \in T
        BY <4>2, <4>3, LocalsKept, Zenon
      <4> QED
        BY <4>1, <4>4
    <3> QED
      BY <2>2, <3>1 DEF SR!CloseStream, SR!TypeOK, SR!clearPendingEndpoint
  <2>3. CASE SR!ReleaseLater(c)
    BY <2>3 DEF SR!ReleaseLater, SR!TypeOK
  <2> QED
    BY <1>3, <2>1, <2>2, <2>3 DEF SR!ControlStep
<1>4. CASE UNCHANGED SR!vars
  BY <1>4 DEF SR!vars, SR!TypeOK
<1> QED
  BY <1>1, <1>2, <1>3, <1>4, FrameTyped, FinalTyped DEF SR!Next

\* The holder of the gate is the only one that transcribes.
GateInv ==
    \A t \in SR!Tasks : task[t].pc \in {"partial", "text", "mark"} => gate = t

\* The segment it read begins where the last one ended.
SegmentInv ==
    \A t \in SR!Tasks : task[t].pc \in {"text", "mark"} =>
        task[t].from = finalizedUpTo /\ task[t].to \in finalizedUpTo..audio

\* A final has been sent, and the segment not been closed yet.
SentInv == \A t \in SR!Tasks : task[t].sent => task[t].pc = "mark"

\* What the client was given is closed, but for the final of a task at its mark.
WireInv ==
    \A i \in 1..Len(wire) : wire[i].kind = "final" =>
        /\ wire[i].from <= wire[i].to /\ wire[i].to <= audio
        /\ wire[i].to <= finalizedUpTo \/ \E t \in SR!Tasks : task[t].sent

StreamInv == SR!TypeOK /\ GateInv /\ SegmentInv /\ SentInv /\ WireInv /\ FinalsInOrder

\* A step that neither takes nor leaves the gate and reports no final: nobody begins
\* to transcribe, and whoever does so keeps its segment.
Quiet ==
    /\ gate' = gate /\ finalizedUpTo' = finalizedUpTo
    /\ audio' \in Nat /\ audio' >= audio
    /\ \/ wire' = wire
       \/ \E e \in SR!Event : e.kind # "final" /\ wire' = Append(wire, e)
    /\ \A t \in SR!Tasks :
          /\ task'[t].sent = task[t].sent
          /\ task[t].sent => task'[t].pc = "mark"
          /\ task'[t].pc \in {"partial", "text", "mark"} =>
                task[t].pc \in {"partial", "text", "mark"}
          /\ task'[t].pc \in {"text", "mark"} =>
                /\ task[t].pc \in {"text", "mark"}
                /\ task'[t].from = task[t].from /\ task'[t].to = task[t].to

LEMMA QuietKeeps ==
    ASSUME StreamInv, SR!TypeOK', Quiet
    PROVE  StreamInv'
<1> USE DEF StreamInv
<1>0. /\ wire \in Seq(SR!Event) /\ audio \in Nat /\ finalizedUpTo \in 0..audio
      /\ \A t \in SR!Tasks : task[t].to \in Nat
  BY LocalsTyped DEF SR!TypeOK
<1>1. GateInv'
  BY DEF Quiet, GateInv
<1>2. SegmentInv'
  BY <1>0 DEF Quiet, SegmentInv
<1>3. SentInv'
  BY DEF Quiet, SentInv
<1>4. \A i \in 1..Len(wire) : wire'[i] = wire[i]
  BY <1>0, AppendProperties DEF Quiet
<1>5. \A i \in 1..Len(wire') : wire'[i].kind = "final" => i \in 1..Len(wire)
  BY <1>0, AppendProperties DEF Quiet
<1>6. \A i \in 1..Len(wire) : wire[i].from \in Int /\ wire[i].to \in Int
  <2>1. \A i \in 1..Len(wire) : wire[i] \in SR!Event
    BY <1>0, ElementOfSeq
  <2> QED
    BY <2>1 DEF SR!Event
<1>7. WireInv'
  <2>1. ASSUME NEW i \in 1..Len(wire'), wire'[i].kind = "final"
        PROVE  /\ wire'[i].from <= wire'[i].to /\ wire'[i].to <= audio'
               /\ wire'[i].to <= finalizedUpTo' \/ \E t \in SR!Tasks : task'[t].sent
    <3>1. i \in 1..Len(wire) /\ wire'[i] = wire[i]
      BY <1>4, <1>5, <2>1
    <3>2. /\ wire[i].from <= wire[i].to /\ wire[i].to <= audio
          /\ wire[i].to <= finalizedUpTo \/ \E t \in SR!Tasks : task[t].sent
      BY <2>1, <3>1 DEF WireInv
    <3>3. wire[i].to <= audio'
      BY <1>0, <1>6, <3>1, <3>2 DEF Quiet
    <3> QED
      BY <3>1, <3>2, <3>3 DEF Quiet
  <2> QED
    BY <2>1 DEF WireInv
<1>8. FinalsInOrder'
  BY <1>4, <1>5 DEF FinalsInOrder
<1> QED
  BY <1>1, <1>2, <1>3, <1>7, <1>8

\* An event that is not a final, sent or, after the socket is closed, dropped.
LEMMA OtherSent ==
    ASSUME SR!TypeOK, NEW t \in SR!Tasks, NEW from \in Int, NEW to \in Int,
           NEW kind \in {"partial", "utterance_end", "error", "done", "close"},
           SR!Send(t, kind, from, to)
    PROVE  \/ wire' = wire
           \/ \E e \in SR!Event : e.kind # "final" /\ wire' = Append(wire, e)
BY DEF SR!Send, SR!Event

\* A task moves on to a step that needs no gate.
LEMMA MovesQuietly ==
    ASSUME StreamInv, NEW t \in SR!Tasks, task[t].pc # "mark",
           task' \in [SR!Tasks -> SR!Locals],
           \A u \in SR!Tasks \ {t} : task'[u] = task[u],
           task'[t].sent = task[t].sent,
           task'[t].pc \notin {"partial", "text", "mark"},
           gate' = gate, finalizedUpTo' = finalizedUpTo, audio' \in Nat, audio' >= audio,
           \/ wire' = wire
           \/ \E e \in SR!Event : e.kind # "final" /\ wire' = Append(wire, e)
    PROVE  Quiet
<1>1. ~task[t].sent
  BY DEF StreamInv, SentInv
<1>2. \A u \in SR!Tasks : task[u].sent => task[u].pc = "mark"
  BY DEF StreamInv, SentInv
<1> QED
  BY <1>1, <1>2 DEF Quiet

LEMMA FrameQuiet ==
    ASSUME StreamInv, NEW f \in Frames, SR!FrameStep(f), ~SR!TryPartial(f), ~SR!PartialDone(f)
    PROVE  Quiet
<1> USE DEF SR!buffer, SR!endpoint
<1>0. /\ f \in SR!Tasks /\ task \in [SR!Tasks -> SR!Locals] /\ SR!TypeOK
      /\ audio \in Nat /\ finalizedUpTo \in Nat
  BY DEF StreamInv, SR!TypeOK, SR!Tasks
<1>t. task' \in [SR!Tasks -> SR!Locals]
  BY <1>0, FrameTyped DEF SR!TypeOK
<1>1. CASE SR!AppendSamples(f)
  BY <1>0, <1>1, <1>t, MovesQuietly DEF SR!AppendSamples, SR!GoTo, SR!At, SR!Locals
<1>2. CASE SR!DrainVadChunk(f)
  BY <1>0, <1>2, <1>t, MovesQuietly DEF SR!DrainVadChunk, SR!At, SR!Locals
<1>3. CASE SR!VadDrained(f)
  BY <1>0, <1>3, <1>t, MovesQuietly DEF SR!VadDrained, SR!GoTo, SR!At, SR!Locals
<1>4. CASE SR!VadQuiet(f)
  BY <1>0, <1>4, <1>t, MovesQuietly DEF SR!VadQuiet, SR!GoTo, SR!At, SR!Locals
<1>5. CASE SR!SpeechStart(f)
  BY <1>0, <1>5, <1>t, MovesQuietly DEF SR!SpeechStart, SR!GoTo, SR!At, SR!Locals
<1>6. CASE SR!SpeechEnd(f)
  <2>1. CASE Endpointing = 0
    BY <1>0, <1>6, <1>t, <2>1, MovesQuietly DEF SR!SpeechEnd, SR!GoTo, SR!At, SR!Locals
  <2>2. CASE Endpointing # 0
    <3>1. PICK w \in Watchdogs :
             /\ task[w].pc = "new"
             /\ task' = [task EXCEPT ![f].pc = "due", ![w].pc = "due",
                                     ![w].seen = generation + 1]
      BY <1>6, <2>2 DEF SR!SpeechEnd, SR!At
    <3>2. w \in SR!Tasks /\ task[f].pc = "chunk"
      BY <1>6 DEF SR!Tasks, SR!SpeechEnd, SR!At
    <3>3. \A u \in SR!Tasks :
             /\ task'[u].sent = task[u].sent
             /\ task'[u].pc = IF u \in {f, w} THEN "due" ELSE task[u].pc
             /\ task'[u].from = task[u].from /\ task'[u].to = task[u].to
      BY <1>0, <3>1, <3>2 DEF SR!Locals
    <3>4. \A u \in SR!Tasks : task[u].sent => task[u].pc = "mark"
      BY DEF StreamInv, SentInv
    <3> QED
      BY <1>0, <1>6, <3>1, <3>2, <3>3, <3>4 DEF SR!SpeechEnd, Quiet
  <2> QED
    BY <2>1, <2>2
<1>7. CASE SR!EndpointDue(f)
  BY <1>0, <1>7, <1>t, MovesQuietly DEF SR!EndpointDue, SR!GoTo, SR!At, SR!Locals
<1>8. CASE SR!Rest(f)
  BY <1>0, <1>8, <1>t, MovesQuietly DEF SR!Rest, SR!GoTo, SR!At, SR!Locals
<1>9. CASE SR!SendPartial(f)
  <2>0. task[f].from \in Int /\ task[f].to \in Int
    BY <1>0, LocalsTyped
  <2>1. wire' = wire \/ \E e \in SR!Event : e.kind # "final" /\ wire' = Append(wire, e)
    BY <1>0, <1>9, <2>0, OtherSent DEF SR!SendPartial
  <2>2. /\ task[f].pc # "mark" /\ task'[f].pc = "end" /\ task'[f].sent = task[f].sent
        /\ \A u \in SR!Tasks \ {f} : task'[u] = task[u]
    BY <1>0, <1>9 DEF SR!SendPartial, SR!GoTo, SR!At, SR!Locals
  <2>3. gate' = gate /\ finalizedUpTo' = finalizedUpTo /\ audio' \in Nat /\ audio' >= audio
    BY <1>0, <1>9 DEF SR!SendPartial
  <2> QED
    BY <1>0, <1>t, <2>1, <2>2, <2>3, MovesQuietly
<1> QED
  BY <1>1, <1>2, <1>3, <1>4, <1>5, <1>6, <1>7, <1>8, <1>9 DEF SR!FrameStep

LEMMA ControlQuiet ==
    ASSUME StreamInv, NEW c \in SR!Controls, SR!ControlStep(c), ~SR!ReleaseLater(c)
    PROVE  Quiet
<1> USE DEF SR!buffer, SR!endpoint
<1>0. /\ c \in SR!Tasks /\ task \in [SR!Tasks -> SR!Locals] /\ SR!TypeOK
      /\ audio \in Nat /\ finalizedUpTo \in Nat
  BY DEF StreamInv, SR!TypeOK, SR!Tasks
<1>t. task' \in [SR!Tasks -> SR!Locals]
  BY <1>0, StreamTyped DEF SR!TypeOK, SR!Next
<1>1. CASE SR!Finalize(c)
  BY <1>0, <1>1, <1>t, MovesQuietly DEF SR!Finalize, SR!At, SR!Locals
<1>2. CASE SR!CloseStream(c)
  BY <1>0, <1>2, <1>t, MovesQuietly DEF SR!CloseStream, SR!At, SR!Locals
<1> QED
  BY <1>1, <1>2 DEF SR!ControlStep

\* A task at its final that has nothing to report, fails, or is past its mark.
LEMMA FinalQuiet ==
    ASSUME StreamInv, NEW t \in SR!Tasks,
           \/ SR!NoFinal(t) \/ SR!FinalFails(t) \/ SR!UtteranceEnd(t)
           \/ SR!Done(t) \/ SR!HangUp(t)
    PROVE  Quiet
<1> USE DEF SR!buffer, SR!endpoint
<1>0. /\ task \in [SR!Tasks -> SR!Locals] /\ SR!TypeOK
      /\ audio \in Nat /\ finalizedUpTo \in Nat
  BY DEF StreamInv, SR!TypeOK
<1>l. task[t].from \in Int /\ task[t].to \in Int /\ task[t].end \in Int /\ 0 \in Int
  BY <1>0, LocalsTyped
<1>t. task' \in [SR!Tasks -> SR!Locals]
  BY <1>0, FinalTyped DEF SR!TypeOK, SR!FinalStep
<1>1. CASE SR!NoFinal(t)
  <2>1. \A u \in SR!Tasks : task[u].sent => task[u].pc = "mark"
    BY DEF StreamInv, SentInv
  <2> QED
    BY <1>0, <1>1, <2>1 DEF SR!NoFinal, SR!GoTo, SR!At, SR!Locals, Quiet
<1>2. CASE SR!FinalFails(t) \/ SR!UtteranceEnd(t) \/ SR!Done(t) \/ SR!HangUp(t)
  <2>1. wire' = wire \/ \E e \in SR!Event : e.kind # "final" /\ wire' = Append(wire, e)
    BY <1>0, <1>2, <1>l, OtherSent DEF SR!FinalFails, SR!UtteranceEnd, SR!Done, SR!HangUp
  <2>2. /\ task[t].pc # "mark" /\ task'[t].sent = task[t].sent
        /\ task'[t].pc \notin {"partial", "text", "mark"}
        /\ \A u \in SR!Tasks \ {t} : task'[u] = task[u]
    BY <1>0, <1>2 DEF SR!FinalFails, SR!UtteranceEnd, SR!Done, SR!HangUp, SR!GoTo, SR!At,
                      SR!Locals
  <2>3. gate' = gate /\ finalizedUpTo' = finalizedUpTo /\ audio' \in Nat /\ audio' >= audio
    BY <1>0, <1>2 DEF SR!FinalFails, SR!UtteranceEnd, SR!Done, SR!HangUp
  <2> QED
    BY <1>0, <1>t, <2>1, <2>2, <2>3, MovesQuietly
<1> QED
  BY <1>1, <1>2

LEMMA OthersQuiet ==
    ASSUME StreamInv,
           \/ \E t \in Frames \cup SR!Controls : SR!Receive(t)
           \/ \E w \in Watchdogs : SR!WatchdogFires(w)
    PROVE  Quiet
<1> USE DEF SR!buffer, SR!endpoint
<1>0. /\ task \in [SR!Tasks -> SR!Locals] /\ SR!TypeOK
      /\ audio \in Nat /\ finalizedUpTo \in Nat
      /\ Frames \cup SR!Controls \cup Watchdogs \subseteq SR!Tasks
  BY DEF StreamInv, SR!TypeOK, SR!Tasks
<1>t. task' \in [SR!Tasks -> SR!Locals]
  BY <1>0, StreamTyped DEF SR!TypeOK, SR!Next
<1>1. ASSUME NEW t \in Frames \cup SR!Controls, SR!Receive(t)
      PROVE  Quiet
  BY <1>0, <1>1, <1>t, MovesQuietly DEF SR!Receive, SR!GoTo, SR!At, SR!Locals
<1>2. ASSUME NEW w \in Watchdogs, SR!WatchdogFires(w)
      PROVE  Quiet
  <2>1. w \in SR!Tasks
    BY <1>0
  <2>2. /\ task[w].pc # "mark" /\ task'[w].sent = task[w].sent
        /\ task'[w].pc \in {"wait", "end"}
        /\ \A u \in SR!Tasks \ {w} : task'[u] = task[u]
    <3>1. \/ task' = [task EXCEPT ![w].pc = "end"]
          \/ task' = [task EXCEPT ![w].pc = "wait", ![w].for = "endpoint", ![w].end = pendingEnd]
      BY <1>2 DEF SR!WatchdogFires, SR!GoTo
    <3>2. task[w].pc = "due"
      BY <1>2 DEF SR!WatchdogFires, SR!At
    <3>3. CASE task' = [task EXCEPT ![w].pc = "end"]
      BY <1>0, <2>1, <3>2, <3>3 DEF SR!Locals
    <3>4. CASE task' = [task EXCEPT ![w].pc = "wait", ![w].for = "endpoint", ![w].end = pendingEnd]
      BY <1>0, <2>1, <3>2, <3>4 DEF SR!Locals
    <3> QED
      BY <3>1, <3>3, <3>4
  <2>3. UNCHANGED <<gate, finalizedUpTo, audio, wire>>
    BY <1>2 DEF SR!WatchdogFires
  <2> QED
    BY <1>0, <1>t, <2>1, <2>2, <2>3, MovesQuietly
<1> QED
  BY <1>1, <1>2

-----------------------------------------------------------------------------
\* Taking the gate: nobody else transcribes, so the segment read is the next one.
LEMMA AcquireKeeps ==
    ASSUME NoTask \notin SR!Tasks, StreamInv, SR!TypeOK', NEW t \in SR!Tasks,
           SR!Acquire(t) \/ SR!TryPartial(t)
    PROVE  StreamInv'
<1> USE DEF SR!buffer, SR!endpoint
<1>0. /\ task \in [SR!Tasks -> SR!Locals] /\ audio \in Nat /\ finalizedUpTo \in 0..audio
  BY DEF StreamInv, SR!TypeOK
<1>1. CASE SR!TryPartial(t) /\ gate # NoTask
  <2>1. Quiet
    <3>1. /\ task[t].pc # "mark" /\ task'[t].sent = task[t].sent /\ task'[t].pc = "end"
          /\ \A u \in SR!Tasks \ {t} : task'[u] = task[u]
      BY <1>0, <1>1 DEF SR!TryPartial, SR!GoTo, SR!At, SR!Locals
    <3>2. UNCHANGED <<gate, finalizedUpTo, audio, wire>>
      BY <1>1 DEF SR!TryPartial
    <3>3. task' \in [SR!Tasks -> SR!Locals]
      BY DEF SR!TypeOK
    <3> QED
      BY <1>0, <3>1, <3>2, <3>3, MovesQuietly
  <2> QED
    BY <2>1, QuietKeeps
<1>2. CASE SR!Acquire(t) \/ (SR!TryPartial(t) /\ gate = NoTask)
  <2>1. gate = NoTask /\ gate' = t /\ task[t].pc \in {"wait", "try"}
    BY <1>2 DEF SR!Acquire, SR!TryPartial, SR!At
  <2>2. \A u \in SR!Tasks : task[u].pc \notin {"partial", "text", "mark"} /\ ~task[u].sent
    BY <2>1 DEF StreamInv, GateInv, SentInv
  <2>3. UNCHANGED <<audio, finalizedUpTo, wire>>
    BY <1>2 DEF SR!Acquire, SR!TryPartial
  <2>4. /\ task'[t].from = finalizedUpTo /\ task'[t].to = audio /\ ~task'[t].sent
        /\ \A u \in SR!Tasks \ {t} : task'[u] = task[u]
    BY <1>0, <1>2, <2>2 DEF SR!Acquire, SR!TryPartial, SR!Locals
  <2>5. GateInv' /\ SentInv'
    BY <2>1, <2>2, <2>4 DEF GateInv, SentInv
  <2>6. SegmentInv'
    BY <1>0, <2>2, <2>3, <2>4 DEF SegmentInv
  <2>7. WireInv'
    BY <2>2, <2>3 DEF StreamInv, WireInv
  <2>8. FinalsInOrder'
    BY <2>3 DEF StreamInv, FinalsInOrder
  <2> QED
    BY <2>5, <2>6, <2>7, <2>8 DEF StreamInv
<1> QED
  BY <1>1, <1>2

\* Giving it up: the holder is at no step that needs it.
LEMMA ReleaseKeeps ==
    ASSUME NoTask \notin SR!Tasks, StreamInv, SR!TypeOK', NEW t \in SR!Tasks,
           SR!PartialDone(t) \/ SR!ReleaseLater(t)
    PROVE  StreamInv'
<1> USE DEF SR!buffer, SR!endpoint
<1>0. task \in [SR!Tasks -> SR!Locals]
  BY DEF StreamInv, SR!TypeOK
<1>1. UNCHANGED <<audio, finalizedUpTo, wire>>
  BY DEF SR!PartialDone, SR!ReleaseLater
<1>2. gate = t /\ task[t].pc \notin {"text", "mark"}
  BY DEF SR!PartialDone, SR!ReleaseLater, SR!At, StreamInv, GateInv
<1>3. \A u \in SR!Tasks : /\ task'[u].sent = task[u].sent
                          /\ task'[u].pc \notin {"partial", "text", "mark"}
  BY <1>0, <1>2 DEF SR!PartialDone, SR!ReleaseLater, SR!GoTo, SR!At, SR!Locals,
                    StreamInv, GateInv
<1>4. \A u \in SR!Tasks : ~task[u].sent
  BY <1>2 DEF StreamInv, GateInv, SentInv
<1>5. GateInv' /\ SegmentInv' /\ SentInv'
  BY <1>3, <1>4 DEF GateInv, SegmentInv, SentInv
<1>6. WireInv' /\ FinalsInOrder'
  BY <1>1, <1>3, <1>4 DEF StreamInv, WireInv, FinalsInOrder
<1> QED
  BY <1>5, <1>6 DEF StreamInv

\* A final is about the segment after all those the client was given.
LEMMA SendFinalKeeps ==
    ASSUME StreamInv, SR!TypeOK', NEW t \in SR!Tasks, SR!SendFinal(t)
    PROVE  StreamInv'
<1> USE DEF SR!buffer, SR!endpoint
<1>0. /\ task \in [SR!Tasks -> SR!Locals] /\ audio \in Nat /\ finalizedUpTo \in 0..audio
      /\ wire \in Seq(SR!Event)
  BY DEF StreamInv, SR!TypeOK
<1> DEFINE e == [kind |-> "final", from |-> task[t].from, to |-> task[t].to, by |-> t]
<1>1. /\ task[t].pc = "text" /\ wire' = IF SR!hungUp THEN wire ELSE Append(wire, e)
      /\ UNCHANGED <<audio, finalizedUpTo, gate>>
  BY DEF SR!SendFinal, SR!Send, SR!At
<1>2. /\ task'[t].pc = "mark" /\ task'[t].sent
      /\ task'[t].from = task[t].from /\ task'[t].to = task[t].to
      /\ \A u \in SR!Tasks \ {t} : task'[u] = task[u]
  BY <1>0 DEF SR!SendFinal, SR!Locals
<1>3. \A u \in SR!Tasks : ~task[u].sent
  BY <1>1 DEF StreamInv, GateInv, SentInv
<1>4. e.kind = "final" /\ e.from = finalizedUpTo /\ e.to \in finalizedUpTo..audio
  BY <1>1 DEF StreamInv, SegmentInv
<1>5. /\ Len(wire) \in Nat
      /\ \/ wire' = wire
         \/ /\ Len(wire') = Len(wire) + 1 /\ wire'[Len(wire) + 1] = e
            /\ \A i \in 1..Len(wire) : wire'[i] = wire[i]
  <2>1. e \in SR!Event
    BY <1>0, <1>4 DEF SR!Event
  <2> HIDE DEF e
  <2> QED
    BY <1>0, <1>1, <2>1, AppendProperties
<1> HIDE DEF e
<1>6. GateInv' /\ SentInv'
  BY <1>1, <1>2, <1>3 DEF StreamInv, GateInv, SentInv
<1>7. SegmentInv'
  BY <1>1, <1>2 DEF StreamInv, SegmentInv
<1>8. \A i \in 1..Len(wire) : wire[i].kind = "final" =>
         wire[i].from <= wire[i].to /\ wire[i].to <= audio /\ wire[i].to <= finalizedUpTo
  BY <1>3 DEF StreamInv, WireInv
<1>9. WireInv'
  BY <1>0, <1>1, <1>2, <1>4, <1>5, <1>8 DEF WireInv
<1>10. FinalsInOrder'
  BY <1>4, <1>5, <1>8 DEF StreamInv, FinalsInOrder
<1> QED
  BY <1>6, <1>7, <1>9, <1>10 DEF StreamInv

\* The mark closes all that is buffered, and with it what was sent.
LEMMA MarkKeeps ==
    ASSUME NoTask \notin SR!Tasks, StreamInv, SR!TypeOK', NEW t \in SR!Tasks, SR!Mark(t)
    PROVE  StreamInv'
<1> USE DEF SR!buffer, SR!endpoint
<1>0. task \in [SR!Tasks -> SR!Locals]
  BY DEF StreamInv, SR!TypeOK
<1>1. task[t].pc = "mark" /\ gate = t /\ finalizedUpTo' = audio /\ UNCHANGED <<audio, wire>>
  BY DEF SR!Mark, SR!At, StreamInv, GateInv
<1>2. /\ task'[t].pc \notin {"partial", "text", "mark"} /\ ~task'[t].sent
      /\ \A u \in SR!Tasks \ {t} : task'[u] = task[u]
  BY <1>0 DEF SR!Mark, SR!AfterMark, SR!Locals
<1>3. \A u \in SR!Tasks : task'[u].pc \notin {"partial", "text", "mark"} /\ ~task'[u].sent
  BY <1>1, <1>2 DEF StreamInv, GateInv, SentInv
<1>4. GateInv' /\ SegmentInv' /\ SentInv'
  BY <1>3 DEF GateInv, SegmentInv, SentInv
<1>5. WireInv' /\ FinalsInOrder'
  BY <1>1 DEF StreamInv, WireInv, FinalsInOrder
<1> QED
  BY <1>4, <1>5 DEF StreamInv

LEMMA StreamStep ==
    ASSUME NoTask \notin SR!Tasks, StreamInv, [SR!Next]_(SR!vars)
    PROVE  StreamInv'
<1>0. SR!TypeOK'
  BY StreamTyped DEF StreamInv
<1>1. CASE \/ \E t \in Frames \cup SR!Controls : SR!Receive(t)
           \/ \E w \in Watchdogs : SR!WatchdogFires(w)
  BY <1>0, <1>1, OthersQuiet, QuietKeeps
<1>2. ASSUME NEW f \in Frames, SR!FrameStep(f)
      PROVE  StreamInv'
  <2>1. f \in SR!Tasks
    BY DEF SR!Tasks
  <2> QED
    BY <1>0, <1>2, <2>1, AcquireKeeps, ReleaseKeeps, FrameQuiet, QuietKeeps
<1>3. ASSUME NEW c \in SR!Controls, SR!ControlStep(c)
      PROVE  StreamInv'
  <2>1. c \in SR!Tasks
    BY DEF SR!Tasks
  <2> QED
    BY <1>0, <1>3, <2>1, ReleaseKeeps, ControlQuiet, QuietKeeps
<1>4. ASSUME NEW t \in SR!Tasks, SR!FinalStep(t)
      PROVE  StreamInv'
  BY <1>0, <1>4, AcquireKeeps, SendFinalKeeps, MarkKeeps, FinalQuiet, QuietKeeps
     DEF SR!FinalStep
<1>5. CASE UNCHANGED SR!vars
  <2>1. UNCHANGED <<audio, finalizedUpTo, gate, task, wire>>
    BY <1>5 DEF SR!vars, SR!buffer
  <2> QED
    BY <1>0, <2>1 DEF StreamInv, GateInv, SegmentInv, SentInv, WireInv, FinalsInOrder
<1> QED
  BY <1>1, <1>2, <1>3, <1>4, <1>5 DEF SR!Next

LEMMA StreamInit ==
    ASSUME SR!Init
    PROVE  StreamInv
<1>1. SR!TypeOK
  <2>1. task \in [SR!Tasks -> SR!Locals]
    BY DEF SR!Init, SR!Locals, SR!Steps, SR!Purposes, SR!NoEnd
  <2>2. wire \in Seq(SR!Event)
    BY DEF SR!Init
  <2>3. vad \in [backlog : Nat, processed : Nat, talking : BOOLEAN]
    BY DEF SR!Init
  <2>4. /\ audio = 0 /\ lastTranscribed = 0 /\ finalizedUpTo = 0 /\ finalsEmitted = 0
        /\ pendingEnd = SR!NoEnd /\ generation = 0 /\ gate = NoTask /\ heard = {}
    BY DEF SR!Init
  <2>5. closed \in BOOLEAN
    BY DEF SR!Init
  <2>6. /\ audio \in Nat /\ lastTranscribed \in 0..audio /\ finalizedUpTo \in 0..audio
        /\ finalsEmitted \in Nat /\ generation \in Nat
    BY <2>4
  <2> QED
    BY <2>1, <2>2, <2>3, <2>4, <2>5, <2>6 DEF SR!TypeOK
<1>2. \A t \in SR!Tasks : task[t].pc = "new" /\ ~task[t].sent
  BY DEF SR!Init
<1>3. wire = <<>>
  BY DEF SR!Init
<1> QED
  BY <1>1, <1>2, <1>3 DEF StreamInv, GateInv, SegmentInv, SentInv, WireInv, FinalsInOrder

\* StreamInv is inductive (StreamRoute.swift).
THEOREM StreamInvariance ==
    ASSUME NoTask \notin SR!Tasks
    PROVE  SR!Spec => []StreamInv
<1>1. SR!Init => StreamInv
  BY StreamInit
<1>2. StreamInv /\ [SR!Next]_(SR!vars) => StreamInv'
  BY StreamStep
<1> QED
  BY <1>1, <1>2, PTL DEF SR!Spec

\* However handlers, control messages and watchdogs interleave, the marks of a session
\* stay within its buffer, and what is given to the recognizer has been received.
THEOREM StreamTypeCorrect ==
    ASSUME NoTask \notin SR!Tasks
    PROVE  SR!Spec => []SR!TypeOK
<1>1. StreamInv => SR!TypeOK
  BY DEF StreamInv
<1> QED
  BY <1>1, StreamInvariance, PTL

\* The finals a client is given cover successive stretches of its stream, whatever
\* asks for them.
THEOREM FinalsAreInOrder ==
    ASSUME NoTask \notin SR!Tasks
    PROVE  SR!Spec => []FinalsInOrder
<1>1. StreamInv => FinalsInOrder
  BY DEF StreamInv
<1> QED
  BY <1>1, StreamInvariance, PTL

-----------------------------------------------------------------------------
(* RealtimeStream                                                          *)

Active == {"arrived", "buffering", "vad", "judging", "turn", "asr"}

\* A task carries the audio of its frame, and the loader's what it drained.
CarryInv ==
    /\ \A f \in RT!Frames :
          /\ worker[f].pc = "none" <=> f > sent
          /\ worker[f].pc \in Active => worker[f].samples = <<f>>
    /\ worker[0].pc \notin {"arrived", "buffering"}
    /\ worker[0].pc \in {"none", "over"} => worker[0].samples = <<>>
    /\ loader # "over" => worker[0].pc = "none"

\* What its task has parted with is in one place: queued, drained or given.
PlaceInv ==
    /\ IsInjective(worker[0].samples)
    /\ Range(pending) \cap Range(worker[0].samples) = {}
    /\ Range(engine.heard) \cap Range(worker[0].samples) = {}
    /\ \A f \in Range(pending) \cup Range(worker[0].samples) \cup Range(engine.heard) :
          worker[f].pc = "over"

\* Frames whose chunk is not in the VAD's buffer yet, and tasks that judge one.
Waiting == {f \in RT!Frames : worker[f].pc \in {"none", "arrived", "buffering"}}
Judging == {w \in RT!Workers : worker[w].pc = "judging"}

\* A frame is one chunk: waiting, queued, buffered, being judged or judged.
Chunks == backlog + Cardinality(Waiting) + Cardinality(Judging) + Len(pending)

ChunkInv ==
    /\ Chunks + judged <= MaxFrames
    /\ \A w \in Judging : Chunks + worker[w].read <= MaxFrames

-----------------------------------------------------------------------------
\* Sequences without repetition, put together.
LEMMA ConcatInjective ==
    ASSUME NEW T, NEW s \in Seq(T), NEW t \in Seq(T), IsInjective(s), IsInjective(t),
           Range(s) \cap Range(t) = {}
    PROVE  s \o t \in Seq(T) /\ IsInjective(s \o t) /\ Range(s \o t) = Range(s) \cup Range(t)
<1>1. /\ s \o t \in Seq(T) /\ Len(s) \in Nat /\ Len(t) \in Nat
      /\ DOMAIN s = 1..Len(s) /\ DOMAIN t = 1..Len(t)
      /\ DOMAIN (s \o t) = 1..(Len(s) + Len(t))
  BY ConcatProperties
<1>2. \A i \in 1..Len(s) : (s \o t)[i] = s[i]
  BY ConcatProperties
<1>3. \A i \in 1..Len(t) : (s \o t)[Len(s) + i] = t[i]
  BY ConcatProperties
<1>4. ASSUME NEW i \in 1..(Len(s) + Len(t))
      PROVE  \/ i \in 1..Len(s) /\ (s \o t)[i] = s[i]
             \/ i - Len(s) \in 1..Len(t) /\ (s \o t)[i] = t[i - Len(s)]
  <2>1. CASE i <= Len(s)
    BY <1>1, <1>2, <2>1
  <2>2. CASE i > Len(s)
    <3>1. i - Len(s) \in 1..Len(t) /\ Len(s) + (i - Len(s)) = i
      BY <1>1, <2>2
    <3>2. (s \o t)[Len(s) + (i - Len(s))] = t[i - Len(s)]
      BY <1>3, <3>1
    <3> QED
      BY <3>1, <3>2
  <2> QED
    BY <1>1, <2>1, <2>2
<1>5. \A i \in 1..Len(s), j \in 1..Len(t) : s[i] # t[j]
  <2>1. \A i \in 1..Len(s) : s[i] \in Range(s)
    BY <1>1 DEF Range
  <2>2. \A j \in 1..Len(t) : t[j] \in Range(t)
    BY <1>1 DEF Range
  <2> QED
    BY <2>1, <2>2
<1> DEFINE c == s \o t
<1>6. IsInjective(c)
  <2>1. ASSUME NEW i \in 1..(Len(s) + Len(t)), NEW j \in 1..(Len(s) + Len(t)), c[i] = c[j]
        PROVE  i = j
    <3>1. CASE i \in 1..Len(s) /\ c[i] = s[i] /\ j \in 1..Len(s) /\ c[j] = s[j]
      BY <1>1, <2>1, <3>1 DEF IsInjective
    <3>2. CASE /\ i - Len(s) \in 1..Len(t) /\ c[i] = t[i - Len(s)]
               /\ j - Len(s) \in 1..Len(t) /\ c[j] = t[j - Len(s)]
      <4>1. i - Len(s) = j - Len(s)
        BY <1>1, <2>1, <3>2 DEF IsInjective
      <4> QED
        BY <1>1, <4>1
    <3> HIDE DEF c
    <3>3. /\ \/ i \in 1..Len(s) /\ c[i] = s[i]
             \/ i - Len(s) \in 1..Len(t) /\ c[i] = t[i - Len(s)]
          /\ \/ j \in 1..Len(s) /\ c[j] = s[j]
             \/ j - Len(s) \in 1..Len(t) /\ c[j] = t[j - Len(s)]
      BY <1>4 DEF c
    <3> QED
      BY <1>5, <2>1, <3>1, <3>2, <3>3
  <2> HIDE DEF c
  <2>2. DOMAIN c = 1..(Len(s) + Len(t))
    BY <1>1 DEF c
  <2> QED
    BY <2>1, <2>2 DEF IsInjective
<1>7. Range(c) = Range(s) \cup Range(t)
  BY RangeConcatenation
<1> QED
  BY <1>1, <1>6, <1>7

LEMMA OneInjective ==
    ASSUME NEW T, NEW x \in T
    PROVE  <<x>> \in Seq(T) /\ IsInjective(<<x>>) /\ Range(<<x>>) = {x}
BY DEF IsInjective, Range

LEMMA AppendOnce ==
    ASSUME NEW T, NEW s \in Seq(T), NEW x \in T, IsInjective(s), x \notin Range(s)
    PROVE  /\ Append(s, x) \in Seq(T) /\ Len(Append(s, x)) = Len(s) + 1
           /\ IsInjective(Append(s, x)) /\ Range(Append(s, x)) = Range(s) \cup {x}
<1>1. Append(s, x) = s \o <<x>>
  BY AppendIsConcat
<1>2. /\ <<x>> \in Seq(T) /\ IsInjective(<<x>>) /\ Range(<<x>>) = {x}
      /\ Range(s) \cap Range(<<x>>) = {}
  BY OneInjective
<1>3. s \o <<x>> \in Seq(T) /\ IsInjective(s \o <<x>>) /\ Range(s \o <<x>>) = Range(s) \cup {x}
  <2> DEFINE t == <<x>>
  <2> HIDE DEF t
  <2>1. /\ t \in Seq(T) /\ IsInjective(t) /\ Range(t) = {x} /\ Range(s) \cap Range(t) = {}
    BY <1>2 DEF t
  <2>2. s \o t \in Seq(T) /\ IsInjective(s \o t) /\ Range(s \o t) = Range(s) \cup Range(t)
    BY <2>1, ConcatInjective
  <2> QED
    BY <2>1, <2>2 DEF t
<1> QED
  BY <1>1, <1>3, AppendProperties

LEMMA EmptyInjective == IsInjective(<<>>) /\ Range(<<>>) = {}
BY DEF IsInjective, Range

\* A sequence of frames stays one when more are sent.
LEMMA MoreSent ==
    ASSUME NEW n \in Nat, NEW s \in Seq(1..n)
    PROVE  s \in Seq(1..(n + 1))
<1>1. \A i \in 1..Len(s) : s[i] \in 1..(n + 1)
  BY ElementOfSeq
<1>2. Len(s) \in Nat /\ s = [i \in 1..Len(s) |-> s[i]]
  BY LenProperties
<1> QED
  BY <1>1, <1>2, SeqDef

-----------------------------------------------------------------------------
\* The parts of TypeOK one by one; a task's locals when n frames have been sent.
TaskType(n) == [pc : RT!Steps, samples : Seq(1..n), read : 0..MaxFrames]

Modes ==
    /\ eou \in BOOLEAN /\ link \in BOOLEAN /\ shut \in BOOLEAN /\ ready \in BOOLEAN
    /\ loader \in {"loading", "telling", "draining", "over"}
    /\ finalize \in {"none", "arrived", "asked", "over"}
    /\ close \in {"none", "arrived", "finishing", "answering", "over"}

EngineWith(h) == [heard : {h}, finished : BOOLEAN, released : BOOLEAN]

External ==
    /\ engine \in EngineWith(engine.heard)
    /\ out \subseteq Observed /\ seen \subseteq Observed

Flags == Modes /\ External

Audio ==
    /\ sent \in 0..MaxFrames /\ late \subseteq 1..sent
    /\ pending \in Seq(1..sent) /\ engine.heard \in Seq(1..sent)
    /\ worker \in [RT!Workers -> TaskType(sent)]
    /\ backlog \in Nat /\ judged \in Nat

RealtimeInv == Flags /\ Audio /\ CarryInv /\ PlaceInv /\ ChunkInv /\ HeardOnce

LEMMA TypeParts ==
    RT!TypeOK <=> Flags /\ Audio /\ backlog \in 0..MaxFrames /\ judged \in 0..MaxFrames
<1>2. {eou, link, shut, ready} \subseteq BOOLEAN <=>
         eou \in BOOLEAN /\ link \in BOOLEAN /\ shut \in BOOLEAN /\ ready \in BOOLEAN
  OBVIOUS
<1>3. engine \in [heard : Seq(1..sent), finished : BOOLEAN, released : BOOLEAN] <=>
         engine.heard \in Seq(1..sent) /\ engine \in EngineWith(engine.heard)
  BY DEF EngineWith
<1>4. out \cup seen \subseteq Observed <=> out \subseteq Observed /\ seen \subseteq Observed
  OBVIOUS
<1> QED
  BY <1>2, <1>3, <1>4 DEF RT!TypeOK, Flags, Modes, External, Audio, TaskType

-----------------------------------------------------------------------------
LEMMA ChunkSets ==
    ASSUME MaxFrames \in Nat
    PROVE  /\ IsFiniteSet(Waiting) /\ Cardinality(Waiting) \in Nat
           /\ IsFiniteSet(Judging) /\ Cardinality(Judging) \in Nat
           /\ Cardinality(Waiting)' \in Nat /\ Cardinality(Judging)' \in Nat
<1>1. IsFiniteSet(1..MaxFrames)
  BY FS_Interval
<1>2. IsFiniteSet((1..MaxFrames) \cup {0})
  BY <1>1, FS_AddElement, Zenon
<1>3. /\ Waiting \in SUBSET (1..MaxFrames) /\ Waiting' \in SUBSET (1..MaxFrames)
      /\ Judging \in SUBSET ((1..MaxFrames) \cup {0})
      /\ Judging' \in SUBSET ((1..MaxFrames) \cup {0})
  BY DEF Waiting, Judging, RT!Workers, RT!Frames
<1>4. IsFiniteSet(Waiting) /\ IsFiniteSet(Judging) /\ IsFiniteSet(Waiting') /\ IsFiniteSet(Judging')
  BY <1>1, <1>2, <1>3, FS_Subset, Zenon
<1> QED
  BY <1>4, FS_CardinalityType

LEMMA ChunksCounted ==
    ASSUME MaxFrames \in Nat, Audio
    PROVE  Chunks \in Nat /\ backlog <= Chunks
<1>1. Len(pending) \in Nat
  BY LenProperties DEF Audio
<1> QED
  BY <1>1, ChunkSets DEF Audio, Chunks

\* The buffer and the count of what was judged are bounded by the frames.
LEMMA ChunkBounds ==
    ASSUME MaxFrames \in Nat, Flags, Audio, ChunkInv
    PROVE  RT!TypeOK
<1>1. backlog \in 0..MaxFrames /\ judged \in 0..MaxFrames
  BY ChunksCounted DEF Audio, ChunkInv
<1> QED
  BY <1>1, TypeParts

LEMMA FewerStill ==
    ASSUME NEW c \in Nat, NEW d \in Nat, NEW n \in Nat, MaxFrames \in Nat, d <= c,
           c + n <= MaxFrames
    PROVE  d + n <= MaxFrames
OBVIOUS

\* No chunk is made.
LEMMA NoChunkMade ==
    ASSUME MaxFrames \in Nat, Audio, ChunkInv, judged' = judged,
           Judging' \subseteq Judging, \A w \in Judging' : worker'[w].read = worker[w].read,
           Chunks' <= Chunks, Audio'
    PROVE  ChunkInv'
<1>0. Chunks' \in Nat
  <2>1. pending' \in Seq(1..sent') /\ backlog' \in Nat
    BY DEF Audio
  <2>2. Len(pending') \in Nat
    BY <2>1, LenProperties
  <2> QED
    BY <2>1, <2>2, ChunkSets DEF Chunks
<1>1. Chunks \in Nat /\ judged \in Nat
  BY ChunksCounted DEF Audio
<1>2. \A w \in Judging' : worker[w].read \in Nat
  <2>1. \A w \in Judging' : worker[w] \in TaskType(sent)
    BY DEF Audio, Judging
  <2>2. \A t \in TaskType(sent) : t.read \in Nat
    BY DEF TaskType
  <2> QED
    BY <2>1, <2>2
<1>3. Chunks' + judged' <= MaxFrames
  <2>1. Chunks + judged <= MaxFrames
    BY DEF ChunkInv
  <2>2. Chunks' + judged <= MaxFrames
    BY <1>0, <1>1, <2>1, FewerStill
  <2> QED
    BY <2>2
<1>4. ASSUME NEW w \in Judging'
      PROVE  Chunks' + worker'[w].read <= MaxFrames
  <2>1. Chunks + worker[w].read <= MaxFrames /\ worker'[w].read = worker[w].read
    BY DEF ChunkInv
  <2>2. Chunks' + worker[w].read <= MaxFrames
    BY <1>0, <1>1, <1>2, <2>1, FewerStill
  <2> QED
    BY <2>1, <2>2
<1> QED
  BY <1>3, <1>4 DEF ChunkInv

\* Steps of the client, the loader and the control messages leave the audio alone.
LEMMA AudioStill ==
    ASSUME RealtimeInv, UNCHANGED <<sent, late, pending, backlog, judged, worker>>,
           engine'.heard = engine.heard, loader' # "over" => loader # "over"
    PROVE  Audio' /\ CarryInv' /\ PlaceInv' /\ ChunkInv' /\ HeardOnce'
<1>1. Audio
  BY DEF RealtimeInv
<1>2. Audio'
  BY <1>1 DEF Audio
<1>3. CarryInv' /\ PlaceInv' /\ HeardOnce'
  BY DEF RealtimeInv, CarryInv, PlaceInv, HeardOnce
<1>4. Waiting' = Waiting /\ Judging' = Judging
  BY DEF Waiting, Judging
<1>5. ChunkInv'
  BY <1>4 DEF RealtimeInv, ChunkInv, Chunks
<1> QED
  BY <1>2, <1>3, <1>5

LEMMA SamplesAreFrames ==
    ASSUME MaxFrames \in Nat, Audio
    PROVE  Range(pending) \cup Range(worker[0].samples) \cup Range(engine.heard)
              \subseteq RT!Frames
<1>1. worker[0].samples \in Seq(1..sent)
  BY DEF Audio, TaskType, RT!Workers
<1>2. 1..sent \subseteq RT!Frames
  BY DEF Audio, RT!Frames
<1> QED
  BY <1>1, <1>2, RangeOfSeq DEF Audio

\* A task moves on.
LEMMA MovesOn ==
    ASSUME Audio, NEW w \in RT!Workers, NEW pc \in RT!Steps, RT!Goto(w, pc)
    PROVE  /\ worker' \in [RT!Workers -> TaskType(sent)]
           /\ worker'[w].pc = pc
           /\ worker'[w].samples = worker[w].samples /\ worker'[w].read = worker[w].read
           /\ \A u \in RT!Workers \ {w} : worker'[u] = worker[u]
BY DEF Audio, RT!Goto, TaskType

\* The first frame that was not sent is one that waits; it is sent.
LEMMA SendKeeps ==
    ASSUME MaxFrames \in Nat, RealtimeInv, RT!ClientSendsAudio
    PROVE  Audio' /\ CarryInv' /\ PlaceInv' /\ ChunkInv' /\ HeardOnce'
<1> DEFINE f == sent + 1
<1>0. Audio /\ CarryInv /\ PlaceInv /\ ChunkInv /\ HeardOnce
  BY DEF RealtimeInv
<1>1. /\ f \in RT!Frames /\ f \in RT!Workers /\ f # 0 /\ sent \in Nat /\ sent' = f /\ f \in 1..f
      /\ worker' = [worker EXCEPT ![f] = [pc |-> "arrived", samples |-> <<f>>, read |-> 0]]
      /\ late' \subseteq 1..f
      /\ UNCHANGED <<pending, backlog, judged, loader, engine>>
  <2>1. /\ f \in RT!Frames /\ f \in RT!Workers /\ f # 0 /\ sent \in Nat /\ f \in 1..f
        /\ 1..sent \subseteq 1..f
    BY <1>0 DEF RT!ClientSendsAudio, RT!Frames, RT!Workers, Audio
  <2>2. late' \subseteq late \cup {f} /\ late \subseteq 1..sent
    BY <1>0 DEF RT!ClientSendsAudio, Audio
  <2>3. /\ sent' = f
        /\ worker' = [worker EXCEPT ![f] = [pc |-> "arrived", samples |-> <<f>>, read |-> 0]]
        /\ UNCHANGED <<pending, backlog, judged, loader, engine>>
    BY DEF RT!ClientSendsAudio, RT!session
  <2> HIDE DEF f
  <2> QED
    BY <2>1, <2>2, <2>3
<1>2. worker[f].pc = "none"
  BY <1>0, <1>1 DEF CarryInv
<1>3. /\ worker'[f] = [pc |-> "arrived", samples |-> <<f>>, read |-> 0]
      /\ \A u \in RT!Workers \ {f} : worker'[u] = worker[u]
  BY <1>0, <1>1 DEF Audio
<1>4. Audio'
  <2>1. pending \in Seq(1..f) /\ engine.heard \in Seq(1..f)
    BY <1>0, <1>1, MoreSent DEF Audio
  <2>2. TaskType(sent) \subseteq TaskType(f)
    BY <1>1, MoreSent DEF TaskType
  <2>3. [pc |-> "arrived", samples |-> <<f>>, read |-> 0] \in TaskType(f)
    <3>1. <<f>> \in Seq(1..f) /\ "arrived" \in RT!Steps /\ 0 \in 0..MaxFrames
      BY <1>1, OneInjective DEF RT!Steps
    <3> QED
      BY <3>1 DEF TaskType
  <2>4. worker' \in [RT!Workers -> TaskType(f)]
    <3> HIDE DEF f
    <3> QED
      BY <1>0, <1>1, <2>2, <2>3 DEF Audio
  <2>5. sent' \in 0..MaxFrames
    BY <1>1 DEF RT!Frames
  <2> QED
    BY <1>0, <1>1, <2>1, <2>4, <2>5 DEF Audio
<1>5. CarryInv'
  <2>1. 0 \in RT!Workers \ {f}
    BY <1>1 DEF RT!Workers
  <2>2. ASSUME NEW g \in RT!Frames
        PROVE  /\ worker'[g].pc = "none" <=> g > sent'
               /\ worker'[g].pc \in Active => worker'[g].samples = <<g>>
    <3>1. CASE g = f
      BY <1>1, <1>3, <3>1
    <3>2. CASE g # f
      <4>1. worker'[g] = worker[g] /\ g \in Nat
        BY <1>3, <3>2 DEF RT!Frames, RT!Workers
      <4> QED
        BY <1>0, <1>1, <3>2, <4>1 DEF CarryInv
    <3> QED
      BY <3>1, <3>2
  <2> QED
    BY <1>0, <1>1, <1>3, <2>1, <2>2 DEF CarryInv
<1>6. PlaceInv' /\ HeardOnce'
  <2>1. worker'[0] = worker[0]
    BY <1>1, <1>3 DEF RT!Workers
  <2>2. \A g \in Range(pending) \cup Range(worker[0].samples) \cup Range(engine.heard) :
           g # f /\ worker[g].pc = "over" /\ g \in RT!Workers
    <3>1. /\ Range(pending) \cup Range(worker[0].samples) \cup Range(engine.heard)
                \subseteq RT!Frames
          /\ RT!Frames \subseteq RT!Workers
      BY <1>0, SamplesAreFrames DEF RT!Workers
    <3> QED
      BY <1>0, <1>2, <3>1 DEF PlaceInv
  <2> QED
    BY <1>0, <1>1, <1>3, <2>1, <2>2 DEF PlaceInv, HeardOnce
<1>7. ChunkInv'
  <2>1. Waiting' = Waiting
    BY <1>1, <1>2, <1>3 DEF Waiting, RT!Workers
  <2>2. Judging' = Judging /\ \A w \in Judging : worker'[w] = worker[w]
    BY <1>2, <1>3 DEF Judging
  <2> QED
    BY <1>0, <1>1, <2>1, <2>2 DEF ChunkInv, Chunks
<1> QED
  BY <1>4, <1>5, <1>6, <1>7

-----------------------------------------------------------------------------
\* A task takes a step and keeps its audio; it may read the VAD's state.
Moves(w, pc) ==
    /\ worker' \in [RT!Workers -> TaskType(sent)]
    /\ worker'[w].pc = pc /\ worker'[w].samples = worker[w].samples
    /\ \A u \in RT!Workers \ {w} : worker'[u] = worker[u]

\* Audio stays with its task, or is queued as the task ends.
LEMMA MovesPlace ==
    ASSUME MaxFrames \in Nat, RealtimeInv, NEW w \in RT!Workers, worker[w].pc \in Active,
           NEW pc \in Active \cup {"over"},
           w = 0 => pc \in Active \ {"arrived", "buffering"},
           Moves(w, pc), UNCHANGED <<sent, late, loader>>,
           pending' = pending \/ (pc = "over" /\ pending' = Append(pending, w)),
           engine'.heard = engine.heard, backlog' \in Nat, judged' \in Nat
    PROVE  Audio' /\ CarryInv' /\ PlaceInv' /\ HeardOnce'
<1>0. Audio /\ CarryInv /\ PlaceInv /\ HeardOnce
  BY DEF RealtimeInv
<1>2. 0 \in RT!Workers /\ \A f \in RT!Frames : f \in RT!Workers /\ f # 0
  BY DEF RT!Workers, RT!Frames
<1>7. \A f \in Range(pending) \cup Range(worker[0].samples) \cup Range(engine.heard) : f # w
  BY <1>0 DEF PlaceInv, Active
<1>8. /\ pending' \in Seq(1..sent) /\ IsInjective(pending')
      /\ Range(pending') \subseteq Range(pending) \cup (IF pc = "over" THEN {w} ELSE {})
  <2>1. CASE pending' = pending
    BY <1>0, <2>1 DEF Audio, HeardOnce
  <2>2. CASE pc = "over" /\ pending' = Append(pending, w)
    <3>1. w \in 1..sent
      <4>1. w \in RT!Frames /\ worker[w].pc # "none"
        BY <2>2 DEF Active, RT!Workers
      <4>2. ~(w > sent)
        BY <1>0, <4>1 DEF CarryInv
      <4> QED
        BY <1>0, <4>1, <4>2 DEF Audio, RT!Frames
    <3>2. pending \in Seq(1..sent) /\ IsInjective(pending)
      BY <1>0 DEF Audio, HeardOnce
    <3>3. w \notin Range(pending)
      BY <1>7
    <3>4. /\ Append(pending, w) \in Seq(1..sent) /\ IsInjective(Append(pending, w))
          /\ Range(Append(pending, w)) = Range(pending) \cup {w}
      <4> DEFINE T == 1..sent
      <4> HIDE DEF T
      <4>1. w \in T /\ pending \in Seq(T) /\ IsInjective(pending) /\ w \notin Range(pending)
        BY <3>1, <3>2, <3>3 DEF T
      <4>2. /\ Append(pending, w) \in Seq(T) /\ IsInjective(Append(pending, w))
            /\ Range(Append(pending, w)) = Range(pending) \cup {w}
        BY <4>1, AppendOnce
      <4> QED
        BY <4>2 DEF T
    <3> QED
      BY <2>2, <3>4
  <2> QED
    BY <2>1, <2>2
<1>1. Audio'
  BY <1>0, <1>8 DEF Audio, Moves
<1>3. worker'[0].samples = worker[0].samples
  BY <1>2 DEF Moves
<1>4. CarryInv'
  <2>1. ASSUME NEW f \in RT!Frames
        PROVE  /\ worker'[f].pc = "none" <=> f > sent'
               /\ worker'[f].pc \in Active => worker'[f].samples = <<f>>
    <3>1. CASE f = w
      BY <1>0, <3>1 DEF CarryInv, Active, Moves
    <3>2. CASE f # w
      <4>1. worker'[f] = worker[f]
        BY <1>2, <3>2 DEF Moves
      <4> QED
        BY <1>0, <4>1 DEF CarryInv
    <3> QED
      BY <3>1, <3>2
  <2>2. CASE w = 0
    <3>1. worker'[0].pc = pc /\ pc \notin {"none", "over", "arrived", "buffering"}
      BY <2>2 DEF Moves, Active
    <3>2. loader = "over"
      BY <1>0, <2>2 DEF CarryInv, Active
    <3> QED
      BY <2>1, <3>1, <3>2 DEF CarryInv
  <2>3. CASE w # 0
    <3>1. worker'[0] = worker[0]
      BY <1>2, <2>3 DEF Moves
    <3> QED
      BY <1>0, <2>1, <3>1 DEF CarryInv
  <2> QED
    BY <2>2, <2>3
<1>5. PlaceInv'
  <2>1. ASSUME NEW f \in Range(pending) \cup Range(worker[0].samples) \cup Range(engine.heard)
        PROVE  worker'[f].pc = "over"
    <3>1. worker[f].pc = "over" /\ f # w
      BY <1>0, <1>7 DEF PlaceInv
    <3>2. f \in RT!Workers
      BY <1>0, SamplesAreFrames DEF RT!Workers
    <3> QED
      BY <3>1, <3>2 DEF Moves
  <2>2. pc = "over" => worker'[w].pc = "over"
    BY DEF Moves
  <2>3. \A f \in Range(pending') \cup Range(worker[0].samples) \cup Range(engine.heard) :
           worker'[f].pc = "over"
    BY <1>8, <2>1, <2>2
  <2>4. Range(pending') \cap Range(worker[0].samples) = {}
    BY <1>0, <1>7, <1>8 DEF PlaceInv
  <2> QED
    BY <1>0, <1>3, <2>3, <2>4 DEF PlaceInv
<1>6. HeardOnce'
  BY <1>0, <1>7, <1>8 DEF HeardOnce
<1> QED
  BY <1>1, <1>4, <1>5, <1>6

\* What the frames that wait and the tasks that judge become when a task moves on.
LEMMA MovesChunks ==
    ASSUME MaxFrames \in Nat, NEW w \in RT!Workers, worker[w].pc \in Active,
           NEW pc \in Active \cup {"over"}, worker'[w].pc = pc,
           w = 0 => {worker[w].pc, pc} \cap {"arrived", "buffering"} = {},
           \A u \in RT!Workers \ {w} : worker'[u] = worker[u]
    PROVE  /\ worker[w].pc \in {"arrived", "buffering"} /\ pc \notin {"arrived", "buffering"} =>
                 Cardinality(Waiting)' = Cardinality(Waiting) - 1
           /\ (worker[w].pc \in {"arrived", "buffering"} <=> pc \in {"arrived", "buffering"}) =>
                 Waiting' = Waiting
           /\ worker[w].pc # "judging" /\ pc # "judging" => Judging' = Judging
           /\ worker[w].pc # "judging" /\ pc = "judging" =>
                 /\ Judging' = Judging \cup {w}
                 /\ Cardinality(Judging)' = Cardinality(Judging) + 1
           /\ worker[w].pc = "judging" /\ pc # "judging" =>
                 /\ Judging' = Judging \ {w}
                 /\ Cardinality(Judging)' = Cardinality(Judging) - 1
<1> DEFINE W == {"arrived", "buffering"}
<1>0. worker[w].pc # "none" /\ pc # "none"
  BY DEF Active
<1>1. \A f \in RT!Frames : f \in RT!Workers
  BY DEF RT!Workers
<1>2. ASSUME worker[w].pc \in W, pc \notin W
      PROVE  Cardinality(Waiting)' = Cardinality(Waiting) - 1
  <2>1. w \in Waiting /\ Waiting' = Waiting \ {w}
    BY <1>0, <1>1, <1>2 DEF Waiting, RT!Workers
  <2>2. Cardinality(Waiting \ {w}) = Cardinality(Waiting) - 1
    BY <2>1, ChunkSets, FS_RemoveElement
  <2> QED
    BY <2>1, <2>2
<1>3. ASSUME worker[w].pc \in W <=> pc \in W
      PROVE  Waiting' = Waiting
  BY <1>0, <1>1, <1>3 DEF Waiting
<1>4. ASSUME worker[w].pc # "judging", pc # "judging"
      PROVE  Judging' = Judging
  BY <1>4 DEF Judging
<1>5. ASSUME worker[w].pc # "judging", pc = "judging"
      PROVE  Judging' = Judging \cup {w} /\ Cardinality(Judging)' = Cardinality(Judging) + 1
  <2>1. w \notin Judging /\ Judging' = Judging \cup {w}
    BY <1>5 DEF Judging
  <2>2. Cardinality(Judging \cup {w}) = Cardinality(Judging) + 1
    BY <2>1, ChunkSets, FS_AddElement
  <2> QED
    BY <2>1, <2>2
<1>6. ASSUME worker[w].pc = "judging", pc # "judging"
      PROVE  Judging' = Judging \ {w} /\ Cardinality(Judging)' = Cardinality(Judging) - 1
  <2>1. w \in Judging /\ Judging' = Judging \ {w}
    BY <1>6 DEF Judging
  <2>2. Cardinality(Judging \ {w}) = Cardinality(Judging) - 1
    BY <2>1, ChunkSets, FS_RemoveElement
  <2> QED
    BY <2>1, <2>2
<1> QED
  BY <1>2, <1>3, <1>4, <1>5, <1>6, Zenon

\* The lock is released on a frame that was dropped, kept for later or added.
LEMMA BinaryKeeps ==
    ASSUME MaxFrames \in Nat, RealtimeInv, NEW f \in RT!Workers, f # 0, RT!OnBinary(f)
    PROVE  Audio' /\ CarryInv' /\ PlaceInv' /\ ChunkInv' /\ HeardOnce'
<1>0. Audio /\ ChunkInv /\ worker[f].pc = "arrived"
  BY DEF RealtimeInv, RT!OnBinary, RT!At
<1>1. UNCHANGED <<sent, late, pending, loader, judged, engine>>
  BY DEF RT!OnBinary, RT!wire
<1>2. PICK pc \in {"over", "buffering", "vad"} :
         /\ RT!Goto(f, pc) /\ pending' = pending
         /\ \/ pc \in {"over", "buffering"} /\ backlog' = backlog
            \/ pc = "vad" /\ backlog' = backlog + 1
  BY DEF RT!OnBinary
<1>3. /\ Moves(f, pc) /\ worker'[f].read = worker[f].read
      /\ pc \in Active \cup {"over"} /\ worker[f].pc \in Active
  BY <1>0, <1>2, MovesOn DEF Moves, RT!Steps, Active
<1>4. backlog' \in Nat /\ judged' \in Nat
  BY <1>0, <1>1, <1>2 DEF Audio
<1>5. Audio' /\ CarryInv' /\ PlaceInv' /\ HeardOnce'
  BY <1>1, <1>3, <1>4, MovesPlace
<1>6. Judging' = Judging /\ \A w \in Judging : worker'[w] = worker[w]
  <2>1. Judging' = Judging
    BY <1>0, <1>2, <1>3, MovesChunks DEF Moves
  <2>2. \A w \in Judging : w # f /\ w \in RT!Workers
    BY <1>0 DEF Judging
  <2> QED
    BY <1>3, <2>1, <2>2 DEF Moves
<1>7. Chunks' <= Chunks
  <2>0. Len(pending) \in Nat
    BY <1>0, LenProperties DEF Audio
  <2>1. CASE pc = "buffering"
    <3>1. Waiting' = Waiting
      BY <1>0, <1>3, <2>1, MovesChunks DEF Moves
    <3> QED
      BY <1>0, <1>1, <1>2, <1>6, <2>0, <2>1, <3>1, ChunkSets DEF Audio, Chunks
  <2>2. CASE pc \in {"over", "vad"}
    <3>1. Cardinality(Waiting)' = Cardinality(Waiting) - 1
      BY <1>0, <1>3, <2>2, MovesChunks DEF Moves
    <3> QED
      BY <1>0, <1>1, <1>2, <1>6, <2>0, <2>2, <3>1, ChunkSets DEF Audio, Chunks
  <2> QED
    BY <1>2, <2>1, <2>2
<1>8. ChunkInv'
  BY <1>0, <1>1, <1>5, <1>6, <1>7, NoChunkMade
<1> QED
  BY <1>5, <1>8

\* appendPending: the frame's task ends with its audio in the queue.
LEMMA QueueKeeps ==
    ASSUME MaxFrames \in Nat, RealtimeInv, NEW f \in RT!Workers, f # 0, RT!AppendPending(f)
    PROVE  Audio' /\ CarryInv' /\ PlaceInv' /\ ChunkInv' /\ HeardOnce'
<1>0. Audio /\ ChunkInv /\ worker[f].pc = "buffering"
  BY DEF RealtimeInv, RT!AppendPending, RT!At
<1>1. /\ pending' = Append(pending, f) /\ RT!Goto(f, "over")
      /\ UNCHANGED <<sent, late, loader, backlog, judged, engine>>
  BY DEF RT!AppendPending, RT!wire
<1>2. Moves(f, "over") /\ worker[f].pc \in Active
  BY <1>0, <1>1, MovesOn DEF Moves, RT!Steps, Active
<1>3. backlog' \in Nat /\ judged' \in Nat
  BY <1>0, <1>1 DEF Audio
<1>4. Audio' /\ CarryInv' /\ PlaceInv' /\ HeardOnce'
  BY <1>1, <1>2, <1>3, MovesPlace
<1>5. Judging' = Judging /\ \A w \in Judging : worker'[w] = worker[w]
  <2>1. Judging' = Judging
    BY <1>0, <1>2, MovesChunks DEF Moves
  <2>2. \A w \in Judging : w # f /\ w \in RT!Workers
    BY <1>0 DEF Judging
  <2> QED
    BY <1>2, <2>1, <2>2 DEF Moves
<1>6. Chunks' <= Chunks
  <2>1. Cardinality(Waiting)' = Cardinality(Waiting) - 1
    BY <1>0, <1>2, MovesChunks DEF Moves
  <2>2. f \in 1..sent
    <3>1. f \in RT!Frames /\ ~(f > sent)
      BY <1>0 DEF RealtimeInv, CarryInv, RT!Workers
    <3> QED
      BY <1>0, <3>1 DEF Audio, RT!Frames
  <2>3. Len(Append(pending, f)) = Len(pending) + 1 /\ Len(pending) \in Nat
    BY <1>0, <2>2, AppendProperties, LenProperties DEF Audio
  <2> QED
    BY <1>0, <1>1, <1>5, <2>1, <2>3, ChunkSets DEF Audio, Chunks
<1>7. ChunkInv'
  BY <1>0, <1>1, <1>4, <1>5, <1>6, NoChunkMade
<1> QED
  BY <1>4, <1>7

\* drainVadChunk: what leaves the buffer is judged from the state that is read.
LEMMA DrainKeeps ==
    ASSUME MaxFrames \in Nat, RealtimeInv, NEW w \in RT!Workers, RT!DrainVadChunk(w)
    PROVE  Audio' /\ CarryInv' /\ PlaceInv' /\ ChunkInv' /\ HeardOnce'
<1>0. Audio /\ ChunkInv /\ worker[w].pc = "vad" /\ worker[w].pc \in Active
  BY DEF RealtimeInv, RT!DrainVadChunk, RT!At, Active
<1>1. UNCHANGED <<sent, late, pending, loader, judged, engine>>
  BY DEF RT!DrainVadChunk, RT!wire
<1>2. CASE RT!Goto(w, "asr") /\ backlog' = backlog
  <2>1. Moves(w, "asr") /\ backlog' \in Nat /\ judged' \in Nat
    BY <1>0, <1>1, <1>2, MovesOn DEF Moves, RT!Steps, Active, Audio
  <2>2. Audio' /\ CarryInv' /\ PlaceInv' /\ HeardOnce'
    BY <1>0, <1>1, <2>1, MovesPlace DEF Active
  <2>3. Waiting' = Waiting /\ Judging' = Judging
    BY <1>0, <2>1, MovesChunks DEF Moves, Active
  <2>4. \A u \in Judging : worker'[u] = worker[u]
    BY <1>0, <2>1 DEF Judging, Moves
  <2> QED
    BY <1>0, <1>1, <1>2, <2>2, <2>3, <2>4 DEF ChunkInv, Chunks
<1>3. CASE /\ backlog # 0 /\ backlog' = backlog - 1
           /\ worker' = [worker EXCEPT ![w].pc = "judging", ![w].read = judged]
  <2>1. judged \in 0..MaxFrames /\ judged \in Nat
    BY <1>0, ChunkBounds DEF RealtimeInv, RT!TypeOK
  <2>2. Moves(w, "judging") /\ worker'[w].read = judged
    BY <1>0, <1>3, <2>1 DEF Moves, RT!Steps, Audio, TaskType
  <2>3. backlog' \in Nat /\ judged' \in Nat
    BY <1>0, <1>1, <1>3 DEF Audio
  <2>4. Audio' /\ CarryInv' /\ PlaceInv' /\ HeardOnce'
    BY <1>0, <1>1, <2>2, <2>3, MovesPlace DEF Active
  <2>5. /\ Waiting' = Waiting /\ Judging' = Judging \cup {w}
        /\ Cardinality(Judging)' = Cardinality(Judging) + 1
    BY <1>0, <2>2, MovesChunks DEF Moves, Active
  <2>6. \A u \in Judging : worker'[u] = worker[u]
    BY <1>0, <2>2 DEF Judging, Moves
  <2>7. Chunks' = Chunks
    <3>1. Len(pending) \in Nat
      BY <1>0, LenProperties DEF Audio
    <3> QED
      BY <1>0, <1>1, <1>3, <2>5, <3>1, ChunkSets DEF Audio, Chunks
  <2>8. ChunkInv'
    BY <1>0, <1>1, <2>2, <2>5, <2>6, <2>7 DEF ChunkInv
  <2> QED
    BY <2>4, <2>8
<1> QED
  BY <1>0, <1>2, <1>3 DEF RT!DrainVadChunk

\* The VAD answers, or fails: the chunk is no longer being judged.
LEMMA VadKeeps ==
    ASSUME MaxFrames \in Nat, RealtimeInv, NEW w \in RT!Workers, RT!VadResult(w)
    PROVE  Audio' /\ CarryInv' /\ PlaceInv' /\ ChunkInv' /\ HeardOnce'
<1>0. Audio /\ ChunkInv /\ worker[w].pc = "judging" /\ worker[w].pc \in Active
  BY DEF RealtimeInv, RT!VadResult, RT!At, Active
<1>1. UNCHANGED <<sent, late, pending, loader, backlog, engine>>
  BY DEF RT!VadResult, RT!wire
<1>2. PICK pc \in {"vad", "turn"} :
         RT!Goto(w, pc) /\ (judged' = judged \/ judged' = worker[w].read + 1)
  BY DEF RT!VadResult
<1>3. Moves(w, pc) /\ pc \in Active \ {"arrived", "buffering"} /\ pc # "judging"
  BY <1>0, <1>2, MovesOn DEF Moves, RT!Steps, Active
<1>4. worker[w].read \in Nat
  <2>1. worker[w] \in TaskType(sent)
    BY <1>0 DEF Audio
  <2> QED
    BY <2>1 DEF TaskType
<1>5. backlog' \in Nat /\ judged' \in Nat
  BY <1>0, <1>1, <1>2, <1>4 DEF Audio
<1>6. Audio' /\ CarryInv' /\ PlaceInv' /\ HeardOnce'
  BY <1>0, <1>1, <1>3, <1>5, MovesPlace
<1>7. /\ Waiting' = Waiting /\ Judging' = Judging \ {w}
      /\ Cardinality(Judging)' = Cardinality(Judging) - 1
  BY <1>0, <1>3, MovesChunks DEF Moves, Active
<1>8. \A u \in Judging \ {w} : worker'[u] = worker[u]
  BY <1>0, <1>3 DEF Judging, Moves
<1>9. Chunks' = Chunks - 1 /\ Chunks \in Nat
  <2>1. Len(pending) \in Nat
    BY <1>0, LenProperties DEF Audio
  <2>2. backlog \in Nat
    BY <1>0 DEF Audio
  <2> QED
    BY <1>0, <1>1, <1>7, <2>1, <2>2, ChunkSets DEF Chunks
<1>10. Chunks + judged <= MaxFrames /\ Chunks + worker[w].read <= MaxFrames
  BY <1>0 DEF ChunkInv, Judging
<1>11. Chunks' + judged' <= MaxFrames
  BY <1>0, <1>2, <1>4, <1>9, <1>10 DEF Audio
<1>12. ASSUME NEW u \in Judging'
       PROVE  Chunks' + worker'[u].read <= MaxFrames
  <2>1. Chunks + worker[u].read <= MaxFrames /\ worker'[u] = worker[u] /\ u \in RT!Workers
    BY <1>0, <1>7, <1>8 DEF ChunkInv, Judging
  <2>2. worker[u] \in TaskType(sent)
    BY <1>0, <2>1 DEF Audio
  <2>3. worker[u].read \in Nat
    BY <2>2 DEF TaskType
  <2> QED
    BY <1>9, <2>1, <2>3
<1> QED
  BY <1>6, <1>11, <1>12 DEF ChunkInv

\* A turn is told, or nothing: the task goes on with the next chunk.
LEMMA TurnKeeps ==
    ASSUME MaxFrames \in Nat, RealtimeInv, NEW w \in RT!Workers, RT!EmitTurnEnd(w)
    PROVE  Audio' /\ CarryInv' /\ PlaceInv' /\ ChunkInv' /\ HeardOnce'
<1>0. Audio /\ ChunkInv /\ worker[w].pc = "turn" /\ worker[w].pc \in Active
  BY DEF RealtimeInv, RT!EmitTurnEnd, RT!At, Active
<1>1. UNCHANGED <<sent, late, pending, loader, judged, backlog, engine>> /\ RT!Goto(w, "vad")
  BY DEF RT!EmitTurnEnd, RT!wire, RT!session
<1>2. Moves(w, "vad") /\ backlog' \in Nat /\ judged' \in Nat
  BY <1>0, <1>1, MovesOn DEF Moves, RT!Steps, Active, Audio
<1>3. Audio' /\ CarryInv' /\ PlaceInv' /\ HeardOnce'
  BY <1>0, <1>1, <1>2, MovesPlace DEF Active
<1>4. Waiting' = Waiting /\ Judging' = Judging
  BY <1>0, <1>2, MovesChunks DEF Moves, Active
<1>5. \A u \in Judging : worker'[u] = worker[u]
  BY <1>0, <1>2 DEF Judging, Moves
<1> QED
  BY <1>0, <1>1, <1>3, <1>4, <1>5 DEF ChunkInv, Chunks

\* The engine is given the audio of a task: it is in no other place.
LEMMA HearKeeps ==
    ASSUME MaxFrames \in Nat, RealtimeInv, NEW w \in RT!Workers, RT!ProcessBufferedAudio(w)
    PROVE  Audio' /\ CarryInv' /\ PlaceInv' /\ ChunkInv' /\ HeardOnce'
<1> DEFINE s == worker[w].samples
<1>0. /\ Audio /\ CarryInv /\ PlaceInv /\ ChunkInv /\ HeardOnce
      /\ worker[w].pc = "asr" /\ worker[w].pc \in Active
  BY DEF RealtimeInv, RT!ProcessBufferedAudio, RT!At, Active
<1>1. /\ UNCHANGED <<sent, late, pending, loader, judged, backlog>>
      /\ engine' = [engine EXCEPT !.heard = @ \o s]
      /\ worker' = [worker EXCEPT ![w] = [pc |-> "over", samples |-> <<>>, read |-> 0]]
  <2>1. [RT!Idle EXCEPT !.pc = "over"] = [pc |-> "over", samples |-> <<>>, read |-> 0]
    BY DEF RT!Idle
  <2> QED
    BY <2>1 DEF RT!ProcessBufferedAudio, RT!wire, RT!session
<1>2. /\ worker'[w] = [pc |-> "over", samples |-> <<>>, read |-> 0]
      /\ \A u \in RT!Workers \ {w} : worker'[u] = worker[u]
  BY <1>0, <1>1 DEF Audio
<1>3. engine'.heard = engine.heard \o s
  BY <1>1 DEF RealtimeInv, Flags, External, EngineWith
<1>4. /\ s \in Seq(1..sent) /\ IsInjective(s)
      /\ Range(s) \cap Range(pending) = {} /\ Range(s) \cap Range(engine.heard) = {}
      /\ \A f \in Range(s) : f = w \/ worker[f].pc = "over"
      /\ w # 0 => Range(s) \cap Range(worker[0].samples) = {}
  <2>1. s \in Seq(1..sent)
    BY <1>0 DEF Audio, TaskType
  <2>2. CASE w = 0
    BY <1>0, <2>1, <2>2 DEF PlaceInv
  <2>3. CASE w # 0
    <3>1. w \in RT!Frames /\ s = <<w>>
      BY <1>0, <2>3 DEF CarryInv, RT!Workers
    <3>2. IsInjective(s) /\ Range(s) = {w}
      BY <3>1, OneInjective
    <3>3. w \notin Range(pending) \cup Range(worker[0].samples) \cup Range(engine.heard)
      BY <1>0 DEF PlaceInv
    <3> QED
      BY <2>1, <3>2, <3>3
  <2> QED
    BY <2>2, <2>3
<1>5. /\ engine'.heard \in Seq(1..sent) /\ IsInjective(engine'.heard)
      /\ Range(engine'.heard) = Range(engine.heard) \cup Range(s)
  <2> DEFINE T == 1..sent  h == engine.heard
  <2>1. h \in Seq(T) /\ s \in Seq(T) /\ IsInjective(h) /\ IsInjective(s) /\ Range(h) \cap Range(s) = {}
    BY <1>0, <1>4 DEF Audio, HeardOnce
  <2>2. engine'.heard = h \o s
    BY <1>3
  <2> HIDE DEF T, h, s
  <2>3. h \o s \in Seq(T) /\ IsInjective(h \o s) /\ Range(h \o s) = Range(h) \cup Range(s)
    BY <2>1, ConcatInjective
  <2> QED
    BY <2>2, <2>3 DEF T, h
<1>6. Audio'
  <2>1. [pc |-> "over", samples |-> <<>>, read |-> 0] \in TaskType(sent)
    BY DEF TaskType, RT!Steps
  <2> QED
    BY <1>0, <1>1, <1>5, <2>1 DEF Audio
<1> HIDE DEF s
<1>7. 0 \in RT!Workers /\ \A f \in RT!Frames : f \in RT!Workers /\ f # 0
  BY DEF RT!Workers, RT!Frames
<1>8. CarryInv'
  <2>1. ASSUME NEW f \in RT!Frames
        PROVE  /\ worker'[f].pc = "none" <=> f > sent'
               /\ worker'[f].pc \in Active => worker'[f].samples = <<f>>
    <3>1. CASE f = w
      BY <1>0, <1>1, <1>2, <3>1 DEF CarryInv, Active
    <3>2. CASE f # w
      BY <1>0, <1>1, <1>2, <1>7, <3>2 DEF CarryInv
    <3> QED
      BY <3>1, <3>2
  <2>2. /\ worker'[0].pc \notin {"arrived", "buffering"}
        /\ worker'[0].pc \in {"none", "over"} => worker'[0].samples = <<>>
        /\ loader' # "over" => worker'[0].pc = "none"
    <3>1. CASE w = 0
      BY <1>0, <1>1, <1>2, <3>1 DEF CarryInv, Active
    <3>2. CASE w # 0
      BY <1>0, <1>1, <1>2, <1>7, <3>2 DEF CarryInv
    <3> QED
      BY <3>1, <3>2
  <2> QED
    BY <2>1, <2>2 DEF CarryInv
<1>9. PlaceInv'
  <2>1. IsInjective(worker'[0].samples) /\
        Range(worker'[0].samples) \cap (Range(pending) \cup Range(engine'.heard)) = {}
    <3>1. CASE w = 0
      BY <1>2, <3>1, EmptyInjective
    <3>2. CASE w # 0
      BY <1>0, <1>2, <1>4, <1>5, <1>7, <3>2 DEF PlaceInv
    <3> QED
      BY <3>1, <3>2
  <2>2. Range(worker'[0].samples) \subseteq Range(worker[0].samples)
    <3>1. CASE w = 0
      BY <1>2, <3>1, EmptyInjective
    <3>2. CASE w # 0
      BY <1>2, <1>7, <3>2
    <3> QED
      BY <3>1, <3>2
  <2>3. ASSUME NEW f \in Range(pending) \cup Range(worker'[0].samples) \cup Range(engine'.heard)
        PROVE  worker'[f].pc = "over"
    <3>1. CASE f = w
      BY <1>2, <3>1
    <3>2. CASE f # w
      <4>1. worker[f].pc = "over"
        BY <1>0, <1>4, <1>5, <2>2, <3>2 DEF PlaceInv
      <4>2. f \in RT!Workers
        <5>1. Range(engine'.heard) \subseteq 1..sent
          BY <1>5, RangeOfSeq
        <5>2. 1..sent \subseteq RT!Workers
          BY <1>0 DEF Audio, RT!Workers, RT!Frames
        <5> QED
          BY <1>0, <2>2, <5>1, <5>2, SamplesAreFrames DEF RT!Workers
      <4> QED
        BY <1>2, <3>2, <4>1, <4>2
    <3> QED
      BY <3>1, <3>2
  <2> QED
    BY <1>1, <2>1, <2>3 DEF PlaceInv
<1>10. HeardOnce'
  BY <1>0, <1>1, <1>4, <1>5 DEF HeardOnce
<1>11. ChunkInv'
  <2>1. w = 0 => {worker[w].pc, "over"} \cap {"arrived", "buffering"} = {}
    BY <1>0
  <2>2. Waiting' = Waiting /\ Judging' = Judging
    BY <1>0, <1>2, <2>1, MovesChunks DEF Active
  <2>3. \A u \in Judging : worker'[u] = worker[u]
    BY <1>0, <1>2 DEF Judging
  <2> QED
    BY <1>0, <1>1, <2>2, <2>3 DEF ChunkInv, Chunks
<1> QED
  BY <1>6, <1>8, <1>9, <1>10, <1>11

\* The loader takes the whole queue with it.
LEMMA DrainPendingKeeps ==
    ASSUME MaxFrames \in Nat, RealtimeInv, RT!DrainPending
    PROVE  Audio' /\ CarryInv' /\ PlaceInv' /\ ChunkInv' /\ HeardOnce'
<1>0. Audio /\ CarryInv /\ PlaceInv /\ ChunkInv /\ HeardOnce
  BY DEF RealtimeInv
<1>1. /\ worker[0].pc = "none" /\ worker[0].samples = <<>> /\ loader' = "over"
      /\ UNCHANGED <<sent, late, judged, engine>> /\ pending' = <<>>
  BY <1>0 DEF RT!DrainPending, RT!wire, CarryInv
<1>2. Len(pending) \in Nat
  BY <1>0, LenProperties DEF Audio
<1>3. CASE pending = <<>> /\ UNCHANGED <<worker, backlog>>
  BY <1>0, <1>1, <1>3, AudioStill DEF RealtimeInv
<1>4. CASE /\ worker' = [worker EXCEPT ![0] = [pc |-> "vad", samples |-> pending, read |-> 0]]
           /\ backlog' = backlog + Len(pending)
  <2>1. 0 \in RT!Workers /\ \A f \in RT!Frames : f \in RT!Workers /\ f # 0
    BY DEF RT!Workers, RT!Frames
  <2>2. /\ worker'[0] = [pc |-> "vad", samples |-> pending, read |-> 0]
        /\ \A u \in RT!Workers \ {0} : worker'[u] = worker[u]
    BY <1>0, <1>4, <2>1 DEF Audio
  <2>3. Audio'
    <3>1. [pc |-> "vad", samples |-> pending, read |-> 0] \in TaskType(sent)
      BY <1>0 DEF Audio, TaskType, RT!Steps
    <3>2. <<>> \in Seq(1..sent) /\ backlog' \in Nat
      BY <1>0, <1>2, <1>4 DEF Audio
    <3> QED
      BY <1>0, <1>1, <1>4, <3>1, <3>2 DEF Audio
  <2>4. CarryInv'
    BY <1>0, <1>1, <2>1, <2>2 DEF CarryInv
  <2>5. PlaceInv' /\ HeardOnce'
    <3>1. ASSUME NEW f \in Range(pending) \cup Range(engine.heard)
          PROVE  worker'[f].pc = "over"
      <4>1. worker[f].pc = "over" /\ f \in RT!Frames
        BY <1>0, SamplesAreFrames DEF PlaceInv
      <4> QED
        BY <2>1, <2>2, <4>1
    <3> QED
      BY <1>0, <1>1, <2>2, <3>1, EmptyInjective DEF PlaceInv, HeardOnce
  <2>6. Waiting' = Waiting /\ Judging' = Judging
    BY <1>1, <2>1, <2>2 DEF Waiting, Judging
  <2>7. \A u \in Judging : worker'[u] = worker[u]
    BY <1>1, <2>2 DEF Judging
  <2>8. Chunks' = Chunks
    <3>1. Len(pending') = 0 /\ backlog \in Nat
      BY <1>0, <1>1 DEF Audio
    <3> QED
      BY <1>2, <1>4, <2>6, <3>1, ChunkSets DEF Chunks
  <2>9. ChunkInv'
    BY <1>0, <1>1, <2>6, <2>7, <2>8 DEF ChunkInv
  <2> QED
    BY <2>3, <2>4, <2>5, <2>9
<1> QED
  BY <1>0, <1>3, <1>4 DEF RT!DrainPending

-----------------------------------------------------------------------------
\* What a step does to the engine but for the audio, and to the messages.
Finished == [engine EXCEPT !.finished = TRUE]
Released == [engine EXCEPT !.released = TRUE]

LEMMA EngineSet ==
    ASSUME External
    PROVE  /\ Finished \in EngineWith(engine.heard) /\ Released \in EngineWith(engine.heard)
           /\ \A s : [engine EXCEPT !.heard = @ \o s] \in EngineWith(engine.heard \o s)
           /\ \A s, e : e \in EngineWith(s) => e.heard = s
BY DEF External, Finished, Released, EngineWith

LEMMA ExternalSet ==
    ASSUME External,
           \/ engine' \in {engine, Finished, Released}
           \/ \E s : engine' = [engine EXCEPT !.heard = @ \o s],
           \/ out' \subseteq out
           \/ \E kinds : RT!Send(kinds),
           seen' \subseteq seen \cup out
    PROVE  External'
<1>1. PICK s : engine' \in EngineWith(s)
  BY EngineSet DEF External
<1>2. engine' \in EngineWith(engine'.heard)
  BY <1>1, EngineSet
<1>3. out' \subseteq Observed /\ seen' \subseteq Observed
  BY DEF External, RT!Send
<1> QED
  BY <1>2, <1>3 DEF External, EngineWith

LEMMA FlagsKept ==
    ASSUME Flags, RT!Next
    PROVE  Flags'
<1> USE DEF Flags
<1>1. CASE RT!Client \/ RT!Deliver
  <2>1. /\ engine' \in {engine, Released}
        /\ out' \subseteq out /\ seen' \subseteq seen \cup out
    BY <1>1 DEF RT!Client, RT!ClientSendsAudio, RT!ClientSendsControl, RT!ClientLeaves,
       RT!Cleanup, RT!Deliver, RT!wire, RT!session, RT!tasks, Released
  <2>2. Modes'
    <3>1. UNCHANGED <<eou, ready, loader>>
      BY <1>1 DEF RT!Client, RT!ClientSendsAudio, RT!ClientSendsControl, RT!ClientLeaves,
         RT!Deliver, RT!wire, RT!session, RT!tasks
    <3>2. link' \in {link, FALSE} /\ shut' \in {shut, TRUE}
      BY <1>1 DEF RT!Client, RT!ClientSendsAudio, RT!ClientSendsControl, RT!ClientLeaves,
         RT!Deliver, RT!wire, RT!session
    <3>3. finalize' \in {finalize, "arrived"} /\ close' \in {close, "arrived"}
      BY <1>1 DEF RT!Client, RT!ClientSendsAudio, RT!ClientSendsControl, RT!ClientLeaves,
         RT!Deliver, RT!tasks
    <3>4. eou' \in BOOLEAN /\ link' \in BOOLEAN /\ shut' \in BOOLEAN /\ ready' \in BOOLEAN
      BY <3>1, <3>2 DEF Modes
    <3>5. /\ loader' \in {"loading", "telling", "draining", "over"}
          /\ finalize' \in {"none", "arrived", "asked", "over"}
          /\ close' \in {"none", "arrived", "finishing", "answering", "over"}
      BY <3>1, <3>3 DEF Modes
    <3> QED
      BY <3>4, <3>5 DEF Modes
  <2> QED
    BY <2>1, <2>2, ExternalSet
<1>2. ASSUME NEW w \in RT!Workers, RT!Audio(w)
      PROVE  Flags'
  <2>1. \/ engine' = engine
        \/ \E s : engine' = [engine EXCEPT !.heard = @ \o s]
    BY <1>2 DEF RT!Audio, RT!OnBinary, RT!AppendPending, RT!DrainVadChunk, RT!VadResult,
       RT!EmitTurnEnd, RT!ProcessBufferedAudio
  <2>2. \/ out' = out
        \/ \E kinds : RT!Send(kinds)
    BY <1>2 DEF RT!Audio, RT!OnBinary, RT!AppendPending, RT!DrainVadChunk, RT!VadResult,
       RT!EmitTurnEnd, RT!ProcessBufferedAudio
  <2>3. UNCHANGED <<eou, link, shut, ready, loader, finalize, close, seen>>
    BY <1>2 DEF RT!Audio, RT!OnBinary, RT!AppendPending, RT!DrainVadChunk, RT!VadResult,
       RT!EmitTurnEnd, RT!ProcessBufferedAudio, RT!wire, RT!session
  <2>4. Modes'
    BY <2>3 DEF Modes
  <2> QED
    BY <2>1, <2>2, <2>3, <2>4, ExternalSet
<1>3. CASE RT!Loader \/ RT!OnFinalize \/ RT!Control
  <2>1. engine' \in {engine, Finished, Released} /\ seen' = seen
    BY <1>3 DEF RT!Loader, RT!LoadModels, RT!DrainPending, RT!OnFinalize, RT!Control,
       RT!OnCloseStream, RT!FinalizeRealtime, RT!Cleanup, Finished, Released
  <2>2. \/ out' = out
        \/ \E kinds : RT!Send(kinds)
    BY <1>3 DEF RT!Loader, RT!LoadModels, RT!DrainPending, RT!OnFinalize, RT!Control,
       RT!OnCloseStream, RT!FinalizeRealtime
  <2>3. Modes'
    <3>1. /\ eou' = eou
          /\ link' \in {link, FALSE} /\ shut' \in {shut, TRUE} /\ ready' \in {ready, TRUE}
      <4>1. CASE RT!Loader
        BY <4>1 DEF RT!Loader, RT!LoadModels, RT!DrainPending, RT!wire
      <4>2. CASE RT!OnFinalize
        BY <4>2 DEF RT!OnFinalize, RT!wire, RT!session
      <4>3. CASE RT!Control
        BY <4>3 DEF RT!Control, RT!OnCloseStream, RT!FinalizeRealtime, RT!wire, RT!session
      <4> QED
        BY <1>3, <4>1, <4>2, <4>3
    <3>2. loader' \in {loader, "telling", "draining", "over"}
      BY <1>3 DEF RT!Loader, RT!LoadModels, RT!DrainPending, RT!OnFinalize, RT!Control,
         RT!OnCloseStream, RT!FinalizeRealtime
    <3>3. /\ finalize' \in {finalize, "asked", "over"}
          /\ close' \in {close, "finishing", "answering", "over"}
      BY <1>3 DEF RT!Loader, RT!LoadModels, RT!DrainPending, RT!OnFinalize, RT!Control,
         RT!OnCloseStream, RT!FinalizeRealtime
    <3>4. eou' \in BOOLEAN /\ link' \in BOOLEAN /\ shut' \in BOOLEAN /\ ready' \in BOOLEAN
      BY <3>1 DEF Modes
    <3>5. /\ loader' \in {"loading", "telling", "draining", "over"}
          /\ finalize' \in {"none", "arrived", "asked", "over"}
          /\ close' \in {"none", "arrived", "finishing", "answering", "over"}
      BY <3>2, <3>3 DEF Modes
    <3> QED
      BY <3>4, <3>5 DEF Modes
  <2> QED
    BY <2>1, <2>2, <2>3, ExternalSet
<1> QED
  BY <1>1, <1>2, <1>3 DEF RT!Next

LEMMA RealtimeInit ==
    ASSUME MaxFrames \in Nat, RT!Init
    PROVE  RealtimeInv
<1>1. /\ sent = 0 /\ late = {} /\ pending = <<>> /\ backlog = 0 /\ judged = 0
      /\ loader = "loading"
      /\ engine = [heard |-> <<>>, finished |-> FALSE, released |-> FALSE]
      /\ worker = [w \in RT!Workers |-> [pc |-> "none", samples |-> <<>>, read |-> 0]]
  BY DEF RT!Init, RT!Idle
<1>2. \A w \in RT!Workers : worker[w] = [pc |-> "none", samples |-> <<>>, read |-> 0]
  BY <1>1
<1>3. 0 \in RT!Workers /\ \A f \in RT!Frames : f \in RT!Workers /\ f \in Nat /\ f > 0
  BY DEF RT!Workers, RT!Frames
<1>4. Flags
  <2>1. Modes
    BY DEF RT!Init, Modes
  <2>2. External
    BY <1>1 DEF RT!Init, External, EngineWith
  <2> QED
    BY <2>1, <2>2 DEF Flags
<1>5. Audio
  <2>1. <<>> \in Seq(1..0)
    OBVIOUS
  <2>2. [pc |-> "none", samples |-> <<>>, read |-> 0] \in TaskType(0)
    BY <2>1 DEF TaskType, RT!Steps
  <2> QED
    BY <1>1, <2>1, <2>2 DEF Audio
<1>6. CarryInv /\ PlaceInv /\ HeardOnce
  BY <1>1, <1>2, <1>3, EmptyInjective DEF CarryInv, PlaceInv, HeardOnce, Active
<1>7. Waiting = 1..MaxFrames /\ Judging = {}
  BY <1>2, <1>3 DEF Waiting, Judging, RT!Frames
<1>8. Chunks = MaxFrames
  <2>1. Cardinality(Waiting) = MaxFrames /\ Cardinality(Judging) = 0
    BY <1>7, FS_Interval, FS_EmptySet
  <2> QED
    BY <1>1, <2>1 DEF Chunks
<1>9. ChunkInv
  BY <1>1, <1>7, <1>8 DEF ChunkInv
<1> QED
  BY <1>4, <1>5, <1>6, <1>9 DEF RealtimeInv

LEMMA AudioStep ==
    ASSUME MaxFrames \in Nat, RealtimeInv, RT!Next
    PROVE  Audio' /\ CarryInv' /\ PlaceInv' /\ ChunkInv' /\ HeardOnce'
<1> DEFINE Kept == Audio' /\ CarryInv' /\ PlaceInv' /\ ChunkInv' /\ HeardOnce'
<1> HIDE DEF Kept
<1>1. CASE RT!ClientSendsAudio
  BY <1>1, SendKeeps DEF Kept
<1>2. ASSUME UNCHANGED <<sent, late, pending, backlog, judged, worker>>,
             engine'.heard = engine.heard, loader' # "over" => loader # "over"
      PROVE  Kept
  BY <1>2, AudioStill DEF Kept
<1>3. Finished.heard = engine.heard /\ Released.heard = engine.heard
  BY EngineSet DEF RealtimeInv, Flags
<1>4. CASE RT!ClientSendsControl \/ RT!ClientLeaves \/ RT!Deliver
  <2>1. engine' \in {engine, Released}
    BY <1>4 DEF RT!ClientSendsControl, RT!ClientLeaves, RT!Deliver, RT!Cleanup, Released
  <2>2. UNCHANGED <<sent, late, pending, backlog, judged, worker, loader>>
    BY <1>4 DEF RT!ClientSendsControl, RT!ClientLeaves, RT!Deliver, RT!wire, RT!session,
       RT!tasks
  <2>3. engine'.heard = engine.heard
    BY <1>3, <2>1
  <2> QED
    BY <1>2, <2>1, <2>2, <2>3 DEF Kept
<1>5. CASE RT!LoadModels
  <2>1. engine' \in {engine, Released} /\ loader # "over"
    BY <1>5 DEF RT!LoadModels, RT!Cleanup, Released
  <2>2. UNCHANGED <<sent, late, pending, backlog, judged, worker>>
    BY <1>5 DEF RT!LoadModels
  <2>3. engine'.heard = engine.heard
    BY <1>3, <2>1
  <2> QED
    BY <1>2, <2>1, <2>2, <2>3 DEF Kept
<1>6. CASE RT!DrainPending
  BY <1>6, DrainPendingKeeps DEF Kept
<1>7. CASE RT!OnFinalize \/ RT!Control
  <2>1. engine' \in {engine, Finished, Released}
    BY <1>7 DEF RT!OnFinalize, RT!Control, RT!OnCloseStream, RT!FinalizeRealtime,
       RT!Cleanup, Finished, Released
  <2>2. UNCHANGED <<sent, late, pending, backlog, judged, worker, loader>>
    BY <1>7 DEF RT!OnFinalize, RT!Control, RT!OnCloseStream, RT!FinalizeRealtime,
       RT!wire, RT!session
  <2>3. engine'.heard = engine.heard
    BY <1>3, <2>1
  <2> QED
    BY <1>2, <2>1, <2>2, <2>3 DEF Kept
<1>8. ASSUME NEW w \in RT!Workers, RT!Audio(w)
      PROVE  Kept
  BY <1>8, BinaryKeeps, QueueKeeps, DrainKeeps, VadKeeps, TurnKeeps, HearKeeps
     DEF RT!Audio, Kept
<1> QED
  BY <1>1, <1>4, <1>5, <1>6, <1>7, <1>8 DEF RT!Next, RT!Client, RT!Loader, Kept

\* RealtimeInv is inductive (RealtimeStreamRoute.swift).
THEOREM RealtimeInvariance == ASSUME MaxFrames \in Nat PROVE RT!Spec => []RealtimeInv
<1>1. RT!Init => RealtimeInv
  BY RealtimeInit
<1>2. RealtimeInv /\ [RT!Next]_(RT!vars) => RealtimeInv'
  <2> SUFFICES ASSUME RealtimeInv, [RT!Next]_(RT!vars)
               PROVE  RealtimeInv'
    OBVIOUS
  <2>1. CASE RT!Next
    BY <2>1, FlagsKept, AudioStep DEF RealtimeInv
  <2>2. CASE UNCHANGED RT!vars
    <3>1. UNCHANGED <<eou, link, sent, late, shut, ready, pending, backlog, judged, worker,
                      loader, finalize, close, engine, out, seen>>
      BY <2>2 DEF RT!vars, RT!session, RT!wire, RT!tasks
    <3>2. Flags'
      BY <3>1 DEF RealtimeInv, Flags, Modes, External
    <3> QED
      BY <3>1, <3>2, AudioStill DEF RealtimeInv
  <2> QED
    BY <2>1, <2>2
<1> QED
  BY <1>1, <1>2, PTL DEF RT!Spec

\* A session's state has its types, and no more is buffered or judged than was sent.
THEOREM RealtimeTypeCorrect == ASSUME MaxFrames \in Nat PROVE RT!Spec => []RT!TypeOK
<1>1. RealtimeInv => RT!TypeOK
  BY ChunkBounds DEF RealtimeInv
<1> QED
  BY <1>1, RealtimeInvariance, PTL

\* However the tasks of frames and the loader interleave, no frame is heard twice.
THEOREM FramesHeardOnce == ASSUME MaxFrames \in Nat PROVE RT!Spec => []HeardOnce
<1>1. RealtimeInv => HeardOnce
  BY DEF RealtimeInv
<1> QED
  BY <1>1, RealtimeInvariance, PTL
=============================================================================
