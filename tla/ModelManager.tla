---------------------------- MODULE ModelManager ----------------------------
(***************************************************************************)
(* The chat models of the LLM sidecar                                       *)
(* (sidecar-llm/Sources/ModelRuntime/ModelManager.swift).  ModelManager is  *)
(* an actor: between two awaits a call runs alone, at an await other calls  *)
(* run.  An action is what one call does from one suspension to the next.   *)
(* Download progress, file names, layouts and error texts are abstracted.   *)
(***************************************************************************)
EXTENDS Naturals, FiniteSets

CONSTANTS
    Models,       \* chat entries of the registry
    Calls,        \* calls of runner(for:), download and unload
    NoRunner,     \* no runner is resident; no model is chosen yet
    MaxResident,  \* COREML_MAX_RESIDENT, at least 1
    AutoDownloads, \* the values settings.autoDownload may have been given
    MayFail       \* whether downloads, compilation and tokenizers ever fail

ASSUME ModelAssumption ==
    /\ NoRunner \notin Models \cup Calls
    /\ MaxResident \in Nat \ {0}
    /\ AutoDownloads \subseteq BOOLEAN
    /\ MayFail \in BOOLEAN

VARIABLES
    autoDownload, \* settings.autoDownload, fixed when the server starts
    statuses,  \* per model
    runners,   \* per model: the call whose runner is resident
    lastUsed,  \* times of last use: a time is the set of the models used before it
    present,   \* models whose package is in the local repository
    compiled,  \* models whose .mlmodelc is in the cache
    call       \* per call: where it is suspended, and the model it is for

vars  == <<autoDownload, statuses, runners, lastUsed, present, compiled, call>>
files == <<present, compiled>>

Statuses == {"notDownloaded", "downloading", "downloaded", "compiling",
             "loading", "ready", "failed"}

\* A call of runner(for:) waits for the package, the compiler, the tokenizer
\* files and the first decode; one of download waits for the package only.
CallSteps == {"new", "fetch", "compile", "tokenizer", "warmup", "fetchOnly",
              "returned", "threw"}

Suspended(c) == call[c].pc \notin {"new", "returned", "threw"}

Resident == {m \in Models : runners[m] # NoRunner}

\* The times of last use are totally ordered.
InOrder ==
    /\ lastUsed \in [DOMAIN lastUsed -> SUBSET DOMAIN lastUsed]
    /\ \A m, n \in DOMAIN lastUsed :
          /\ m \in lastUsed[n] => lastUsed[m] \subseteq lastUsed[n] /\ n \notin lastUsed[m]
          /\ m = n \/ m \in lastUsed[n] \/ n \in lastUsed[m]

\* Files, runners, statuses, times and suspended calls have their types.
TypeOK ==
    /\ autoDownload \in AutoDownloads
    /\ statuses \in [Models -> Statuses]
    /\ runners \in [Models -> Calls \cup {NoRunner}]
    /\ DOMAIN lastUsed \subseteq Models
    /\ InOrder
    /\ present \subseteq Models
    /\ compiled \subseteq Models
    /\ call \in [Calls -> [pc : CallSteps, for : Models \cup {NoRunner}]]

\* Files survive restarts of the server, statuses do not.
Init ==
    /\ autoDownload \in AutoDownloads
    /\ statuses = [m \in Models |-> "notDownloaded"]
    /\ runners = [m \in Models |-> NoRunner]
    /\ lastUsed = [m \in {} |-> {}]
    /\ present \in SUBSET Models
    /\ compiled \in SUBSET Models
    /\ call = [c \in Calls |-> [pc |-> "new", for |-> NoRunner]]

-----------------------------------------------------------------------------
(* Helpers                                                                 *)

Without(gone) == [m \in DOMAIN lastUsed \ gone |-> lastUsed[m] \ gone]

\* m is used now, after all the others that are left.
UsedNow(m, gone) ==
    [n \in (DOMAIN lastUsed \ gone) \cup {m} |->
        IF n = m THEN DOMAIN lastUsed \ (gone \cup {m}) ELSE lastUsed[n] \ (gone \cup {m})]

Status(m, s) == statuses' = [statuses EXCEPT ![m] = s]

At(c, m, pc) == call[c] = [pc |-> pc, for |-> m]

GoTo(c, m, pc) == call' = [call EXCEPT ![c] = [pc |-> pc, for |-> m]]

\* The catch clause of runner(for:); the time of last use stays.
Throw(c, m) ==
    /\ Status(m, "failed")
    /\ runners' = [runners EXCEPT ![m] = NoRunner]
    /\ GoTo(c, m, "threw")

\* A compiled model is there: its interface is probed, then the tokenizer
\* files are awaited.
Probe(c, m) ==
    \/ Status(m, "loading") /\ GoTo(c, m, "tokenizer") /\ UNCHANGED runners
    \/ MayFail /\ Throw(c, m)

\* The package is there: compile it, unless the cache has it.
AfterFetch(c, m) ==
    \/ m \in compiled /\ Probe(c, m)
    \/ m \notin compiled /\ Status(m, "compiling") /\ GoTo(c, m, "compile") /\ UNCHANGED runners

\* Mutant: one runner too many may stay.
EvictedLate(keep) ==
    {m \in DOMAIN lastUsed \ {keep} :
        Cardinality((Resident \cup {keep}) \ (lastUsed[m] \ {keep})) > MaxResident + 1}

\* evictIfNeeded after keep was inserted and used: of the others, the least recently
\* used goes as long as too many are resident.  So a model goes if too many are still
\* resident when those used before it have gone.
Evicted(keep) ==
    {m \in DOMAIN lastUsed \ {keep} :
        Cardinality((Resident \cup {keep}) \ (lastUsed[m] \ {keep})) > MaxResident}

-----------------------------------------------------------------------------
(* runner(for:)                                                            *)

RunnerResident(c, m) ==
    /\ call[c].pc = "new"
    /\ runners[m] # NoRunner
    /\ lastUsed' = UsedNow(m, {})
    /\ GoTo(c, m, "returned")
    /\ UNCHANGED <<statuses, runners, files>>

\* Not resident, package there: nothing suspends before compiler or tokenizer.
RunnerPresent(c, m) ==
    /\ call[c].pc = "new"
    /\ runners[m] = NoRunner
    /\ m \in present
    /\ AfterFetch(c, m)
    /\ UNCHANGED <<lastUsed, files>>

RunnerFetch(c, m) ==
    /\ call[c].pc = "new"
    /\ runners[m] = NoRunner
    /\ m \notin present
    /\ autoDownload
    /\ Status(m, "downloading")
    /\ GoTo(c, m, "fetch")
    /\ UNCHANGED <<runners, lastUsed, files>>

RunnerRefused(c, m) ==
    /\ call[c].pc = "new"
    /\ runners[m] = NoRunner
    /\ m \notin present
    /\ ~autoDownload
    /\ Throw(c, m)
    /\ UNCHANGED <<lastUsed, files>>

Fetched(c, m) ==
    /\ At(c, m, "fetch")
    /\ present' = present \cup {m}
    /\ AfterFetch(c, m)
    /\ UNCHANGED <<lastUsed, compiled>>

\* The compiled model replaces whatever the cache holds by then.
Compiled(c, m) ==
    /\ At(c, m, "compile")
    /\ compiled' = compiled \cup {m}
    /\ Probe(c, m)
    /\ UNCHANGED <<lastUsed, present>>

\* The model is built and made resident, others are evicted (each by unload),
\* and the warm-up begins.
Insert(c, m) ==
    /\ At(c, m, "tokenizer")
    /\ LET gone == Evicted(m)
       IN  /\ runners' = [n \in Models |-> IF n = m THEN c
                                           ELSE IF n \in gone THEN NoRunner
                                           ELSE runners[n]]
           /\ lastUsed' = UsedNow(m, gone)
           /\ statuses' = [n \in Models |->
                 IF n \in gone /\ statuses[n] = "ready" THEN "downloaded" ELSE statuses[n]]
    /\ GoTo(c, m, "warmup")
    /\ UNCHANGED files

\* The first decode is over; its errors are ignored.
Warm(c, m) ==
    /\ At(c, m, "warmup")
    /\ Status(m, "ready")
    /\ GoTo(c, m, "returned")
    /\ UNCHANGED <<runners, lastUsed, files>>

\* Whatever runner(for:) awaited before the warm-up may throw.
RunnerFails(c, m) ==
    /\ MayFail
    /\ \E pc \in {"fetch", "compile", "tokenizer"} : At(c, m, pc)
    /\ Throw(c, m)
    /\ UNCHANGED <<lastUsed, files>>

-----------------------------------------------------------------------------
(* download and unload                                                     *)

DownloadRunning(c, m) ==
    /\ call[c].pc = "new"
    /\ statuses[m] = "downloading"
    /\ GoTo(c, m, "returned")
    /\ UNCHANGED <<statuses, runners, lastUsed, files>>

DownloadPresent(c, m) ==
    /\ call[c].pc = "new"
    /\ statuses[m] # "downloading"
    /\ m \in present
    /\ Status(m, "downloaded")
    /\ GoTo(c, m, "returned")
    /\ UNCHANGED <<runners, lastUsed, files>>

DownloadFetch(c, m) ==
    /\ call[c].pc = "new"
    /\ statuses[m] # "downloading"
    /\ m \notin present
    /\ Status(m, "downloading")
    /\ GoTo(c, m, "fetchOnly")
    /\ UNCHANGED <<runners, lastUsed, files>>

Downloaded(c, m) ==
    /\ At(c, m, "fetchOnly")
    /\ present' = present \cup {m}
    /\ Status(m, "downloaded")
    /\ GoTo(c, m, "returned")
    /\ UNCHANGED <<runners, lastUsed, compiled>>

DownloadFails(c, m) ==
    /\ MayFail
    /\ At(c, m, "fetchOnly")
    /\ Status(m, "failed")
    /\ GoTo(c, m, "threw")
    /\ UNCHANGED <<runners, lastUsed, files>>

Unload(c, m) ==
    /\ call[c].pc = "new"
    /\ runners' = [runners EXCEPT ![m] = NoRunner]
    /\ lastUsed' = Without({m})
    /\ Status(m, IF statuses[m] = "ready" THEN "downloaded" ELSE statuses[m])
    /\ GoTo(c, m, "returned")
    /\ UNCHANGED files

-----------------------------------------------------------------------------
Begin(c, m) ==
    \/ RunnerResident(c, m) \/ RunnerPresent(c, m)
    \/ RunnerFetch(c, m) \/ RunnerRefused(c, m)
    \/ DownloadRunning(c, m) \/ DownloadPresent(c, m) \/ DownloadFetch(c, m)
    \/ Unload(c, m)

Resume(c, m) ==
    \/ Fetched(c, m) \/ Compiled(c, m) \/ Insert(c, m) \/ Warm(c, m)
    \/ RunnerFails(c, m)
    \/ Downloaded(c, m) \/ DownloadFails(c, m)

Next ==
    /\ \E c \in Calls, m \in Models : Begin(c, m) \/ Resume(c, m)
    /\ UNCHANGED autoDownload

Spec == Init /\ [][Next]_vars

-----------------------------------------------------------------------------
(* Properties                                                              *)

\* However loads overlap, at most MaxResident runners are resident: eviction
\* looks at times of last use, residency at runners, and the two are changed
\* by different calls.
ResidentBounded == Cardinality(Resident) <= MaxResident

\* A status that says work is in progress is backed by a call that will change
\* it, so a model never shows "loading" for ever.
InProgressIsReal ==
    \A m \in Models :
        statuses[m] \in {"downloading", "compiling", "loading"} =>
            \E c \in Calls : Suspended(c) /\ call[c].for = m

\* Both: the bookkeeping of residency agrees with what the calls have done.
ResidencySound == ResidentBounded /\ InProgressIsReal

-----------------------------------------------------------------------------
(* Statements of the documentation                                          *)

\* docs/formats.md, status labels: "ready" means the runner is resident and
\* accepts requests.
ReadyIsResident == \A m \in Models : statuses[m] = "ready" => m \in Resident

\* README.md: loaded models stay resident until evicted (or unloaded), and both
\* take away the time of last use.
ResidentUntilEvicted ==
    [][\A m \in Models :
          m \in Resident /\ runners'[m] = NoRunner => m \notin DOMAIN lastUsed']_vars

\* docs/operations.md, status state machine: "ready" becomes "downloaded" by
\* unload or by eviction, both of which remove the runner.
DownloadedMeansUnloaded ==
    [][\A m \in Models :
          statuses[m] = "ready" /\ statuses'[m] = "downloaded" =>
              runners'[m] = NoRunner]_vars
=============================================================================
