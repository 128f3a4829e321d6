-------------------------- MODULE S2SSession_proofs --------------------------
(***************************************************************************)
(* Proofs about S2SSession, for any set of responses and any bounds: its    *)
(* types and the invariants FlagHasOwner, OneAudible, LeakBounded and       *)
(* CompletedIsRecorded of every session, and OneInFlight, DoneOnce and      *)
(* UsageComplete of the sessions in which nothing is interrupted.           *)
(***************************************************************************)
EXTENDS S2SSession, TLAPS, SequenceTheorems

\* Where a goroutine may go on after its list of guarded events.
Onward == {"chat", "modality", "stream", "final", "tts", "exit"}

\* A goroutine that is sending has something to send and somewhere to go on.
PendingInv ==
    \A r \in Responses :
        resp[r].pc \in {"emit", "write"} =>
            resp[r].todo # <<>> /\ resp[r].then \in Onward

Holding(t) == reader[t].pc \in {"bump", "spawn"}

\* A reader inside startResponse holds a response of its own that has not run.
ClaimInv ==
    /\ \A t \in Readers : Holding(t) =>
         reader[t].resp \in Responses /\ resp[reader[t].resp].pc = "starting"
    /\ \A t, u \in Readers : Holding(t) /\ Holding(u) /\ t # u =>
         reader[t].resp # reader[u].resp

\* The session counter is at least every generation handed out.
GenInv == \A r \in Responses : resp[r].gen <= gen

\* A response that leaked an event is stale for good, and past any write that
\* was checked earlier.
LeakInv ==
    \A r \in Responses :
        /\ late[r] \in {0, 1}
        /\ late[r] = 1 => /\ resp[r].gen < gen
                          /\ resp[r].pc \notin {"none", "starting", "write", "sendErr"}

IInv == /\ TypeOK /\ PendingInv /\ ClaimInv
        /\ GenInv /\ OneAudible /\ LeakInv /\ FlagHasOwner

-----------------------------------------------------------------------------
\* The program counters of a response, in groups.
LEMMA Labels ==
    /\ {"none", "starting", "start", "emit", "write", "chat", "stream"} \subseteq RespPCs
    /\ {"speak", "modality", "synth", "tts", "final", "bill", "tally"} \subseteq RespPCs
    /\ {"record", "relay", "toolHistory", "toolDone", "sendErr", "exit", "done"} \subseteq RespPCs
BY DEF RespPCs

\* The program counters of a reader.
LEMMA ReaderLabels ==
    /\ {"idle", "cas", "bump", "spawn", "invalidate", "cancel"} \subseteq ReaderPCs
    /\ {"store", "truncate", "cancelled", "done", "gone"} \subseteq ReaderPCs
BY DEF ReaderPCs

\* The lists of events handed to sendIfCurrent are non-empty lists of events.
LEMMA EventLists ==
    /\ Announcement \in Seq(Events) /\ Announcement # <<>>
    /\ Closing \in Seq(Events) /\ Closing # <<>>
    /\ {<<"transcript.delta">>, <<"text.delta">>, <<"audio.delta">>} \subseteq Seq(Events)
BY DEF Announcement, Closing, Events

\* The ways a response goroutine changes its locals keep their types.
LEMMA RespAtType ==
    ASSUME resp \in [Responses -> ResponseLocals], NEW r \in Responses,
           NEW from, NEW to \in RespPCs, RespAt(r, from, to)
    PROVE  resp' \in [Responses -> ResponseLocals]
BY DEF RespAt, ResponseLocals

\* Handing over a list of events keeps the type of the locals.
LEMMA QueueType ==
    ASSUME resp \in [Responses -> ResponseLocals], NEW r \in Responses,
           NEW from, NEW next \in RespPCs, NEW events \in Seq(Events), Queue(r, from, events, next)
    PROVE  resp' \in [Responses -> ResponseLocals]
<1> DEFINE x == [[[resp[r] EXCEPT !.pc = "emit"] EXCEPT !.todo = events] EXCEPT !.then = next]
<1>1. resp' = [resp EXCEPT ![r] = x]
  BY DEF Queue
<1>2. x \in ResponseLocals
  <2>1. "emit" \in RespPCs
    BY Labels
  <2>2. /\ \A y \in ResponseLocals : [y EXCEPT !.pc = "emit"] \in ResponseLocals
        /\ \A y \in ResponseLocals : [y EXCEPT !.todo = events] \in ResponseLocals
        /\ \A y \in ResponseLocals : [y EXCEPT !.then = next] \in ResponseLocals
    BY <2>1 DEF ResponseLocals
  <2> QED
    BY <2>2
<1> HIDE DEF x
<1> QED
  BY <1>1, <1>2

\* So does taking an event off a list that is not empty.
LEMMA DealtType ==
    ASSUME resp \in [Responses -> ResponseLocals], NEW r \in Responses,
           resp[r].todo # <<>>, Dealt(r)
    PROVE  resp' \in [Responses -> ResponseLocals]
<1>1. Tail(resp[r].todo) \in Seq(Events) /\ resp[r].then \in RespPCs
  BY DEF ResponseLocals
<1>2. "emit" \in RespPCs
  BY Labels
<1> DEFINE rest == Tail(resp[r].todo)
           to   == IF rest = <<>> THEN resp[r].then ELSE "emit"
           x    == [[resp[r] EXCEPT !.todo = rest] EXCEPT !.pc = to]
<1>3. to \in RespPCs
  BY <1>1, <1>2
<1>4. resp' = [resp EXCEPT ![r].todo = rest, ![r].pc = to]
  BY DEF Dealt
<1> HIDE DEF to, rest
<1>5. rest \in Seq(Events)
  BY <1>1 DEF rest
<1>6. resp' = [resp EXCEPT ![r] = x]
  BY <1>4
<1>7. x \in ResponseLocals
  BY <1>3, <1>5 DEF ResponseLocals
<1> HIDE DEF x
<1> QED
  BY <1>6, <1>7

\* So does taking up a sentence.
LEMMA TakeSentenceType ==
    ASSUME resp \in [Responses -> ResponseLocals], NEW r \in Responses,
           NEW last \in BOOLEAN, TakeSentence(r, last)
    PROVE  resp' \in [Responses -> ResponseLocals]
<1>1. "speak" \in RespPCs /\ resp[r].said + 1 \in Nat
  BY Labels DEF ResponseLocals
<1> QED
  BY <1>1 DEF TakeSentence, ResponseLocals

\* So does the end of the goroutine.
LEMMA ReturnType ==
    ASSUME resp \in [Responses -> ResponseLocals], NEW r \in Responses, Return(r)
    PROVE  resp' \in [Responses -> ResponseLocals]
<1>1. "done" \in RespPCs /\ "none" \in RespPCs
  BY Labels
<1>2. Unstarted \in ResponseLocals
  BY <1>1 DEF Unstarted, ResponseLocals
<1>3. [Unstarted EXCEPT !.pc = "done"] \in ResponseLocals
  BY <1>1, <1>2 DEF ResponseLocals
<1> QED
  BY <1>3 DEF Return

\* Hence so does every step of a response goroutine.
LEMMA ResponseStepType ==
    ASSUME resp \in [Responses -> ResponseLocals], PendingInv,
           NEW r \in Responses, ResponseStep(r)
    PROVE  resp' \in [Responses -> ResponseLocals]
<1> USE Labels, EventLists
<1>1. CASE SendCheck(r)
  BY <1>1, RespAtType, DealtType, Labels DEF SendCheck, PendingInv
<1>2. CASE SendWrite(r)
  BY <1>2, DealtType DEF SendWrite, PendingInv
<1>3. CASE StreamEnd(r) \/ ChunkSentence(r)
  BY <1>3, RespAtType, TakeSentenceType DEF StreamEnd, ChunkSentence
<1>4. CASE Return(r)
  BY <1>4, ReturnType
<1>5. CASE RespStart(r) \/ TtsRead(r) \/ Record(r)
  BY <1>5, QueueType DEF RespStart, TtsRead, Record
<1>6. CASE Speak(r)
  BY <1>6, RespAtType, QueueType DEF Speak
<1>7. CASE SpeakModality(r)
  BY <1>7, RespAtType, QueueType DEF SpeakModality, SentenceSpoken
<1>8. CASE ChunkTool(r)
  BY <1>8 DEF ChunkTool, ResponseLocals
<1>9. CASE ChatOpen(r) \/ ChunkStale(r) \/ ChunkError(r) \/ SynthOpen(r) \/ TtsReadStale(r)
  BY <1>9, RespAtType DEF ChatOpen, ChunkStale, ChunkError, SynthOpen, TtsReadStale
<1>10. CASE ChatFail(r) \/ SynthFail(r) \/ TtsEnd(r) \/ FinalCheck(r)
  BY <1>10, RespAtType DEF ChatFail, SynthFail, TtsEnd, FinalCheck, SentenceSpoken
<1>12. CASE Bill(r) \/ Tally(r)
  BY <1>12, RespAtType DEF Bill, Tally
<1>11. CASE ToolRelay(r) \/ ToolHistory(r) \/ ToolDone(r) \/ SendErr(r)
  BY <1>11, RespAtType DEF ToolRelay, ToolHistory, ToolDone, SendErr
<1> QED
  BY <1>1, <1>2, <1>3, <1>4, <1>5, <1>6, <1>7, <1>8, <1>9, <1>10, <1>11, <1>12
     DEF ResponseStep

\* What one step of a response goroutine may do to the session: it changes the
\* locals of that goroutine only, keeps its generation until it returns, clears
\* the flag when it returns, and is about to write only after a passed check.
ResponseEffect(r) ==
    /\ reader' = reader /\ gen' = gen
    /\ \A s \in Responses \ {r} : resp'[s] = resp[s]
    /\ resp[r].pc \notin {"none", "starting", "done"}
    /\ resp'[r].pc \notin {"none", "starting"}
    /\ resp'[r].pc # "done" => resp'[r].gen = resp[r].gen /\ responding' = responding
    /\ resp'[r].pc = "done" => resp'[r].gen = 0 /\ responding' = FALSE
    /\ resp'[r].pc \in {"emit", "write"} => resp'[r].todo # <<>> /\ resp'[r].then \in Onward
    /\ resp'[r].pc \in {"write", "sendErr"} => Current(r)
    /\ \/ late' = late
       \/ /\ late' = [late EXCEPT ![r] = @ + 1]
          /\ resp[r].pc \in {"write", "sendErr"} /\ ~Current(r)

\* The step itself: every action of a response goroutine has that effect.
LEMMA ResponseStepEffect ==
    ASSUME resp \in [Responses -> ResponseLocals], late \in [Responses -> Nat],
           PendingInv,
           NEW r \in Responses, ResponseStep(r)
    PROVE  ResponseEffect(r)
<1> USE DEF ResponseEffect, Onward
<1> DEFINE Silent == UNCHANGED <<responding, gen, reader, late>>
<1>a. ASSUME NEW from \in RespPCs \ {"none", "starting", "done"},
             NEW to \in RespPCs \ {"none", "starting", "done", "emit", "write"},
             RespAt(r, from, to), to = "sendErr" => Current(r), Silent
      PROVE  ResponseEffect(r)
  BY <1>a DEF RespAt, ResponseLocals
<1>b. ASSUME NEW from \in RespPCs \ {"none", "starting", "done"}, NEW events, events # <<>>,
             NEW next \in Onward, Queue(r, from, events, next), Silent
      PROVE  ResponseEffect(r)
  BY <1>b DEF Queue, ResponseLocals
<1>c. ASSUME NEW last, TakeSentence(r, last), Silent
      PROVE  ResponseEffect(r)
  BY <1>c DEF TakeSentence, ResponseLocals
<1>e. ASSUME Dealt(r), resp[r].pc \in {"emit", "write"}
      PROVE  /\ \A s \in Responses \ {r} : resp'[s] = resp[s]
             /\ resp'[r].pc \in Onward \cup {"emit"}
             /\ resp'[r].pc = "emit" => resp'[r].todo # <<>> /\ resp'[r].then \in Onward
             /\ resp'[r].gen = resp[r].gen
  <2> DEFINE rest == Tail(resp[r].todo)
             to   == IF rest = <<>> THEN resp[r].then ELSE "emit"
  <2>1. resp[r].todo # <<>> /\ resp[r].then \in Onward
    BY <1>e DEF PendingInv
  <2>2. resp' = [resp EXCEPT ![r].todo = rest, ![r].pc = to]
    BY <1>e DEF Dealt
  <2> HIDE DEF rest, to
  <2>3. /\ resp'[r].pc = to /\ resp'[r].todo = rest
        /\ resp'[r].then = resp[r].then /\ resp'[r].gen = resp[r].gen
        /\ \A s \in Responses \ {r} : resp'[s] = resp[s]
    BY <2>2 DEF ResponseLocals
  <2>4. to \in Onward \cup {"emit"} /\ (to = "emit" => rest # <<>>)
    BY <2>1 DEF to
  <2> QED
    BY <2>1, <2>3, <2>4
<1>d. SentenceSpoken(r) \in Onward
  BY DEF SentenceSpoken
<1> USE Labels, EventLists
<1>1. CASE SendCheck(r)
  <2>1. CASE Current(r)
    <3>1. /\ resp[r].pc = "emit" /\ RespAt(r, "emit", "write")
          /\ UNCHANGED <<reader, gen, responding, late>>
      BY <1>1, <2>1 DEF SendCheck, session, wire
    <3>2. /\ resp'[r].pc = "write" /\ resp'[r].gen = resp[r].gen
          /\ resp'[r].todo = resp[r].todo /\ resp'[r].then = resp[r].then
          /\ \A s \in Responses \ {r} : resp'[s] = resp[s]
      BY <3>1 DEF RespAt, ResponseLocals
    <3>3. resp[r].todo # <<>> /\ resp[r].then \in Onward
      BY <3>1 DEF PendingInv
    <3> QED
      BY <2>1, <3>1, <3>2, <3>3
  <2>2. CASE ~Current(r)
    <3>1. /\ resp[r].pc = "emit" /\ Dealt(r)
          /\ UNCHANGED <<reader, gen, responding, late>>
      BY <1>1, <2>2 DEF SendCheck, session, wire
    <3> QED
      BY <3>1, <1>e
  <2> QED
    BY <2>1, <2>2
<1>2. CASE SendWrite(r)
  <2>1. /\ resp[r].pc = "write" /\ Dealt(r)
        /\ late' = [late EXCEPT ![r] = IF Current(r) THEN @ ELSE @ + 1]
        /\ UNCHANGED <<reader, gen, responding>>
    BY <1>2 DEF SendWrite, session
  <2>2. late' = late \/ (late' = [late EXCEPT ![r] = @ + 1] /\ ~Current(r))
    <3>1. CASE Current(r)
      BY <2>1, <3>1
    <3>2. CASE ~Current(r)
      BY <2>1, <3>2
    <3> QED
      BY <3>1, <3>2
  <2> QED
    BY <2>1, <2>2, <1>e
<1>3. CASE StreamEnd(r) \/ ChunkSentence(r)
  BY <1>3, <1>a, <1>c DEF StreamEnd, ChunkSentence, session, wire
<1>4. CASE Return(r)
  BY <1>4 DEF Return, Unstarted, wire
<1>5. CASE RespStart(r) \/ TtsRead(r) \/ Record(r)
  BY <1>5, <1>b DEF RespStart, TtsRead, Record, session, wire
<1>6. CASE Speak(r)
  BY <1>6, <1>a, <1>b DEF Speak, session, wire
<1>7. CASE SpeakModality(r)
  BY <1>7, <1>a, <1>b, <1>d DEF SpeakModality, session, wire
<1>8. CASE ChunkTool(r)
  BY <1>8 DEF ChunkTool, ResponseLocals, session, wire
<1>9. CASE ChatOpen(r) \/ ChunkStale(r) \/ ChunkError(r) \/ SynthOpen(r) \/ TtsReadStale(r)
  BY <1>9, <1>a DEF ChatOpen, ChunkStale, ChunkError, SynthOpen, TtsReadStale, session, wire
<1>10. CASE ChatFail(r) \/ SynthFail(r) \/ TtsEnd(r) \/ FinalCheck(r)
  BY <1>10, <1>a, <1>d DEF ChatFail, SynthFail, TtsEnd, FinalCheck, session, wire
<1>13. CASE Bill(r) \/ Tally(r)
  BY <1>13, <1>a DEF Bill, Tally, session, wire
<1>11. CASE ToolRelay(r) \/ ToolHistory(r) \/ ToolDone(r)
  BY <1>11, <1>a DEF ToolRelay, ToolHistory, ToolDone, session, wire
<1>12. CASE SendErr(r)
  <2>1. CASE Current(r)
    BY <1>12, <2>1 DEF SendErr, RespAt, ResponseLocals, session
  <2>2. CASE ~Current(r)
    BY <1>12, <2>2 DEF SendErr, RespAt, ResponseLocals, session
  <2> QED
    BY <2>1, <2>2
<1> QED
  BY <1>1, <1>2, <1>3, <1>4, <1>5, <1>6, <1>7, <1>8, <1>9, <1>10, <1>11, <1>12, <1>13
     DEF ResponseStep

-----------------------------------------------------------------------------
\* Everything else but the three steps of startResponse leaves the goroutines
\* and the readers' claims alone, only raises gen and only clears the flag.
QuietEffect ==
    /\ resp' = resp /\ late' = late
    /\ gen' \in {gen, gen + 1}
    /\ responding' \in {responding, FALSE}
    /\ \A t \in Readers : Holding(t)' => Holding(t) /\ reader'[t] = reader[t]

\* Every step has one of the effects named above, or belongs to startResponse.
LEMMA QuietSteps ==
    ASSUME reader \in [Readers -> ReaderLocals], [Next]_vars,
           ~ \E r \in Responses : ResponseStep(r),
           ~ \E t \in Readers : \/ \E r \in Responses : StartClaim(t, r)
                                \/ StartBump(t) \/ StartSpawn(t)
    PROVE  QuietEffect
<1> USE DEF QuietEffect, Holding
<1>a. ASSUME NEW t \in Readers, NEW from, NEW to \in ReaderPCs \ {"bump", "spawn"},
             ReaderAt(t, from, to)
      PROVE  \A u \in Readers : Holding(u)' => Holding(u) /\ reader'[u] = reader[u]
  BY <1>a DEF ReaderAt, ReaderLocals
<1> USE ReaderLabels
<1>1. CASE ClientInput \/ SidecarInput
  <2>1. "client" \in Readers /\ "asr" \in Readers
    BY DEF Readers
  <2>2. CASE SessionUpdate \/ ItemCreateMessage \/ \E r \in Responses : ItemCreateTool(r)
    BY <2>2 DEF SessionUpdate, ItemCreateMessage, ItemCreateTool, session, wire
  <2>3. CASE ResponseCreate \/ ResponseCancel \/ SpeechStarted \/ FinalTurn
    BY <2>1, <2>3, <1>a DEF ResponseCreate, ResponseCancel, SpeechStarted, FinalTurn, session, wire
  <2> QED
    BY <1>1, <2>2, <2>3 DEF ClientInput, SidecarInput
<1>2. ASSUME NEW t \in Readers, ReaderStep(t) \/ ReaderGone(t)
      PROVE  QuietEffect
  <2>1. CASE StartRefused(t) \/ InterruptCancel(t) \/ InterruptTruncate(t) \/ ReaderGone(t)
    BY <2>1, <1>a DEF StartRefused, InterruptCancel, InterruptTruncate, ReaderGone, session, wire
  <2>2. CASE InterruptInvalidate(t) \/ InterruptStore(t)
    BY <2>2, <1>a DEF InterruptInvalidate, InterruptStore, wire
  <2>3. CASE InterruptCancelled(t)
    BY <2>3 DEF InterruptCancelled, session
  <2>4. CASE InterruptDone(t)
    BY <2>4 DEF InterruptDone, Idle, session
  <2> QED
    BY <1>2, <2>1, <2>2, <2>3, <2>4 DEF ReaderStep
<1>3. CASE Teardown
  BY <1>3 DEF Teardown, TeardownBegin, TeardownCancel, TeardownSilence, TeardownLog, TeardownClose,
              session, wire
<1>4. CASE UNCHANGED vars
  BY <1>4 DEF vars, session, wire
<1> QED
  BY <1>1, <1>2, <1>3, <1>4 DEF Next

-----------------------------------------------------------------------------
(* Types are kept by every step, given that goroutines and claims are sane. *)

\* Writing an event keeps the type of the counters of written events.
LEMMA DeliverType ==
    ASSUME sent \in [Responses -> [Events -> Nat]], NEW r, NEW e \in Events, Deliver(r, e)
    PROVE  sent' \in [Responses -> [Events -> Nat]]
BY DEF Deliver

\* Appending a message keeps the type of the history.
LEMMA HistoryType ==
    ASSUME history \in Seq(Message), NEW role \in {"user", "assistant", "call", "tool"},
           NEW r \in Responses \cup {NoResponse}, appendHistory(role, r)
    PROVE  history' \in Seq(Message)
BY DEF appendHistory, Message

\* Moving on inside a handler keeps the type of a reader's locals.
LEMMA ReaderAtType ==
    ASSUME reader \in [Readers -> ReaderLocals], NEW t \in Readers,
           NEW from, NEW to \in ReaderPCs, ReaderAt(t, from, to)
    PROVE  reader' \in [Readers -> ReaderLocals]
BY DEF ReaderAt, ReaderLocals

\* Waiting for the next event is a state of a reader.
LEMMA IdleType == Idle \in ReaderLocals
BY ReaderLabels DEF Idle, ReaderLocals

\* A generation may be given to a response.
LEMMA SetGenType ==
    ASSUME resp \in [Responses -> ResponseLocals], NEW r \in Responses, NEW g \in Nat,
           resp' = [resp EXCEPT ![r].gen = g]
    PROVE  resp' \in [Responses -> ResponseLocals]
BY DEF ResponseLocals

\* No step of a response goroutine breaks a type.
LEMMA ResponseStepKeepsTypes ==
    ASSUME TypeOK, PendingInv, NEW r \in Responses, ResponseStep(r)
    PROVE  TypeOK'
<1> USE DEF TypeOK, session, config, wire, usage
<1>1. resp' \in [Responses -> ResponseLocals]
  BY ResponseStepType
<1>2. late' \in [Responses -> Nat]
  <2>1. late \in [Responses -> Nat] /\ ResponseEffect(r)
    BY ResponseStepEffect
  <2>2. CASE late' = [late EXCEPT ![r] = @ + 1]
    BY <2>1, <2>2
  <2> QED
    BY <2>1, <2>2 DEF ResponseEffect
<1>3. CASE RespStart(r) \/ TtsRead(r)
  BY <1>1, <1>3 DEF RespStart, TtsRead
<1>3a. CASE Bill(r) \/ Tally(r) \/ Return(r)
  BY <1>1, <1>3a DEF Bill, Tally, Return
<1>4. CASE Record(r) \/ ToolHistory(r)
  BY <1>1, <1>2, <1>4, HistoryType DEF Record, ToolHistory
<1>5. CASE SendWrite(r) \/ ToolRelay(r) \/ ToolDone(r) \/ SendErr(r)
  <2>1. CASE SendWrite(r)
    <3>1. Head(resp[r].todo) \in Events
      BY <2>1 DEF SendWrite, PendingInv, ResponseLocals
    <3> QED
      BY <1>1, <1>2, <2>1, <3>1, DeliverType DEF SendWrite
  <2>2. "tool_call" \in Events /\ "done.completed" \in Events /\ "error" \in Events
    BY DEF Events
  <2> QED
    BY <1>1, <1>2, <1>5, <2>1, <2>2, DeliverType DEF ToolRelay, ToolDone, SendErr
<1>6. CASE UNCHANGED <<session, history, config, reader, ctxDone, wire, handler, usage>>
  BY <1>1, <1>6
<1> QED
  BY <1>3, <1>3a, <1>4, <1>5, <1>6
     DEF ResponseStep, SendCheck, ChatOpen, ChatFail, ChunkStale, ChunkError, ChunkTool,
         ChunkSentence, StreamEnd, Speak, SpeakModality, SynthOpen, SynthFail,
         TtsReadStale, TtsEnd, FinalCheck

\* No step of a reader inside a handler breaks a type.
LEMMA ReaderStepKeepsTypes ==
    ASSUME ConstantsAssumption, TypeOK, ClaimInv,
           NEW t \in Readers, ReaderStep(t) \/ ReaderGone(t)
    PROVE  TypeOK'
<1> USE Labels, ReaderLabels, IdleType DEF TypeOK, session, config, wire, usage
<1>1. CASE StartRefused(t) \/ ReaderGone(t)
  BY <1>1, ReaderAtType DEF StartRefused, ReaderGone
<1>2. ASSUME NEW r \in Responses, StartClaim(t, r)
      PROVE  TypeOK'
  <2>1. resp' \in [Responses -> ResponseLocals]
    BY <1>2, RespAtType DEF StartClaim
  <2>2. reader' \in [Readers -> ReaderLocals]
    BY <1>2 DEF StartClaim, ReaderLocals
  <2> QED
    BY <1>2, <2>1, <2>2 DEF StartClaim
<1>3. CASE StartBump(t)
  <2>1. reader' \in [Readers -> ReaderLocals]
    BY <1>3, ReaderAtType DEF StartBump
  <2>2. reader[t].resp \in Responses
    BY <1>3 DEF StartBump, ReaderAt, ClaimInv, Holding
  <2>3. resp' \in [Responses -> ResponseLocals]
    <3>1. gen + 1 \in Nat /\ resp \in [Responses -> ResponseLocals]
      OBVIOUS
    <3>2. resp' = [resp EXCEPT ![reader[t].resp].gen = gen + 1]
      BY <1>3 DEF StartBump
    <3> QED
      BY <2>2, <3>1, <3>2, SetGenType
  <2> QED
    BY <1>3, <2>1, <2>3 DEF StartBump
<1>4. CASE StartSpawn(t)
  <2>1. reader[t].resp \in Responses
    BY <1>4 DEF StartSpawn, ClaimInv, Holding
  <2>2. resp' \in [Responses -> ResponseLocals]
    BY <1>4, <2>1, RespAtType DEF StartSpawn
  <2> QED
    BY <1>4, <2>1, <2>2 DEF StartSpawn
<1>5. CASE InterruptInvalidate(t)
  BY <1>5, ReaderAtType DEF InterruptInvalidate
<1>10. CASE InterruptStore(t)
  BY <1>10, ReaderAtType DEF InterruptStore
<1>11. {"item.truncated", "response.cancelled", "done.cancelled"} \subseteq Events
  BY DEF Events
<1>6. CASE InterruptCancel(t)
  BY <1>6, ReaderAtType DEF InterruptCancel
<1>7. CASE InterruptTruncate(t)
  BY <1>7, <1>11, ReaderAtType, DeliverType DEF InterruptTruncate
<1>8. CASE InterruptCancelled(t)
  <2>1. reader' \in [Readers -> ReaderLocals]
    BY <1>8 DEF InterruptCancelled, ReaderLocals
  <2> QED
    BY <1>8, <1>11, <2>1, DeliverType DEF InterruptCancelled
<1>9. CASE InterruptDone(t)
  BY <1>9, <1>11, DeliverType DEF InterruptDone
<1> QED
  BY <1>1, <1>2, <1>3, <1>4, <1>5, <1>6, <1>7, <1>8, <1>9, <1>10 DEF ReaderStep

\* No input breaks a type.
LEMMA InputKeepsTypes ==
    ASSUME ConstantsAssumption, TypeOK, ClientInput \/ SidecarInput
    PROVE  TypeOK'
<1> USE ReaderLabels DEF TypeOK, session, config, wire, usage
<1>1. "client" \in Readers /\ "asr" \in Readers
  BY DEF Readers
<1>2. CASE SessionUpdate
  BY <1>2 DEF SessionUpdate, ConstantsAssumption
<1>3. CASE ItemCreateMessage \/ \E r \in Responses : ItemCreateTool(r)
  BY <1>3, HistoryType DEF ItemCreateMessage, ItemCreateTool
<1>4. CASE ResponseCreate \/ ResponseCancel \/ SpeechStarted
  BY <1>1, <1>4, ReaderAtType DEF ResponseCreate, ResponseCancel, SpeechStarted
<1>5. CASE FinalTurn
  BY <1>1, <1>5, ReaderAtType, HistoryType DEF FinalTurn
<1> QED
  BY <1>2, <1>3, <1>4, <1>5 DEF ClientInput, SidecarInput

\* No step breaks a type.
LEMMA NextKeepsTypes ==
    ASSUME ConstantsAssumption, TypeOK, PendingInv, ClaimInv, [Next]_vars
    PROVE  TypeOK'
<1>1. CASE Teardown
  BY <1>1 DEF Teardown, TeardownBegin, TeardownCancel, TeardownSilence, TeardownLog, TeardownClose,
              HandlerAt, HandlerPCs, TypeOK, session, config, wire, usage
<1>2. CASE UNCHANGED vars
  BY <1>2 DEF vars, TypeOK, session, config, wire, usage
<1> QED
  BY <1>1, <1>2, ResponseStepKeepsTypes, ReaderStepKeepsTypes, InputKeepsTypes DEF Next

-----------------------------------------------------------------------------
(* Each part of the inductive invariant is kept by every step.  The steps   *)
(* fall into five kinds, of which the first two are known by their effects. *)

Kinds ==
    \/ \E r \in Responses : ResponseEffect(r)
    \/ QuietEffect
    \/ \E t \in Readers : \E r \in Responses : StartClaim(t, r)
    \/ \E t \in Readers : StartBump(t)
    \/ \E t \in Readers : StartSpawn(t)

\* Every step is of one of the five kinds.
LEMMA StepKinds ==
    ASSUME TypeOK, PendingInv, [Next]_vars
    PROVE  Kinds
<1>1. ASSUME NEW r \in Responses, ResponseStep(r)
      PROVE  ResponseEffect(r)
  BY <1>1, ResponseStepEffect DEF TypeOK
<1>2. reader \in [Readers -> ReaderLocals]
  BY DEF TypeOK
<1> QED
  BY <1>1, <1>2, QuietSteps DEF Kinds

\* The steps of startResponse, by what they do to goroutines and claims.
LEMMA ClaimEffect ==
    ASSUME TypeOK, NEW t \in Readers, \E q \in Responses : StartClaim(t, q)
    PROVE  \E r \in Responses :
           /\ resp[r].pc = "none" /\ resp'[r].pc = "starting" /\ resp'[r].gen = resp[r].gen
           /\ \A s \in Responses \ {r} : resp'[s] = resp[s]
           /\ reader[t].pc = "cas" /\ reader'[t].pc = "bump" /\ reader'[t].resp = r
           /\ \A u \in Readers \ {t} : reader'[u] = reader[u]
           /\ gen' = gen /\ late' = late /\ responding' = TRUE
BY DEF StartClaim, RespAt, TypeOK, ResponseLocals, wire

\* The generation given to the claimed response is a new one.
LEMMA BumpEffect ==
    ASSUME TypeOK, ClaimInv, NEW t \in Readers, StartBump(t)
    PROVE  \E r \in Responses :
           /\ resp[r].pc = "starting" /\ resp'[r].pc = "starting" /\ resp'[r].gen = gen + 1
           /\ \A s \in Responses \ {r} : resp'[s] = resp[s]
           /\ reader[t].pc = "bump" /\ reader'[t].pc = "spawn"
           /\ reader[t].resp = r /\ reader'[t].resp = r
           /\ \A u \in Readers \ {t} : reader'[u] = reader[u]
           /\ gen' = gen + 1 /\ late' = late /\ responding' = responding
<1> DEFINE r == reader[t].resp
<1>1. reader[t].pc = "bump" /\ r \in Responses /\ resp[r].pc = "starting"
  BY DEF StartBump, ReaderAt, ClaimInv, Holding
<1>2. /\ reader'[t].pc = "spawn" /\ reader'[t].resp = r
      /\ \A u \in Readers \ {t} : reader'[u] = reader[u]
  BY DEF StartBump, ReaderAt, TypeOK, ReaderLocals
<1>3. resp' = [resp EXCEPT ![r].gen = gen + 1] /\ resp \in [Responses -> ResponseLocals]
  BY DEF StartBump, TypeOK
<1>4. gen' = gen + 1 /\ late' = late /\ responding' = responding
  BY DEF StartBump, wire
<1> HIDE DEF r
<1>5. /\ resp'[r].pc = "starting" /\ resp'[r].gen = gen + 1
      /\ \A s \in Responses \ {r} : resp'[s] = resp[s]
  BY <1>1, <1>3 DEF ResponseLocals
<1> QED
  BY <1>1, <1>2, <1>4, <1>5 DEF r

\* The claimed response starts to run with the generation it was given.
LEMMA SpawnEffect ==
    ASSUME TypeOK, ClaimInv, NEW t \in Readers, StartSpawn(t)
    PROVE  \E r \in Responses :
           /\ resp[r].pc = "starting" /\ resp'[r].pc = "start" /\ resp'[r].gen = resp[r].gen
           /\ \A s \in Responses \ {r} : resp'[s] = resp[s]
           /\ reader[t].pc = "spawn" /\ reader'[t].pc = "idle"
           /\ reader[t].resp = r
           /\ \A u \in Readers \ {t} : reader'[u] = reader[u]
           /\ gen' = gen /\ late' = late /\ responding' = responding
<1> DEFINE r == reader[t].resp
<1>1. reader[t].pc = "spawn" /\ r \in Responses /\ resp[r].pc = "starting"
  BY DEF StartSpawn, ClaimInv, Holding
<1>2. /\ reader'[t].pc = "idle"
      /\ \A u \in Readers \ {t} : reader'[u] = reader[u]
  BY DEF StartSpawn, TypeOK, Idle
<1>3. RespAt(r, "starting", "start") /\ resp \in [Responses -> ResponseLocals]
  BY DEF StartSpawn, TypeOK
<1>4. gen' = gen /\ late' = late /\ responding' = responding
  BY DEF StartSpawn, wire
<1> HIDE DEF r
<1>5. /\ resp'[r].pc = "start" /\ resp'[r].gen = resp[r].gen
      /\ \A s \in Responses \ {r} : resp'[s] = resp[s]
  BY <1>1, <1>3 DEF RespAt, ResponseLocals
<1> QED
  BY <1>1, <1>2, <1>4, <1>5 DEF r

\* A goroutine always knows what it has to send and where to go on.
LEMMA PendingKept ==
    ASSUME TypeOK, PendingInv, ClaimInv, Kinds
    PROVE  PendingInv'
<1> USE DEF PendingInv
<1>1. ASSUME NEW r \in Responses, ResponseEffect(r)
      PROVE  PendingInv'
  BY <1>1 DEF ResponseEffect
<1>2. CASE QuietEffect
  BY <1>2 DEF QuietEffect
<1>3. ASSUME NEW t \in Readers, \E r \in Responses : StartClaim(t, r)
      PROVE  PendingInv'
  <2>1. PICK r \in Responses :
        /\ resp'[r].pc = "starting"
        /\ \A s \in Responses \ {r} : resp'[s] = resp[s]
    BY <1>3, ClaimEffect
  <2> QED
    BY <2>1
<1>4. ASSUME NEW t \in Readers, StartBump(t)
      PROVE  PendingInv'
  BY <1>4, BumpEffect
<1>5. ASSUME NEW t \in Readers, StartSpawn(t)
      PROVE  PendingInv'
  BY <1>5, SpawnEffect
<1> QED
  BY <1>1, <1>2, <1>3, <1>4, <1>5 DEF Kinds

\* A reader inside startResponse keeps a response of its own.
LEMMA ClaimKept ==
    ASSUME TypeOK, PendingInv, ClaimInv, Kinds
    PROVE  ClaimInv'
<1> USE DEF ClaimInv, Holding
<1>1. ASSUME NEW r \in Responses, ResponseEffect(r)
      PROVE  ClaimInv'
  BY <1>1 DEF ResponseEffect
<1>2. CASE QuietEffect
  BY <1>2 DEF QuietEffect
<1>3. ASSUME NEW t \in Readers, \E r \in Responses : StartClaim(t, r)
      PROVE  ClaimInv'
  <2> HIDE DEF ClaimInv, Holding
  <2>1. PICK r \in Responses :
        /\ resp[r].pc = "none" /\ resp'[r].pc = "starting" /\ resp'[r].gen = resp[r].gen
        /\ \A s \in Responses \ {r} : resp'[s] = resp[s]
        /\ reader[t].pc = "cas" /\ reader'[t].pc = "bump" /\ reader'[t].resp = r
        /\ \A u \in Readers \ {t} : reader'[u] = reader[u]
        /\ gen' = gen /\ late' = late /\ responding' = TRUE
    BY <1>3, ClaimEffect
  <2> QED
    BY <2>1 DEF ClaimInv, Holding
<1>4. ASSUME NEW t \in Readers, StartBump(t)
      PROVE  ClaimInv'
  BY <1>4, BumpEffect
<1>5. ASSUME NEW t \in Readers, StartSpawn(t)
      PROVE  ClaimInv'
  BY <1>5, SpawnEffect
<1> QED
  BY <1>1, <1>2, <1>3, <1>4, <1>5 DEF Kinds

\* Generations are handed out once, in increasing order.
LEMMA GenKept ==
    ASSUME TypeOK, PendingInv, ClaimInv, GenInv, OneAudible, Kinds
    PROVE  GenInv' /\ OneAudible'
<1> USE DEF GenInv, OneAudible
<1>0. gen \in Nat /\ \A r \in Responses : resp[r].gen \in Nat
  BY DEF TypeOK, ResponseLocals
<1>1. ASSUME NEW r \in Responses, ResponseEffect(r)
      PROVE  GenInv' /\ OneAudible'
  BY <1>0, <1>1 DEF ResponseEffect
<1>2. CASE QuietEffect
  BY <1>0, <1>2 DEF QuietEffect
<1>3. ASSUME NEW t \in Readers, \E r \in Responses : StartClaim(t, r)
      PROVE  GenInv' /\ OneAudible'
  <2>1. PICK r \in Responses :
        /\ resp'[r].gen = resp[r].gen /\ gen' = gen
        /\ \A s \in Responses \ {r} : resp'[s] = resp[s]
    BY <1>3, ClaimEffect
  <2> QED
    BY <1>0, <2>1
<1>4. ASSUME NEW t \in Readers, StartBump(t)
      PROVE  GenInv' /\ OneAudible'
  <2>1. PICK r \in Responses :
           /\ resp'[r].gen = gen + 1 /\ gen' = gen + 1
           /\ \A s \in Responses \ {r} : resp'[s] = resp[s]
    BY <1>4, BumpEffect
  <2> QED
    BY <1>0, <2>1
<1>5. ASSUME NEW t \in Readers, StartSpawn(t)
      PROVE  GenInv' /\ OneAudible'
  <2>1. gen' = gen /\ \A s \in Responses : resp'[s].gen = resp[s].gen
    BY <1>5, SpawnEffect
  <2> QED
    BY <1>0, <2>1
<1> QED
  BY <1>1, <1>2, <1>3, <1>4, <1>5 DEF Kinds

\* An interrupted response leaks at most once, because a write that was
\* checked before the interruption is its last.
LEMMA LeakKept ==
    ASSUME TypeOK, PendingInv, ClaimInv, GenInv, LeakInv, Kinds
    PROVE  LeakInv'
<1> USE DEF LeakInv
<1>0. /\ gen \in Nat /\ late \in [Responses -> Nat]
      /\ \A r \in Responses : resp[r].gen \in Nat /\ resp[r].gen <= gen
  BY DEF TypeOK, ResponseLocals, GenInv
<1>1. ASSUME NEW r \in Responses, ResponseEffect(r)
      PROVE  LeakInv'
  <2>1. \A s \in Responses \ {r} : late'[s] = late[s] /\ resp'[s] = resp[s] /\ gen' = gen
    BY <1>0, <1>1 DEF ResponseEffect
  <2>2. CASE late' = late
    <3>1. late[r] = 1 => gen' = gen /\ resp'[r].gen < gen
      BY <1>0, <1>1 DEF ResponseEffect
    <3>2. late[r] = 1 => resp'[r].pc \notin {"none", "starting", "write", "sendErr"}
      BY <1>0, <1>1 DEF ResponseEffect, Current
    <3> QED
      BY <2>1, <2>2, <3>1, <3>2
  <2>3. CASE late' # late
    <3>1. late' = [late EXCEPT ![r] = @ + 1] /\ resp[r].pc \in {"write", "sendErr"} /\ ~Current(r)
      BY <1>1, <2>3 DEF ResponseEffect
    <3>2. late'[r] = 1
      BY <1>0, <3>1
    <3>3. gen' = gen /\ resp'[r].gen < gen
      BY <1>0, <1>1, <3>1 DEF ResponseEffect, Current
    <3>4. resp'[r].pc \notin {"none", "starting", "write", "sendErr"}
      BY <1>1, <3>1 DEF ResponseEffect
    <3> QED
      BY <2>1, <3>2, <3>3, <3>4
  <2> QED
    BY <2>2, <2>3
<1>2. CASE QuietEffect
  BY <1>0, <1>2 DEF QuietEffect
<1>3. ASSUME NEW t \in Readers, \E r \in Responses : StartClaim(t, r)
      PROVE  LeakInv'
  <2>1. PICK r \in Responses :
        /\ resp[r].pc = "none" /\ gen' = gen /\ late' = late
        /\ \A s \in Responses \ {r} : resp'[s] = resp[s]
    BY <1>3, ClaimEffect
  <2> QED
    BY <1>0, <2>1
<1>4. ASSUME NEW t \in Readers, StartBump(t)
      PROVE  LeakInv'
  <2>1. PICK r \in Responses :
           /\ resp[r].pc = "starting" /\ gen' = gen + 1 /\ late' = late
           /\ \A s \in Responses \ {r} : resp'[s] = resp[s]
    BY <1>4, BumpEffect
  <2> QED
    BY <1>0, <2>1
<1>5. ASSUME NEW t \in Readers, StartSpawn(t)
      PROVE  LeakInv'
  <2>1. PICK r \in Responses :
           /\ resp[r].pc = "starting" /\ gen' = gen /\ late' = late
           /\ \A s \in Responses \ {r} : resp'[s] = resp[s]
    BY <1>5, SpawnEffect
  <2> QED
    BY <1>0, <2>1
<1> QED
  BY <1>1, <1>2, <1>3, <1>4, <1>5 DEF Kinds

\* The flag is raised for a response that is alive, and whoever returns
\* clears it.
LEMMA OwnerKept ==
    ASSUME TypeOK, PendingInv, ClaimInv, FlagHasOwner, Kinds
    PROVE  FlagHasOwner'
<1> USE DEF FlagHasOwner, Live
<1>1. ASSUME NEW r \in Responses, ResponseEffect(r)
      PROVE  FlagHasOwner'
  BY <1>1 DEF ResponseEffect
<1>2. CASE QuietEffect
  BY <1>2 DEF QuietEffect
<1>3. ASSUME NEW t \in Readers, \E r \in Responses : StartClaim(t, r)
      PROVE  FlagHasOwner'
  BY <1>3, ClaimEffect
<1>4. ASSUME NEW t \in Readers, StartBump(t)
      PROVE  FlagHasOwner'
  <2>1. PICK r \in Responses : resp'[r].pc = "starting"
    BY <1>4, BumpEffect
  <2> QED
    BY <2>1
<1>5. ASSUME NEW t \in Readers, StartSpawn(t)
      PROVE  FlagHasOwner'
  <2>1. PICK r \in Responses : resp'[r].pc = "start"
    BY <1>5, SpawnEffect
  <2> QED
    BY <2>1
<1> QED
  BY <1>1, <1>2, <1>3, <1>4, <1>5 DEF Kinds

-----------------------------------------------------------------------------
(* The invariant, and what follows from it                                  *)

\* A session starts with its invariant.
LEMMA InitInvariant ==
    ASSUME ConstantsAssumption, Init
    PROVE  IInv
<1>1. TypeOK
  <2>1. Unstarted \in ResponseLocals
    BY Labels DEF Unstarted, ResponseLocals
  <2> QED
    BY <2>1, IdleType, EmptySeq DEF Init, TypeOK, HandlerPCs
<1>2. \A r \in Responses : resp[r] = Unstarted /\ late[r] = 0
  BY DEF Init
<1>3. \A t \in Readers : ~Holding(t)
  BY DEF Init, Idle, Holding
<1>4. \A r \in Responses : resp[r].pc = "none" /\ resp[r].gen = 0
  <2>1. Unstarted.pc = "none" /\ Unstarted.gen = 0
    BY DEF Unstarted
  <2> QED
    BY <1>2, <2>1
<1>5. ClaimInv
  BY <1>3 DEF ClaimInv
<1>6. PendingInv /\ LeakInv
  BY <1>2, <1>4 DEF PendingInv, LeakInv
<1>7. GenInv /\ OneAudible
  BY <1>4 DEF GenInv, OneAudible, Init
<1>8. FlagHasOwner
  BY DEF FlagHasOwner, Init
<1> QED
  BY <1>1, <1>5, <1>6, <1>7, <1>8 DEF IInv

\* Every step of the session keeps it.
LEMMA NextInvariant ==
    ASSUME ConstantsAssumption, IInv, [Next]_vars
    PROVE  IInv'
<1> USE DEF IInv
<1>1. TypeOK'
  BY NextKeepsTypes
<1>2. Kinds
  BY StepKinds
<1> QED
  BY <1>1, <1>2, PendingKept, ClaimKept, GenKept, LeakKept, OwnerKept

\* The inductive invariant holds throughout a session.
THEOREM Invariance == Spec => []IInv
<1>1. Init => IInv
  BY ConstantsAssumption, InitInvariant
<1>2. IInv /\ [Next]_vars => IInv'
  BY ConstantsAssumption, NextInvariant
<1> QED
  BY <1>1, <1>2, PTL DEF Spec

\* Every variable of the session keeps its type.
THEOREM TypeCorrect == Spec => []TypeOK
<1>1. IInv => TypeOK
  BY DEF IInv
<1> QED
  BY <1>1, Invariance, PTL

\* The in-flight flag of startResponse is never set without a response that
\* will clear it, however readers and responses interleave.
THEOREM FlagAlwaysHasOwner == Spec => []FlagHasOwner
<1>1. IInv => FlagHasOwner
  BY DEF IInv
<1> QED
  BY <1>1, Invariance, PTL

\* No two responses ever hold one generation, so at most one passes the check
\* of sendIfCurrent.
THEOREM AtMostOneAudible == Spec => []OneAudible
<1>1. IInv => OneAudible
  BY DEF IInv
<1> QED
  BY <1>1, Invariance, PTL

\* The gap between check and write in sendIfCurrent lets at most one event of
\* an interrupted response through.
THEOREM LeakAlwaysBounded == Spec => []LeakBounded
<1>1. IInv => LeakBounded
  <2> SUFFICES ASSUME IInv, NEW r \in Responses
               PROVE  late[r] <= 1
    BY DEF LeakBounded
  <2>1. late[r] \in {0, 1}
    BY DEF IInv, LeakInv
  <2> QED
    BY <2>1
<1> QED
  BY <1>1, Invariance, PTL

-----------------------------------------------------------------------------
(* Completion: what is in the history, and in the counters, when the client  *)
(* is told that a response completed.                                        *)

\* The lists of guarded events; the last two end a response.
ClosingLists == {Closing, <<"done.completed">>}
Lists == ClosingLists \cup
         {Announcement, <<"transcript.delta">>, <<"text.delta">>, <<"audio.delta">>}

Sending(r) == resp[r].pc \in {"emit", "write"}

\* A goroutine sends one of the lists, and returns after those that end the response.
ListInv ==
    \A r \in Responses : Sending(r) =>
        /\ resp[r].todo \in Lists
        /\ resp[r].todo \in ClosingLists <=> resp[r].then = "exit"

\* The goroutine is about to tell the client that its response completed.
Closes(r) == resp[r].pc = "toolDone" \/ (Sending(r) /\ resp[r].todo \in ClosingLists)

Completed(r) == sent[r]["done.completed"] > 0

\* The history holds the assistant turn, or the tool call, of the response.
Recorded(r) ==
    \E i \in 1..Len(history) :
        history[i].role \in {"assistant", "call"} /\ history[i].of = r

\* The turn is recorded before its end is announced.
CompletionInv == \A r \in Responses : Closes(r) \/ Completed(r) => Recorded(r)

CInv == IInv /\ ListInv /\ CompletionInv

\* Nothing interrupts a response of the session.
Uninterrupted == ~Interruptions /\ "response.cancel" \notin ClientEvents

\* Then responses run one after the other, under the in-flight flag.
SerialInv ==
    /\ \A t \in Readers : reader[t].pc \in {"idle", "cas", "bump", "spawn", "gone"}
    /\ \A r \in Responses : Live(r) => responding
    /\ \A r, s \in Responses : Live(r) /\ Live(s) => r = s

\* And the end of a response is announced at most once, last.
DoneInv ==
    \A r \in Responses :
        /\ sent[r]["done.cancelled"] = 0
        /\ sent[r]["done.completed"] \in {0, 1}
        /\ Completed(r) => resp[r].pc \in {"exit", "done"}

\* No other goroutine adds to the counters between a read and the write that
\* follows it, so what has been counted stays counted.
CountInv ==
    /\ \A r \in Responses : resp[r].pc = "tally" => seen[r] = billed
    /\ \A r \in Responses :
         resp[r].pc \in {"record", "relay", "toolHistory"} \/ Closes(r) \/ Completed(r)
             => r \in billed

UInv == CInv /\ SerialInv /\ DoneInv /\ CountInv

\* Appending a message keeps what is recorded, and records its own response.
LEMMA AppendRecords ==
    ASSUME history \in Seq(Message), NEW role, NEW q, appendHistory(role, q)
    PROVE  /\ \A s : Recorded(s) => Recorded(s)'
           /\ role \in {"assistant", "call"} => Recorded(q)'
<1> DEFINE m == [role |-> role, of |-> q]
           n == Len(history)
<1>1. history' = Append(history, m)
  BY DEF appendHistory
<1>2. n \in Nat /\ Len(history') = n + 1 /\ history'[n + 1] = m
      /\ \A i \in 1..n : history'[i] = history[i]
  BY <1>1
<1>3. \A s : Recorded(s) => Recorded(s)'
  BY <1>2 DEF Recorded
<1>4. ASSUME role \in {"assistant", "call"}
      PROVE  Recorded(q)'
  <2>1. n + 1 \in 1..Len(history') /\ m.role = role /\ m.of = q
    BY <1>2
  <2> QED
    BY <1>2, <1>4, <2>1 DEF Recorded
<1> QED
  BY <1>3, <1>4

\* The lists of guarded events, taken apart.
LEMMA ListFacts ==
    /\ \A l \in Lists :
         /\ l # <<>> /\ Head(l) \in Events \ {"done.cancelled"}
         /\ Tail(l) # <<>> => l = Closing /\ Tail(l) = <<"done.completed">>
         /\ Head(l) = "done.completed" => l \in ClosingLists /\ Tail(l) = <<>>
         /\ l \in ClosingLists /\ Tail(l) = <<>> => Head(l) = "done.completed"
    /\ ClosingLists \subseteq Lists
    /\ Announcement \in Lists \ ClosingLists
    /\ {<<"transcript.delta">>, <<"text.delta">>, <<"audio.delta">>} \subseteq Lists \ ClosingLists
BY DEF Lists, ClosingLists, Closing, Announcement, Events

\* What one step of a response goroutine may do to the history, the counters and
\* the client's view of the response.
CompletionEffect(r) ==
    /\ handler' = handler /\ logged' = logged
    /\ \A s : Recorded(s) => Recorded(s)'
    /\ Sending(r)' => /\ resp'[r].todo \in Lists
                      /\ resp'[r].todo \in ClosingLists <=> resp'[r].then = "exit"
    /\ Closes(r)' => Closes(r) \/ (resp[r].pc \in {"record", "toolHistory"} /\ Recorded(r)')
    /\ resp'[r].pc \in {"record", "relay"} => resp[r].pc = "tally"
    /\ resp'[r].pc = "toolHistory" => resp[r].pc = "relay"
    /\ resp[r].pc = "exit" => resp'[r].pc = "done"
    /\ billed' = IF resp[r].pc = "tally" THEN seen[r] \cup {r} ELSE billed
    /\ resp'[r].pc = "tally" => resp[r].pc = "bill" /\ seen'[r] = billed
    /\ \A s \in Responses \ {r} : seen'[s] = seen[s]
    /\ \/ sent' = sent
       \/ \E e \in Events \ {"done.cancelled"} :
            /\ sent' = [sent EXCEPT ![r][e] = @ + 1]
            /\ handler # "closed"
            /\ e = "done.completed" => Closes(r) /\ resp'[r].pc = "exit"

\* Every action of a response goroutine has that effect.
LEMMA CompletionSteps ==
    ASSUME TypeOK, PendingInv, ListInv, NEW r \in Responses, ResponseStep(r)
    PROVE  CompletionEffect(r)
<1> DEFINE Silent == UNCHANGED <<history, sent, handler, usage>>
           Inner  == {"emit", "write", "record", "relay", "toolHistory", "toolDone", "tally"}
<1>0. /\ resp \in [Responses -> ResponseLocals] /\ history \in Seq(Message)
      /\ seen \in [Responses -> SUBSET Responses]
  BY DEF TypeOK
<1>a. ASSUME NEW from \in RespPCs \ {"tally", "exit"}, NEW to \in RespPCs \ Inner,
             RespAt(r, from, to), Silent
      PROVE  CompletionEffect(r)
  <2>1. resp[r].pc = from /\ resp'[r].pc = to
    BY <1>0, <1>a DEF RespAt
  <2> QED
    BY <1>a, <2>1 DEF CompletionEffect, Recorded, Sending, Closes, usage
<1>b. ASSUME NEW from \in RespPCs \ {"tally", "exit"}, NEW events \in Lists, NEW next,
             Queue(r, from, events, next),
             UNCHANGED <<sent, handler, usage>>,
             \A s : Recorded(s) => Recorded(s)',
             events \in ClosingLists <=> next = "exit",
             events \in ClosingLists => from = "record" /\ Recorded(r)'
      PROVE  CompletionEffect(r)
  <2>1. /\ resp[r].pc = from
        /\ resp'[r].pc = "emit" /\ resp'[r].todo = events /\ resp'[r].then = next
    BY <1>0, <1>b DEF Queue, ResponseLocals
  <2> QED
    BY <1>b, <2>1 DEF CompletionEffect, Sending, Closes, usage
<1>c. ASSUME NEW last, TakeSentence(r, last), Silent
      PROVE  CompletionEffect(r)
  <2>1. resp[r].pc = "stream" /\ resp'[r].pc = "speak"
    BY <1>0, <1>c DEF TakeSentence, ResponseLocals
  <2> QED
    BY <1>c, <2>1 DEF CompletionEffect, Recorded, Sending, Closes, usage
<1>d. SentenceSpoken(r) \in RespPCs \ Inner /\ SentenceSpoken(r) # "exit"
  BY Labels DEF SentenceSpoken
<1>e. ASSUME Sending(r), Dealt(r), UNCHANGED <<history, handler, usage>>,
             \/ sent' = sent
             \/ /\ sent' = [sent EXCEPT ![r][Head(resp[r].todo)] = @ + 1]
                /\ handler # "closed"
      PROVE  CompletionEffect(r)
  <2> DEFINE l    == resp[r].todo
             to   == IF Tail(l) = <<>> THEN resp[r].then ELSE "emit"
  <2>1. l \in Lists /\ resp[r].then \in Onward /\ (l \in ClosingLists <=> resp[r].then = "exit")
    BY <1>e DEF ListInv, PendingInv, Sending
  <2>2. resp' = [resp EXCEPT ![r].todo = Tail(l), ![r].pc = to]
    BY <1>e DEF Dealt
  <2>3. /\ resp'[r].pc = to /\ resp'[r].todo = Tail(l) /\ resp'[r].then = resp[r].then
    <3> HIDE DEF to
    <3> QED
      BY <1>0, <2>2 DEF ResponseLocals
  <2>4. Head(l) \in Events \ {"done.cancelled"}
    BY <2>1, ListFacts
  <2>5. Head(l) = "done.completed" => Closes(r) /\ resp'[r].pc = "exit"
    BY <1>e, <2>1, <2>3, ListFacts DEF Closes
  <2>6. Tail(l) # <<>> => l \in ClosingLists /\ Tail(l) \in ClosingLists
    BY <2>1, ListFacts DEF ClosingLists
  <2>7. resp'[r].pc \in Onward \cup {"emit"} /\ (resp'[r].pc = "emit" => Tail(l) # <<>>)
    BY <2>1, <2>3 DEF Onward
  <2>8. /\ Sending(r)' => resp'[r].todo \in ClosingLists /\ resp'[r].then = "exit"
        /\ Closes(r)' => Closes(r)
    BY <1>e, <2>1, <2>3, <2>6, <2>7, ListFacts DEF Sending, Closes, Onward
  <2>9. resp[r].pc \notin {"tally", "exit"}
    BY <1>e DEF Sending
  <2> HIDE DEF l, to
  <2>10. \/ sent' = sent
         \/ \E e \in Events \ {"done.cancelled"} :
              /\ sent' = [sent EXCEPT ![r][e] = @ + 1]
              /\ handler # "closed"
              /\ e = "done.completed" => Closes(r) /\ resp'[r].pc = "exit"
    <3>1. CASE sent' # sent
      <4>1. sent' = [sent EXCEPT ![r][Head(l)] = @ + 1] /\ handler # "closed"
        BY <1>e, <3>1 DEF l
      <4> QED
        BY <4>1, <2>4, <2>5
    <3> QED
      BY <3>1
  <2> QED
    BY <1>e, <2>7, <2>8, <2>9, <2>10, ListFacts DEF CompletionEffect, Recorded, Onward, usage
<1>f. ASSUME NEW from \in {"relay", "toolHistory", "toolDone", "sendErr"},
             NEW to \in {"toolHistory", "toolDone", "exit"}, RespAt(r, from, to),
             to = "toolHistory" => from = "relay",
             to = "toolDone" => from = "toolHistory" /\ Recorded(r)',
             \A s : Recorded(s) => Recorded(s)', UNCHANGED <<handler, usage>>,
             \/ sent' = sent
             \/ \E e \in Events \ {"done.cancelled"} :
                  /\ Deliver(r, e)
                  /\ e = "done.completed" => from = "toolDone" /\ to = "exit"
      PROVE  CompletionEffect(r)
  <2>1. resp[r].pc = from /\ resp'[r].pc = to
    BY <1>0, <1>f, Labels DEF RespAt, ResponseLocals
  <2>2. \/ sent' = sent
        \/ \E e \in Events \ {"done.cancelled"} :
            /\ sent' = [sent EXCEPT ![r][e] = @ + 1]
            /\ handler # "closed"
            /\ e = "done.completed" => Closes(r) /\ resp'[r].pc = "exit"
    BY <1>f, <2>1 DEF Deliver, Connected, Closes
  <2> QED
    BY <1>f, <2>1, <2>2 DEF CompletionEffect, Sending, Closes, usage
<1> USE Labels
<1>1. CASE SendCheck(r)
  <2>1. CASE Current(r)
    <3>1. /\ resp[r].pc = "emit" /\ resp'[r].pc = "write"
          /\ resp'[r].todo = resp[r].todo /\ resp'[r].then = resp[r].then
      BY <1>0, <1>1, <2>1 DEF SendCheck, RespAt, ResponseLocals
    <3>2. UNCHANGED <<sent, handler, history, usage>>
      BY <1>1 DEF SendCheck, wire
    <3> QED
      BY <3>1, <3>2 DEF CompletionEffect, ListInv, Sending, Closes, Recorded, usage
  <2>2. CASE ~Current(r)
    <3>1. Sending(r) /\ Dealt(r) /\ Silent
      BY <1>1, <2>2 DEF SendCheck, Sending, wire
    <3> QED
      BY <3>1, <1>e
  <2> QED
    BY <2>1, <2>2
<1>2. CASE SendWrite(r)
  <2>1. /\ Sending(r) /\ Dealt(r) /\ UNCHANGED <<history, handler, usage>>
        /\ Deliver(r, Head(resp[r].todo))
    BY <1>2 DEF SendWrite, Sending
  <2> QED
    BY <2>1, <1>e DEF Deliver, Connected
<1>3. CASE StreamEnd(r) \/ ChunkSentence(r)
  BY <1>3, <1>a, <1>c DEF StreamEnd, ChunkSentence, wire
<1>4. CASE Return(r)
  <2>1. resp[r].pc = "exit" /\ resp'[r].pc = "done" /\ Silent
    BY <1>0, <1>4 DEF Return, Unstarted, wire
  <2> QED
    BY <2>1 DEF CompletionEffect, Sending, Closes, Recorded, usage
<1>5. CASE RespStart(r) \/ TtsRead(r)
  <2>1. UNCHANGED <<sent, handler, usage>> /\ \A s : Recorded(s) => Recorded(s)'
    BY <1>5 DEF RespStart, TtsRead, wire, Recorded
  <2> QED
    BY <1>5, <2>1, <1>b, ListFacts DEF RespStart, TtsRead
<1>6. CASE Record(r)
  <2>1. Recorded(r)' /\ \A s : Recorded(s) => Recorded(s)'
    BY <1>0, <1>6, AppendRecords DEF Record
  <2>2. Closing \in Lists /\ Closing \in ClosingLists
    BY DEF Lists, ClosingLists
  <2> QED
    BY <1>6, <2>1, <2>2, <1>b DEF Record, wire
<1>7. CASE Speak(r) \/ SpeakModality(r)
  <2>1. Silent /\ \A s : Recorded(s) => Recorded(s)'
    BY <1>7 DEF Speak, SpeakModality, wire, Recorded
  <2>2. \/ RespAt(r, "speak", "exit")
        \/ RespAt(r, "modality", "synth")
        \/ Queue(r, "speak", <<"transcript.delta">>, "modality")
        \/ Queue(r, "modality", <<"text.delta">>, SentenceSpoken(r))
    BY <1>7 DEF Speak, SpeakModality
  <2> QED
    BY <2>1, <2>2, <1>a, <1>b, <1>d, ListFacts
<1>8. CASE ChunkTool(r)
  <2>1. resp[r].pc = "stream" /\ resp'[r].pc = "stream" /\ Silent
    BY <1>0, <1>8 DEF ChunkTool, ResponseLocals, wire
  <2> QED
    BY <2>1 DEF CompletionEffect, Sending, Closes, Recorded, usage
<1>9. CASE ChatOpen(r) \/ ChunkStale(r) \/ ChunkError(r) \/ SynthOpen(r) \/ TtsReadStale(r)
  BY <1>9, <1>a DEF ChatOpen, ChunkStale, ChunkError, SynthOpen, TtsReadStale, wire
<1>10. CASE ChatFail(r) \/ SynthFail(r) \/ TtsEnd(r) \/ FinalCheck(r)
  BY <1>10, <1>a, <1>d DEF ChatFail, SynthFail, TtsEnd, FinalCheck, wire
<1>11. CASE Bill(r)
  <2>1. resp[r].pc = "bill" /\ resp'[r].pc = "tally"
    BY <1>0, <1>11 DEF Bill, RespAt, ResponseLocals
  <2>2. /\ seen'[r] = billed /\ \A s \in Responses \ {r} : seen'[s] = seen[s]
        /\ UNCHANGED <<history, sent, handler, billed, logged>>
    BY <1>0, <1>11 DEF Bill, wire
  <2> QED
    BY <2>1, <2>2 DEF CompletionEffect, Sending, Closes, Recorded
<1>12. CASE Tally(r)
  <2>1. resp[r].pc = "tally" /\ resp'[r].pc \in {"relay", "record"}
    BY <1>0, <1>12 DEF Tally, RespAt, ResponseLocals
  <2>2. /\ billed' = seen[r] \cup {r} /\ \A s \in Responses \ {r} : seen'[s] = seen[s]
        /\ UNCHANGED <<history, sent, handler, logged>>
    BY <1>0, <1>12 DEF Tally, wire
  <2> QED
    BY <2>1, <2>2 DEF CompletionEffect, Sending, Closes, Recorded
<1>13. CASE ToolHistory(r)
  <2>1. Recorded(r)' /\ \A s : Recorded(s) => Recorded(s)'
    BY <1>0, <1>13, AppendRecords DEF ToolHistory
  <2> QED
    BY <1>13, <2>1, <1>f DEF ToolHistory, wire
<1>14. CASE ToolRelay(r) \/ ToolDone(r) \/ SendErr(r)
  <2>1. {"tool_call", "done.completed", "error"} \subseteq Events \ {"done.cancelled"}
    BY DEF Events
  <2>2. UNCHANGED <<handler, usage>> /\ \A s : Recorded(s) => Recorded(s)'
    BY <1>14 DEF ToolRelay, ToolDone, SendErr, Recorded
  <2> QED
    BY <1>14, <2>1, <2>2, <1>f DEF ToolRelay, ToolDone, SendErr
<1> QED
  BY <1>1, <1>2, <1>3, <1>4, <1>5, <1>6, <1>7, <1>8, <1>9, <1>10, <1>11, <1>12, <1>13, <1>14
     DEF ResponseStep

\* Everything else leaves the goroutines that run, the history they wrote and
\* the ends they announced alone; teardown logs the counters as they are.
BystanderEffect ==
    /\ \A s \in Responses : \/ resp'[s] = resp[s]
                            \/ /\ resp[s].pc \in {"none", "starting"}
                               /\ resp'[s].pc \in {"starting", "start"}
    /\ \A s : Recorded(s) => Recorded(s)'
    /\ \A s \in Responses : sent'[s]["done.completed"] = sent[s]["done.completed"]
    /\ billed' = billed /\ seen' = seen
    /\ \/ handler' = handler
       \/ handler # "logging" /\ logged' = logged
       \/ logged' = billed

\* Every step outside the response goroutines has that effect.
LEMMA BystanderSteps ==
    ASSUME TypeOK, ClaimInv, [Next]_vars, ~ \E r \in Responses : ResponseStep(r)
    PROVE  BystanderEffect
<1> DEFINE Kept == /\ UNCHANGED usage
                   /\ handler' = handler
                   /\ \A s : Recorded(s) => Recorded(s)'
                   /\ \A s \in Responses :
                        sent'[s]["done.completed"] = sent[s]["done.completed"]
<1>0. /\ history \in Seq(Message) /\ sent \in [Responses -> [Events -> Nat]]
      /\ resp \in [Responses -> ResponseLocals]
  BY DEF TypeOK
<1>a. ASSUME Kept, UNCHANGED resp
      PROVE  BystanderEffect
  BY <1>a DEF BystanderEffect, usage
<1>b. ASSUME NEW q, NEW e \in Events \ {"done.completed"}, Deliver(q, e)
      PROVE  \A s \in Responses : sent'[s]["done.completed"] = sent[s]["done.completed"]
  <2>1. "done.completed" \in Events
    BY DEF Events
  <2> QED
    BY <1>0, <1>b, <2>1 DEF Deliver
<1>1. CASE ClientInput \/ SidecarInput
  <2>1. CASE SessionUpdate \/ ResponseCreate \/ ResponseCancel \/ SpeechStarted
    BY <2>1, <1>a DEF SessionUpdate, ResponseCreate, ResponseCancel, SpeechStarted, wire, Recorded
  <2>2. CASE ItemCreateMessage \/ FinalTurn \/ \E r \in Responses : ItemCreateTool(r)
    <3>1. UNCHANGED <<usage, handler, sent, resp>> /\ \E role, q : appendHistory(role, q)
      BY <2>2 DEF ItemCreateMessage, FinalTurn, ItemCreateTool, wire
    <3>2. \A s : Recorded(s) => Recorded(s)'
      BY <1>0, <3>1, AppendRecords
    <3> QED
      BY <3>1, <3>2, <1>a
  <2> QED
    BY <1>1, <2>1, <2>2 DEF ClientInput, SidecarInput
<1>2. ASSUME NEW t \in Readers, ReaderStep(t) \/ ReaderGone(t)
      PROVE  BystanderEffect
  <2>1. CASE \/ StartRefused(t) \/ InterruptInvalidate(t) \/ InterruptCancel(t)
             \/ InterruptStore(t) \/ ReaderGone(t)
    BY <2>1, <1>a DEF StartRefused, InterruptInvalidate, InterruptCancel, InterruptStore,
                      ReaderGone, wire, Recorded
  <2>2. CASE InterruptTruncate(t) \/ InterruptCancelled(t) \/ InterruptDone(t)
    <3>1. {"item.truncated", "response.cancelled", "done.cancelled"} \subseteq Events \ {"done.completed"}
      BY DEF Events
    <3>2. \E q : \E e \in Events \ {"done.completed"} : Deliver(q, e)
      BY <2>2, <3>1 DEF InterruptTruncate, InterruptCancelled, InterruptDone
    <3>3. UNCHANGED <<usage, handler, history, resp>>
      BY <2>2 DEF InterruptTruncate, InterruptCancelled, InterruptDone
    <3> QED
      BY <3>2, <3>3, <1>a, <1>b DEF Recorded
  <2>3. CASE \/ \E r \in Responses : StartClaim(t, r)
             \/ StartBump(t) \/ StartSpawn(t)
    <3>1. UNCHANGED <<usage, handler, history, sent>>
      BY <2>3 DEF StartClaim, StartBump, StartSpawn, wire
    <3>2. PICK r \in Responses : /\ resp[r].pc \in {"none", "starting"}
                                 /\ resp'[r].pc \in {"starting", "start"}
                                 /\ \A s \in Responses \ {r} : resp'[s] = resp[s]
      <4>1. CASE \E r \in Responses : StartClaim(t, r)
        BY <4>1, ClaimEffect
      <4>2. CASE StartBump(t)
        BY <4>2, BumpEffect
      <4>3. CASE StartSpawn(t)
        BY <4>3, SpawnEffect
      <4> QED
        BY <2>3, <4>1, <4>2, <4>3
    <3> QED
      BY <3>1, <3>2 DEF BystanderEffect, Recorded, usage
  <2> QED
    BY <1>2, <2>1, <2>2, <2>3 DEF ReaderStep
<1>3. CASE Teardown
  BY <1>3 DEF Teardown, TeardownBegin, TeardownCancel, TeardownSilence, TeardownLog, TeardownClose,
              HandlerAt, BystanderEffect, Recorded, wire, usage
<1>4. CASE UNCHANGED vars
  BY <1>4, <1>a DEF vars, Recorded, wire, usage
<1> QED
  BY <1>1, <1>2, <1>3, <1>4 DEF Next

\* Either way the lists stay in shape and every announced end is recorded.
LEMMA CompletionKept ==
    ASSUME IInv, ListInv, CompletionInv, [Next]_vars
    PROVE  ListInv' /\ CompletionInv'
<1>0. sent \in [Responses -> [Events -> Nat]] /\ "done.completed" \in Events
  BY DEF IInv, TypeOK, Events
<1>1. ASSUME NEW r \in Responses, ResponseStep(r)
      PROVE  ListInv' /\ CompletionInv'
  <2>1. ResponseEffect(r) /\ CompletionEffect(r)
    BY <1>1, ResponseStepEffect, CompletionSteps DEF IInv, TypeOK
  <2>2. \A s \in Responses \ {r} : resp'[s] = resp[s]
    BY <2>1 DEF ResponseEffect
  <2>3. ListInv'
    BY <2>1, <2>2 DEF CompletionEffect, ListInv, Sending
  <2>4. Completed(r)' => Completed(r) \/ Closes(r)
    BY <1>0, <2>1 DEF CompletionEffect, Completed
  <2>5. \A s \in Responses \ {r} : Completed(s)' => Completed(s)
    BY <1>0, <2>1 DEF CompletionEffect, Completed
  <2>6. \A s \in Responses \ {r} : Closes(s)' => Closes(s)
    BY <2>2 DEF Closes, Sending
  <2>7. /\ \A s : Recorded(s) => Recorded(s)'
        /\ Closes(r)' => Closes(r) \/ Recorded(r)'
    BY <2>1 DEF CompletionEffect
  <2>8. CompletionInv'
    BY <2>4, <2>5, <2>6, <2>7 DEF CompletionInv
  <2> QED
    BY <2>3, <2>8
<1>2. ASSUME ~ \E r \in Responses : ResponseStep(r)
      PROVE  ListInv' /\ CompletionInv'
  <2>1. BystanderEffect
    BY <1>2, BystanderSteps DEF IInv
  <2>2. \A s \in Responses : Closes(s)' => Closes(s)
    BY <2>1 DEF BystanderEffect, Closes, Sending
  <2>3. \A s \in Responses : Completed(s)' => Completed(s)
    BY <2>1 DEF BystanderEffect, Completed
  <2>4. ListInv'
    BY <2>1 DEF BystanderEffect, ListInv, Sending
  <2>5. CompletionInv'
    BY <2>1, <2>2, <2>3 DEF BystanderEffect, CompletionInv
  <2> QED
    BY <2>4, <2>5
<1> QED
  BY <1>1, <1>2

\* In every session, interrupted or not.
LEMMA InitCompletion ==
    ASSUME Init
    PROVE  ListInv /\ CompletionInv
<1>1. \A r \in Responses : resp[r].pc = "none"
  BY DEF Init, Unstarted
<1>2. \A r \in Responses : sent[r]["done.completed"] = 0
  BY DEF Init, Events
<1> QED
  BY <1>1, <1>2 DEF ListInv, CompletionInv, Sending, Closes, Completed

\* A response the client was told completed is in the history: the follow-up
\* request of runResponse has it as context, also after an interruption.
THEOREM CompletedAlwaysRecorded == Spec => []CompletedIsRecorded
<1>1. Init => CInv
  BY ConstantsAssumption, InitInvariant, InitCompletion DEF CInv
<1>2. CInv /\ [Next]_vars => CInv'
  BY ConstantsAssumption, NextInvariant, CompletionKept DEF CInv
<1>3. CInv => CompletedIsRecorded
  BY DEF CInv, CompletionInv, Completed, Recorded, CompletedIsRecorded
<1> QED
  BY <1>1, <1>2, <1>3, PTL DEF Spec

-----------------------------------------------------------------------------
(* Sessions in which nothing is interrupted                                 *)

\* There, a step outside the response goroutines writes nothing to the client and
\* makes at most one response live, when none was in flight.
UninterruptedEffect ==
    /\ sent' = sent
    /\ \A t \in Readers : reader'[t].pc \in {"idle", "cas", "bump", "spawn", "gone"}
    /\ \/ responding' = responding /\ \A s \in Responses : Live(s)' => Live(s)
       \/ /\ ~responding /\ responding'
          /\ \E r \in Responses : \A s \in Responses \ {r} : resp'[s] = resp[s]

\* Every such step has that effect.
LEMMA UninterruptedSteps ==
    ASSUME Uninterrupted, TypeOK, ClaimInv, SerialInv, [Next]_vars,
           ~ \E r \in Responses : ResponseStep(r)
    PROVE  UninterruptedEffect
<1> DEFINE Calm == {"idle", "cas", "bump", "spawn", "gone"}
<1>0. /\ reader \in [Readers -> ReaderLocals]
      /\ \A t \in Readers : reader[t].pc \in Calm
  BY DEF TypeOK, SerialInv
<1>a. ASSUME NEW t \in Readers, NEW from, NEW to \in Calm, ReaderAt(t, from, to)
      PROVE  \A u \in Readers : reader'[u].pc \in Calm
  BY <1>0, <1>a DEF ReaderAt, ReaderLocals
<1>b. ASSUME UNCHANGED <<sent, responding, resp>>, \A t \in Readers : reader'[t].pc \in Calm
      PROVE  UninterruptedEffect
  BY <1>b DEF UninterruptedEffect, Live
<1> HIDE DEF Calm
<1>c. {"idle", "cas", "bump", "spawn", "gone"} = Calm
  BY DEF Calm
<1>1. CASE ClientInput \/ SidecarInput
  <2>1. "client" \in Readers /\ "asr" \in Readers
    BY DEF Readers
  <2>2. ~ (ResponseCancel \/ SpeechStarted)
    BY DEF Uninterrupted, ResponseCancel, ClientSends, SpeechStarted
  <2>3. CASE SessionUpdate \/ ItemCreateMessage \/ \E r \in Responses : ItemCreateTool(r)
    BY <1>0, <2>3, <1>b DEF SessionUpdate, ItemCreateMessage, ItemCreateTool, session, wire
  <2>4. CASE ResponseCreate \/ FinalTurn
    BY <1>c, <2>1, <2>4, <1>a, <1>b DEF ResponseCreate, FinalTurn, session, wire
  <2> QED
    BY <1>1, <2>2, <2>3, <2>4 DEF ClientInput, SidecarInput
<1>2. ASSUME NEW t \in Readers, ReaderStep(t) \/ ReaderGone(t)
      PROVE  UninterruptedEffect
  <2>1. ~ \/ InterruptInvalidate(t) \/ InterruptCancel(t) \/ InterruptStore(t)
          \/ InterruptTruncate(t) \/ InterruptCancelled(t) \/ InterruptDone(t)
    BY <1>0 DEF Calm, InterruptInvalidate, InterruptCancel, InterruptStore, InterruptTruncate,
                InterruptCancelled, InterruptDone, ReaderAt
  <2>2. CASE StartRefused(t) \/ ReaderGone(t)
    BY <1>c, <2>2, <1>a, <1>b DEF StartRefused, ReaderGone, session, wire
  <2>3. CASE \E r \in Responses : StartClaim(t, r)
    <3>1. ~responding /\ sent' = sent
      BY <2>3 DEF StartClaim, wire
    <3>2. PICK r \in Responses : /\ \A s \in Responses \ {r} : resp'[s] = resp[s]
                                 /\ reader'[t].pc = "bump" /\ responding'
                                 /\ \A u \in Readers \ {t} : reader'[u] = reader[u]
      BY <2>3, ClaimEffect
    <3>3. \A u \in Readers : reader'[u].pc \in Calm
      BY <1>0, <1>c, <3>2
    <3> QED
      BY <3>1, <3>2, <3>3 DEF UninterruptedEffect, Calm
  <2>4. CASE StartBump(t)
    <3>1. sent' = sent
      BY <2>4 DEF StartBump, wire
    <3>2. PICK r \in Responses :
             /\ resp[r].pc = "starting" /\ resp'[r].pc = "starting"
             /\ \A s \in Responses \ {r} : resp'[s] = resp[s]
             /\ reader'[t].pc = "spawn" /\ responding' = responding
             /\ \A u \in Readers \ {t} : reader'[u] = reader[u]
      BY <2>4, BumpEffect
    <3>3. \A u \in Readers : reader'[u].pc \in Calm
      BY <1>0, <1>c, <3>2
    <3> QED
      BY <3>1, <3>2, <3>3 DEF UninterruptedEffect, Calm, Live
  <2>5. CASE StartSpawn(t)
    <3>1. sent' = sent
      BY <2>5 DEF StartSpawn, wire
    <3>2. PICK r \in Responses :
             /\ resp[r].pc = "starting" /\ resp'[r].pc = "start"
             /\ \A s \in Responses \ {r} : resp'[s] = resp[s]
             /\ reader'[t].pc = "idle" /\ responding' = responding
             /\ \A u \in Readers \ {t} : reader'[u] = reader[u]
      BY <2>5, SpawnEffect
    <3>3. \A u \in Readers : reader'[u].pc \in Calm
      BY <1>0, <1>c, <3>2
    <3> QED
      BY <3>1, <3>2, <3>3 DEF UninterruptedEffect, Calm, Live
  <2> QED
    BY <1>2, <2>1, <2>2, <2>3, <2>4, <2>5 DEF ReaderStep
<1>3. CASE Teardown
  BY <1>0, <1>3, <1>b DEF Teardown, TeardownBegin, TeardownCancel, TeardownSilence, TeardownLog,
              TeardownClose, session, wire
<1>4. CASE UNCHANGED vars
  BY <1>0, <1>4, <1>b DEF vars, session, wire
<1> QED
  BY <1>1, <1>2, <1>3, <1>4 DEF Next

\* Responses stay serial: the flag is taken when none is live, and only the one
\* that is live gives it back.
LEMMA SerialKept ==
    ASSUME Uninterrupted, IInv, SerialInv, [Next]_vars
    PROVE  SerialInv'
<1>1. ASSUME NEW r \in Responses, ResponseStep(r)
      PROVE  SerialInv'
  <2>1. ResponseEffect(r)
    BY <1>1, ResponseStepEffect DEF IInv, TypeOK
  <2>2. \A s \in Responses : Live(s) => s = r
    BY <2>1 DEF ResponseEffect, SerialInv, Live
  <2>3. \A s \in Responses : Live(s)' => s = r /\ responding'
    BY <2>1, <2>2 DEF ResponseEffect, Live, SerialInv
  <2> QED
    BY <2>1, <2>3 DEF SerialInv, ResponseEffect
<1>2. ASSUME ~ \E r \in Responses : ResponseStep(r)
      PROVE  SerialInv'
  <2>1. UninterruptedEffect
    BY <1>2, UninterruptedSteps DEF IInv
  <2>2. CASE responding' = responding /\ \A s \in Responses : Live(s)' => Live(s)
    BY <2>1, <2>2 DEF SerialInv, UninterruptedEffect
  <2>3. CASE /\ ~responding /\ responding'
             /\ \E r \in Responses : \A s \in Responses \ {r} : resp'[s] = resp[s]
    <3>1. PICK r \in Responses : \A s \in Responses \ {r} : resp'[s] = resp[s]
      BY <2>3
    <3>2. \A s \in Responses : Live(s)' => s = r
      BY <2>3, <3>1 DEF SerialInv, Live
    <3> QED
      BY <2>1, <2>3, <3>2 DEF SerialInv, UninterruptedEffect
  <2> QED
    BY <2>1, <2>2, <2>3 DEF UninterruptedEffect
<1> QED
  BY <1>1, <1>2

\* A response ends once: what announces its end is its last write.
LEMMA DoneKept ==
    ASSUME Uninterrupted, IInv, ListInv, SerialInv, DoneInv, [Next]_vars
    PROVE  DoneInv'
<1>0. /\ sent \in [Responses -> [Events -> Nat]]
      /\ "done.completed" \in Events /\ "done.cancelled" \in Events
  BY DEF IInv, TypeOK, Events
<1>1. ASSUME NEW r \in Responses, ResponseStep(r)
      PROVE  DoneInv'
  <2>1. ResponseEffect(r) /\ CompletionEffect(r)
    BY <1>1, ResponseStepEffect, CompletionSteps DEF IInv, TypeOK
  <2>2. \A s \in Responses \ {r} : resp'[s] = resp[s] /\ sent'[s] = sent[s]
    BY <1>0, <2>1 DEF ResponseEffect, CompletionEffect
  <2>3. sent'[r]["done.cancelled"] = 0
    BY <1>0, <2>1 DEF CompletionEffect, DoneInv
  <2>4. CASE sent'[r]["done.completed"] = sent[r]["done.completed"]
    <3>1. Completed(r)' => resp[r].pc = "exit"
      BY <2>1, <2>4 DEF DoneInv, Completed, ResponseEffect
    <3>2. Completed(r)' => resp'[r].pc = "done"
      BY <2>1, <3>1 DEF CompletionEffect
    <3> QED
      BY <2>2, <2>3, <2>4, <3>2 DEF DoneInv, Completed
  <2>5. CASE sent'[r]["done.completed"] # sent[r]["done.completed"]
    <3>1. /\ Closes(r) /\ resp'[r].pc = "exit"
          /\ sent'[r]["done.completed"] = sent[r]["done.completed"] + 1
      BY <1>0, <2>1, <2>5 DEF CompletionEffect
    <3>2. ~Completed(r)
      BY <3>1 DEF Closes, Sending, DoneInv
    <3>3. sent'[r]["done.completed"] = 1
      BY <3>1, <3>2 DEF DoneInv, Completed
    <3> QED
      BY <2>2, <2>3, <3>1, <3>3 DEF DoneInv, Completed
  <2> QED
    BY <2>4, <2>5
<1>2. ASSUME ~ \E r \in Responses : ResponseStep(r)
      PROVE  DoneInv'
  <2>1. BystanderEffect /\ UninterruptedEffect
    BY <1>2, BystanderSteps, UninterruptedSteps DEF IInv
  <2> QED
    BY <2>1 DEF BystanderEffect, UninterruptedEffect, DoneInv, Completed
<1> QED
  BY <1>1, <1>2

\* No count is lost, because the goroutine that counts is alone.
LEMMA CountKept ==
    ASSUME Uninterrupted, CInv, SerialInv, CountInv, [Next]_vars
    PROVE  CountInv'
<1>0. /\ sent \in [Responses -> [Events -> Nat]]
      /\ "done.completed" \in Events
  BY DEF CInv, IInv, TypeOK, Events
<1>1. ASSUME NEW r \in Responses, ResponseStep(r)
      PROVE  CountInv'
  <2>1. ResponseEffect(r) /\ CompletionEffect(r)
    BY <1>1, ResponseStepEffect, CompletionSteps DEF CInv, IInv, TypeOK
  <2>2. \A s \in Responses \ {r} : /\ resp'[s] = resp[s] /\ sent'[s] = sent[s]
                                   /\ resp[s].pc \in {"none", "done"}
    BY <1>0, <2>1 DEF ResponseEffect, CompletionEffect, SerialInv, Live
  <2>3. billed \subseteq billed' /\ (resp[r].pc = "tally" => r \in billed')
    BY <2>1 DEF CompletionEffect, CountInv
  <2>4. resp'[r].pc = "tally" => seen'[r] = billed'
    BY <2>1 DEF CompletionEffect
  <2>5. Completed(r)' => Completed(r) \/ Closes(r)
    BY <1>0, <2>1 DEF CompletionEffect, Completed
  <2>6. resp'[r].pc \in {"record", "relay", "toolHistory"} \/ Closes(r)' \/ Completed(r)'
            => r \in billed'
    BY <2>1, <2>3, <2>5 DEF CompletionEffect, CountInv
  <2>7. \A s \in Responses \ {r} :
            /\ resp'[s].pc # "tally"
            /\ resp'[s].pc \in {"record", "relay", "toolHistory"} \/ Closes(s)' \/ Completed(s)'
                   => s \in billed'
    BY <2>2, <2>3 DEF CountInv, Closes, Sending, Completed
  <2> QED
    BY <2>4, <2>6, <2>7 DEF CountInv
<1>2. ASSUME ~ \E r \in Responses : ResponseStep(r)
      PROVE  CountInv'
  <2>1. BystanderEffect
    BY <1>2, BystanderSteps DEF CInv, IInv
  <2>2. \A s \in Responses : /\ Closes(s)' => Closes(s)
                             /\ Completed(s)' <=> Completed(s)
    BY <2>1 DEF BystanderEffect, Closes, Sending, Completed
  <2>3. \A s \in Responses : resp'[s].pc \in {"record", "relay", "toolHistory", "tally"}
            => resp'[s] = resp[s]
    BY <2>1 DEF BystanderEffect
  <2> QED
    BY <2>1, <2>2, <2>3 DEF BystanderEffect, CountInv
<1> QED
  BY <1>1, <1>2

\* The invariant of an uninterrupted session.
THEOREM UninterruptedInvariance ==
    ASSUME Uninterrupted
    PROVE  Spec => []UInv
<1>1. ASSUME Init
      PROVE  UInv
  <2>1. CInv
    BY <1>1, ConstantsAssumption, InitInvariant, InitCompletion DEF CInv
  <2>2. \A r \in Responses : resp[r].pc = "none" /\ sent[r]["done.cancelled"] = 0
                             /\ sent[r]["done.completed"] = 0
    BY <1>1 DEF Init, Unstarted, Events
  <2>3. SerialInv
    BY <1>1, <2>2 DEF Init, Idle, SerialInv, Live
  <2>4. DoneInv /\ CountInv
    BY <1>1, <2>2 DEF Init, DoneInv, CountInv, Completed, Closes, Sending
  <2> QED
    BY <2>1, <2>3, <2>4 DEF UInv
<1>2. UInv /\ [Next]_vars => UInv'
  BY ConstantsAssumption, NextInvariant, CompletionKept, SerialKept, DoneKept, CountKept
     DEF UInv, CInv
<1> QED
  BY <1>1, <1>2, PTL DEF Spec

\* Without interruptions, the compare-and-swap of startResponse keeps responses
\* apart: a second one is claimed only when the first has returned.
THEOREM OneAtATime ==
    ASSUME Uninterrupted
    PROVE  Spec => []OneInFlight
<1>1. UInv => OneInFlight
  BY DEF UInv, SerialInv, OneInFlight
<1> QED
  BY <1>1, UninterruptedInvariance, PTL

\* The client then sees one response.done per response at most.
THEOREM AtMostOneDone ==
    ASSUME Uninterrupted
    PROVE  Spec => []DoneOnce
<1>1. UInv => DoneOnce
  <2> SUFFICES ASSUME UInv, NEW r \in Responses
               PROVE  Dones(r) <= 1
    BY DEF DoneOnce
  <2>1. sent[r]["done.cancelled"] = 0 /\ sent[r]["done.completed"] \in {0, 1}
    BY DEF UInv, DoneInv
  <2> QED
    BY <2>1 DEF Dones
<1> QED
  BY <1>1, UninterruptedInvariance, PTL

\* And the counters that are read at the end hold the tokens of every response the
\* client has been told completed by then, although goroutines add without a lock.
THEOREM UsageAlwaysComplete ==
    ASSUME Uninterrupted
    PROVE  Spec => UsageComplete
<1>1. UInv /\ [Next]_vars =>
        [handler = "logging" /\ handler' # "logging" =>
            \A r \in Responses : sent[r]["done.completed"] > 0 => r \in logged']_handler
  <2> SUFFICES ASSUME UInv, [Next]_vars, handler = "logging", handler' # "logging",
                      NEW r \in Responses, Completed(r)
               PROVE  r \in logged'
    BY DEF Completed
  <2>1. ~ \E s \in Responses : ResponseStep(s)
    BY CompletionSteps DEF UInv, CInv, IInv, TypeOK, CompletionEffect
  <2>2. logged' = billed
    BY <2>1, BystanderSteps DEF BystanderEffect, UInv, CInv, IInv
  <2> QED
    BY <2>2 DEF UInv, CountInv
<1> QED
  BY <1>1, UninterruptedInvariance, PTL DEF Spec, UsageComplete

-----------------------------------------------------------------------------
(* How a client is told of the end of a turn                                *)

\* The client has been told how the response ended.
Told(r) == sent[r]["done.completed"] + sent[r]["error"] > 0

\* While the session is served no response is cancelled or overtaken, so each one
\* that has come to its end has told the client, as long as that is there.
TellInv ==
    handler = "serving" =>
        /\ ctxDone = {}
        /\ \A r \in Responses : resp[r].pc \notin {"none", "starting", "done"} => Current(r)
        /\ \A t \in Readers : reader[t].pc = "spawn" => resp[reader[t].resp].gen = gen
        /\ Connected => \A r \in Responses : resp[r].pc \in {"exit", "done"} => Told(r)

\* A current, uncancelled response comes to its end only by telling the client.
LEMMA EndTells ==
    ASSUME TypeOK, PendingInv, ListInv, {"done.completed", "error"} \subseteq Observed,
           NEW r \in Responses, ResponseStep(r), Current(r), r \notin ctxDone, Connected,
           resp'[r].pc \in {"exit", "done"}, resp[r].pc = "exit" => Told(r)
    PROVE  Told(r)'
<1>0. /\ resp \in [Responses -> ResponseLocals]
      /\ sent[r] \in [Events -> Nat] /\ sent \in [Responses -> [Events -> Nat]]
      /\ "done.completed" \in Events /\ "error" \in Events
  BY DEF TypeOK, Events
<1>a. ASSUME NEW from, NEW to \in RespPCs \ {"exit", "done"}, RespAt(r, from, to)
      PROVE  FALSE
  BY <1>0, <1>a DEF RespAt
<1>b. ASSUME NEW from, NEW events, NEW next, Queue(r, from, events, next)
      PROVE  FALSE
  BY <1>0, <1>b DEF Queue, ResponseLocals
<1>c. ASSUME NEW last, TakeSentence(r, last)
      PROVE  FALSE
  BY <1>0, <1>c DEF TakeSentence, ResponseLocals
<1>d. ASSUME NEW e \in {"done.completed", "error"}, Deliver(r, e)
      PROVE  Told(r)'
  <2>1. sent' = [sent EXCEPT ![r][e] = @ + 1]
    BY <1>d DEF Deliver
  <2> QED
    BY <1>0, <1>d, <2>1 DEF Told
<1>e. SentenceSpoken(r) \in RespPCs \ {"exit", "done"}
  BY Labels DEF SentenceSpoken
<1> USE Labels
<1>1. CASE SendCheck(r)
  BY <1>1, <1>a DEF SendCheck
<1>2. CASE SendWrite(r)
  <2> DEFINE l == resp[r].todo
  <2>1. resp[r].pc = "write" /\ Dealt(r) /\ Deliver(r, Head(l))
    BY <1>2 DEF SendWrite
  <2>2. l \in Lists /\ l # <<>> /\ (resp[r].then = "exit" => l \in ClosingLists)
    BY <2>1, ListFacts DEF ListInv, Sending
  <2>3. Tail(l) = <<>> /\ resp[r].then = "exit"
    BY <1>0, <2>1 DEF Dealt, ResponseLocals, PendingInv, Onward
  <2>4. Head(l) = "done.completed"
    BY <2>2, <2>3, ListFacts
  <2> QED
    BY <1>d, <2>1, <2>4
<1>3. CASE StreamEnd(r) \/ ChunkSentence(r)
  BY <1>3, <1>a, <1>c DEF StreamEnd, ChunkSentence
<1>4. CASE Return(r)
  BY <1>4 DEF Return, Told, wire
<1>5. CASE RespStart(r) \/ TtsRead(r) \/ Record(r)
  BY <1>5, <1>b DEF RespStart, TtsRead, Record
<1>6. CASE Speak(r) \/ SpeakModality(r)
  BY <1>6, <1>a, <1>b DEF Speak, SpeakModality
<1>7. CASE ChunkTool(r)
  BY <1>0, <1>7 DEF ChunkTool, ResponseLocals
<1>8. CASE ChatOpen(r) \/ ChunkStale(r) \/ ChunkError(r) \/ SynthOpen(r) \/ TtsReadStale(r)
  BY <1>8, <1>a DEF ChatOpen, ChunkStale, ChunkError, SynthOpen, TtsReadStale
<1>9. CASE ChatFail(r) \/ SynthFail(r) \/ TtsEnd(r) \/ FinalCheck(r)
  BY <1>9, <1>a, <1>e DEF ChatFail, SynthFail, TtsEnd, FinalCheck
<1>10. CASE Bill(r) \/ Tally(r) \/ ToolRelay(r) \/ ToolHistory(r)
  BY <1>10, <1>a DEF Bill, Tally, ToolRelay, ToolHistory
<1>11. CASE ToolDone(r) \/ SendErr(r)
  BY <1>11, <1>d DEF ToolDone, SendErr
<1> QED
  BY <1>1, <1>2, <1>3, <1>4, <1>5, <1>6, <1>7, <1>8, <1>9, <1>10, <1>11 DEF ResponseStep

\* A response goroutine cancels no context, and what the client was told stays.
LEMMA ResponseLeaves ==
    ASSUME TypeOK, PendingInv, ListInv, NEW r \in Responses, ResponseStep(r)
    PROVE  /\ ctxDone' = ctxDone /\ reader' = reader /\ gen' = gen /\ handler' = handler
           /\ \A s \in Responses : Told(s) => Told(s)'
<1>1. ctxDone' = ctxDone
  BY DEF ResponseStep, RespStart, SendCheck, SendWrite, ChatOpen, ChatFail, ChunkStale,
         ChunkError, ChunkTool, ChunkSentence, StreamEnd, Speak, SpeakModality, SynthOpen,
         SynthFail, TtsRead, TtsReadStale, TtsEnd, FinalCheck, Bill, Tally, Record,
         ToolRelay, ToolHistory, ToolDone, SendErr, Return
<1>2. ResponseEffect(r) /\ CompletionEffect(r)
  BY ResponseStepEffect, CompletionSteps DEF TypeOK
<1>3. /\ sent \in [Responses -> [Events -> Nat]]
      /\ "done.completed" \in Events /\ "error" \in Events
  BY DEF TypeOK, Events
<1>4. \A s \in Responses : Told(s) => Told(s)'
  <2> SUFFICES ASSUME NEW s \in Responses, Told(s), sent' # sent
               PROVE  Told(s)'
    BY DEF Told
  <2>1. PICK e \in Events : sent' = [sent EXCEPT ![r][e] = @ + 1]
    BY <1>2 DEF CompletionEffect
  <2>2. /\ sent'[s]["done.completed"] \in Nat /\ sent'[s]["error"] \in Nat
        /\ sent[s]["done.completed"] \in Nat /\ sent[s]["error"] \in Nat
        /\ sent'[s]["done.completed"] >= sent[s]["done.completed"]
        /\ sent'[s]["error"] >= sent[s]["error"]
    BY <1>3, <2>1
  <2> QED
    BY <2>2 DEF Told
<1> QED
  BY <1>1, <1>2, <1>4 DEF ResponseEffect, CompletionEffect

\* In an uninterrupted session nothing but teardown cancels or overtakes.
LEMMA OthersLeave ==
    ASSUME Uninterrupted, IInv, SerialInv, [Next]_vars, handler' = "serving",
           ~ \E r \in Responses : ResponseStep(r)
    PROVE  /\ handler = "serving" /\ ctxDone' = ctxDone
           /\ Connected' => Connected
           /\ \/ \E t \in Readers : StartBump(t)
              \/ gen' = gen
<1>1. CASE ClientInput \/ SidecarInput
  BY <1>1 DEF ClientInput, SidecarInput, SessionUpdate, ItemCreateTool, ItemCreateMessage,
              ResponseCreate, ResponseCancel, SpeechStarted, FinalTurn, ReaderAt, Connected,
              ClientSends, Uninterrupted, session, IInv, TypeOK, ReaderLocals, Readers
<1>2. ASSUME NEW t \in Readers, ReaderStep(t) \/ ReaderGone(t)
      PROVE  /\ handler = "serving" /\ ctxDone' = ctxDone
             /\ Connected' => Connected
             /\ StartBump(t) \/ gen' = gen
  <2>1. reader[t].pc \in {"idle", "cas", "bump", "spawn", "gone"}
    BY DEF SerialInv
  <2>2. \/ StartRefused(t) \/ (\E r \in Responses : StartClaim(t, r)) \/ StartBump(t)
        \/ StartSpawn(t) \/ ReaderGone(t)
    BY <1>2, <2>1 DEF ReaderStep, InterruptInvalidate, InterruptCancel, InterruptStore,
       InterruptTruncate, InterruptCancelled, InterruptDone, ReaderAt
  <2>3. handler = "serving" /\ ctxDone' = ctxDone /\ (StartBump(t) \/ gen' = gen)
    BY <2>2 DEF StartRefused, StartClaim, StartBump, StartSpawn, ReaderGone, session
  <2>4. /\ \A u \in Readers \ {t} : reader'[u] = reader[u]
        /\ reader[t].pc # "gone"
    BY <2>2 DEF StartRefused, StartClaim, StartBump, StartSpawn, ReaderGone, ReaderAt,
       IInv, TypeOK, ReaderLocals
  <2> QED
    BY <2>3, <2>4 DEF Connected, Readers
<1>3. CASE Teardown
  BY <1>3 DEF Teardown, TeardownBegin, TeardownCancel, TeardownSilence, TeardownLog,
              TeardownClose, HandlerAt
<1>4. CASE UNCHANGED vars
  BY <1>4 DEF vars, session, Connected
<1> QED
  BY <1>1, <1>2, <1>3, <1>4 DEF Next

\* So the client learns of every end.
LEMMA TellKept ==
    ASSUME Uninterrupted, {"done.completed", "error"} \subseteq Observed, UInv, TellInv,
           [Next]_vars
    PROVE  TellInv'
<1> SUFFICES ASSUME handler' = "serving"
             PROVE  TellInv'
  BY DEF TellInv
<1>0. TypeOK /\ PendingInv /\ ClaimInv /\ ListInv /\ SerialInv /\ IInv
  BY DEF UInv, CInv, IInv
<1>1. ASSUME NEW r \in Responses, ResponseStep(r)
      PROVE  TellInv'
  <2>1. /\ ctxDone' = ctxDone /\ reader' = reader /\ gen' = gen /\ handler' = handler
        /\ \A s \in Responses : Told(s) => Told(s)'
    BY <1>0, <1>1, ResponseLeaves
  <2>2. ResponseEffect(r) /\ CompletionEffect(r)
    BY <1>0, <1>1, ResponseStepEffect, CompletionSteps DEF TypeOK
  <2>3. /\ handler = "serving" /\ ctxDone = {} /\ Current(r)
        /\ Connected' => Connected
    BY <2>1, <2>2 DEF TellInv, ResponseEffect, Connected
  <2>4. \A s \in Responses : resp'[s].pc \notin {"none", "starting", "done"} => Current(s)'
    BY <2>1, <2>2, <2>3 DEF TellInv, ResponseEffect, Current
  <2>5. \A t \in Readers : reader[t].pc = "spawn" =>
            reader[t].resp \in Responses \ {r}
    BY <1>0, <2>2 DEF ClaimInv, Holding, ResponseEffect
  <2>6. \A t \in Readers : reader'[t].pc = "spawn" => resp'[reader'[t].resp].gen = gen'
    BY <2>1, <2>2, <2>3, <2>5 DEF TellInv, ResponseEffect
  <2>7. ASSUME Connected', NEW s \in Responses, resp'[s].pc \in {"exit", "done"}
        PROVE  Told(s)'
    <3>1. CASE s # r
      BY <2>1, <2>2, <2>3, <2>7, <3>1 DEF TellInv, ResponseEffect
    <3>2. CASE s = r
      <4>1. resp[r].pc = "exit" => Told(r)
        BY <2>3, <2>7 DEF TellInv
      <4>2. r \notin ctxDone /\ Connected /\ resp'[r].pc \in {"exit", "done"}
        BY <2>3, <2>7, <3>2
      <4> QED
        BY <1>0, <1>1, <2>3, <3>2, <4>1, <4>2, EndTells
    <3> QED
      BY <3>1, <3>2
  <2> QED
    BY <2>1, <2>3, <2>4, <2>6, <2>7 DEF TellInv
<1>2. ASSUME ~ \E r \in Responses : ResponseStep(r)
      PROVE  TellInv'
  <2>1. /\ handler = "serving" /\ ctxDone' = ctxDone
        /\ Connected' => Connected
        /\ (\E t \in Readers : StartBump(t)) \/ gen' = gen
    BY <1>0, <1>2, OthersLeave
  <2>2. BystanderEffect /\ UninterruptedEffect
    BY <1>0, <1>2, BystanderSteps, UninterruptedSteps DEF IInv
  <2>3. \A s \in Responses : Told(s)' = Told(s)
    BY <2>2 DEF UninterruptedEffect, Told
  <2>4. ASSUME Connected', NEW s \in Responses, resp'[s].pc \in {"exit", "done"}
        PROVE  Told(s)'
    BY <2>1, <2>2, <2>3, <2>4 DEF TellInv, BystanderEffect
  <2>5. CASE \E t \in Readers : StartBump(t)
    <3>1. PICK t \in Readers : StartBump(t)
      BY <2>5
    <3>2. PICK r \in Responses :
             /\ resp[r].pc = "starting" /\ resp'[r].pc = "starting" /\ resp'[r].gen = gen + 1
             /\ \A s \in Responses \ {r} : resp'[s] = resp[s]
             /\ reader'[t].resp = r /\ reader[t].resp = r /\ reader[t].pc = "bump"
             /\ \A u \in Readers \ {t} : reader'[u] = reader[u]
             /\ gen' = gen + 1
      BY <1>0, <3>1, BumpEffect
    <3>3. \A s \in Responses : Live(s) => s = r
      BY <1>0, <3>2 DEF SerialInv, Live
    <3>4. \A s \in Responses : resp'[s].pc \in {"none", "starting", "done"}
      BY <3>2, <3>3 DEF Live
    <3>5. \A u \in Readers \ {t} : reader[u].pc # "spawn"
      BY <1>0, <3>2, <3>3 DEF ClaimInv, Holding, Live
    <3>6. \A u \in Readers : reader'[u].pc = "spawn" => resp'[reader'[u].resp].gen = gen'
      BY <3>2, <3>5
    <3> QED
      BY <2>1, <2>4, <3>4, <3>6 DEF TellInv
  <2>6. CASE gen' = gen /\ ~ \E t \in Readers : StartBump(t)
    <3>1. CASE \E t \in Readers : \E r \in Responses : StartClaim(t, r)
      <4>1. PICK t \in Readers : \E r \in Responses : StartClaim(t, r)
        BY <3>1
      <4>2. PICK r \in Responses :
               /\ resp[r].pc = "none" /\ resp'[r].pc = "starting"
               /\ \A s \in Responses \ {r} : resp'[s] = resp[s]
               /\ reader'[t].pc = "bump"
               /\ \A u \in Readers \ {t} : reader'[u] = reader[u]
        BY <1>0, <4>1, ClaimEffect
      <4>3. \A u \in Readers : reader'[u].pc = "spawn" => resp'[reader'[u].resp].gen = gen'
        BY <1>0, <2>1, <2>6, <4>2 DEF TellInv, ClaimInv, Holding
      <4> QED
        BY <2>1, <2>4, <2>6, <4>2, <4>3 DEF TellInv, Current
    <3>2. CASE \E t \in Readers : StartSpawn(t)
      <4>1. PICK t \in Readers : StartSpawn(t)
        BY <3>2
      <4>2. PICK r \in Responses :
               /\ resp[r].pc = "starting" /\ resp'[r].gen = resp[r].gen
               /\ \A s \in Responses \ {r} : resp'[s] = resp[s]
               /\ reader[t].pc = "spawn" /\ reader'[t].pc = "idle" /\ reader[t].resp = r
               /\ \A u \in Readers \ {t} : reader'[u] = reader[u]
        BY <1>0, <4>1, SpawnEffect
      <4>3. \A u \in Readers : reader'[u].pc = "spawn" => resp'[reader'[u].resp].gen = gen'
        BY <1>0, <2>1, <2>6, <4>2 DEF TellInv, ClaimInv, Holding
      <4> QED
        BY <2>1, <2>4, <2>6, <4>2, <4>3 DEF TellInv, Current
    <3>3. CASE ~ \E t \in Readers : StartSpawn(t) \/ \E r \in Responses : StartClaim(t, r)
      <4>1. QuietEffect
        BY <1>0, <1>2, <2>6, <3>3, QuietSteps DEF TypeOK
      <4>2. \A u \in Readers : reader'[u].pc = "spawn" => resp'[reader'[u].resp].gen = gen'
        BY <2>1, <2>6, <4>1 DEF TellInv, QuietEffect, Holding
      <4> QED
        BY <2>1, <2>4, <2>6, <4>1, <4>2 DEF TellInv, Current, QuietEffect
    <3> QED
      BY <3>1, <3>2, <3>3
  <2> QED
    BY <2>1, <2>5, <2>6
<1> QED
  BY <1>1, <1>2

\* A turn that is over has been ended for a client that is still there: no error
\* path of the response goroutine ends it in silence.
THEOREM EndIsAlwaysTold ==
    ASSUME Uninterrupted, {"done.completed", "error"} \subseteq Observed
    PROVE  Spec => []EndIsTold
<1>1. Init => TellInv
  BY DEF Init, TellInv, Unstarted, Idle
<1>2. UInv /\ TellInv /\ [Next]_vars => TellInv'
  BY TellKept
<1>3. TellInv => EndIsTold
  BY DEF TellInv, Told, EndIsTold
<1> QED
  BY <1>1, <1>2, <1>3, UninterruptedInvariance, PTL DEF Spec
=============================================================================
