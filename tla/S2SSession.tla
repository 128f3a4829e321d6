----------------------------- MODULE S2SSession -----------------------------
(***************************************************************************)
(* One realtime speech-to-speech session                                   *)
(* (internal/handlers/openai_realtime_s2s.go).  Four kinds of goroutine     *)
(* share the session:                                                      *)
(*   - the client reader, which handles what the client sends;              *)
(*   - the sidecar reader, which handles speech-recognition events;         *)
(*   - one response goroutine per started response (LLM -> TTS -> client);  *)
(*   - the connection handler, which waits for a reader to end and tears    *)
(*     the session down.                                                   *)
(* A step of the model is one access to the shared state: a load, store or *)
(* add of an atomic, a locked append, or one write to the client socket.   *)
(* Audio bytes, texts, ids and log lines are abstracted away; a response   *)
(* identifier stands for its response id and its output item id.           *)
(***************************************************************************)
EXTENDS Integers, Sequences

CONSTANTS
    Responses,      \* responses the session may start
    NoResponse,     \* the empty id / nil cancel function
    Interruptions,  \* REALTIME_S2S_INTERRUPTIONS
    ClientEvents,   \* kinds of events the client sends
    PatientClient,  \* whether the client waits for response.done before response.create
    Disconnects,    \* whether the client or the sidecar ever goes away
    Observed,       \* kinds of events counted in sent
    TextModes,      \* values of textOnly that session.update may set
    TurnModes,      \* turn_detection types that session.update may set
    MaxHistory,     \* inputs are taken only while the history is shorter
    MaxSentences,   \* sentences one LLM stream may yield
    MaxFrames       \* bound on respAudioBytes, counted in TTS reads

ASSUME ConstantsAssumption ==
    /\ NoResponse \notin Responses
    /\ {Interruptions, PatientClient, Disconnects} \subseteq BOOLEAN
    /\ "tool_call" \in Observed
    /\ PatientClient => {"response.created", "done.completed", "done.cancelled"} \subseteq Observed
    /\ TextModes \subseteq BOOLEAN
    /\ TurnModes \subseteq {"server_vad", "none"}
    /\ {MaxHistory, MaxSentences, MaxFrames} \subseteq Nat

VARIABLES
    responding,    \* atomic.Bool: a response is in flight
    gen,           \* atomic.Int64: response generation
    cancelResp,    \* response whose context the stored cancel function ends
    curResponseID, \* response that last published its ids
    respAudioBytes,\* audio counted since the last publication
    history,       \* conversation: sequence of [role, of]
    textOnly,
    turnDetection,
    reader,        \* per reader: program counter and the response it acts on
    resp,          \* per response goroutine: its locals
    ctxDone,       \* responses whose context is cancelled
    sent,          \* per response and observed event kind: how often written to the client
    late,          \* history variable: guarded writes made with a stale generation
    handler,       \* program counter of handle()
    billed,        \* responses whose token usage is in the session counters
    seen,          \* per response: the counters as they were when it began to add
    logged         \* billed, as read by handle() at the end

session == <<responding, gen, cancelResp, curResponseID, respAudioBytes>>
config  == <<textOnly, turnDetection>>
wire    == <<sent, late>>
usage   == <<billed, seen, logged>>
vars    == <<session, history, config, reader, resp, ctxDone, wire, handler, usage>>

Readers == {"client", "asr"}

\* Each list is offered to sendIfCurrent event by event.  "response.created"
\* stands for itself, output_item.added and content_part.added, "item.done" for
\* audio.done, audio_transcript.done, content_part.done and output_item.done.
Announcement == <<"response.created">>
Closing      == <<"item.done", "done.completed">>
Events == { "response.created",
            "transcript.delta", "text.delta", "audio.delta",
            "item.done", "done.completed",
            "tool_call", "item.truncated", "response.cancelled",
            "done.cancelled", "error" }

ReaderPCs == { "idle", "cas", "bump", "spawn", "invalidate", "cancel", "store",
               "truncate", "cancelled", "done", "gone" }
RespPCs == { "none", "starting", "start", "emit", "write", "chat", "stream",
             "speak", "modality", "synth", "tts", "final", "bill",
             "tally", "record", "relay", "toolHistory", "toolDone", "sendErr", "exit",
             "done" }
HandlerPCs == {"serving", "cancelling", "silencing", "logging", "closing", "closed"}

\* A response that has been claimed by startResponse and has not returned.
Live(r) == resp[r].pc \notin {"none", "done"}

\* response.done has been written for r, with either status.
Dones(r) == sent[r]["done.completed"] + sent[r]["done.cancelled"]

Announced(r) == sent[r]["response.created"] > 0

Message == [role : {"user", "assistant", "call", "tool"},
            of : Responses \cup {NoResponse}]

\* resp: the response being started, or the one whose end is being announced.
ReaderLocals == [pc : ReaderPCs, resp : Responses \cup {NoResponse}]

\* gen: the generation passed to the goroutine; todo, then: guarded events still
\* to send, and where to go on; said: sentences; tail: the stream has ended.
ResponseLocals == [pc : RespPCs, gen : Nat, todo : Seq(Events), then : RespPCs,
                   said : Nat, tools : BOOLEAN, tail : BOOLEAN]

\* The session's fields and the locals of its goroutines have their types.
TypeOK ==
    /\ responding \in BOOLEAN
    /\ gen \in Nat
    /\ cancelResp \in Responses \cup {NoResponse}
    /\ curResponseID \in Responses \cup {NoResponse}
    /\ respAudioBytes \in Nat
    /\ history \in Seq(Message)
    /\ textOnly \in BOOLEAN
    /\ turnDetection \in {"server_vad", "none"}
    /\ reader \in [Readers -> ReaderLocals]
    /\ resp \in [Responses -> ResponseLocals]
    /\ ctxDone \subseteq Responses
    /\ sent \in [Responses -> [Events -> Nat]]
    /\ late \in [Responses -> Nat]
    /\ handler \in HandlerPCs
    /\ billed \subseteq Responses
    /\ seen \in [Responses -> SUBSET Responses]
    /\ logged \subseteq Responses

Idle == [pc |-> "idle", resp |-> NoResponse]

\* The locals of a response goroutine that does not run.
Unstarted == [pc |-> "none", gen |-> 0, todo |-> <<>>, then |-> "none",
              said |-> 0, tools |-> FALSE, tail |-> FALSE]

Init ==
    /\ responding = FALSE
    /\ gen = 0
    /\ cancelResp = NoResponse
    /\ curResponseID = NoResponse
    /\ respAudioBytes = 0
    /\ history = <<>>
    /\ textOnly = FALSE
    /\ turnDetection = "server_vad"
    /\ reader = [t \in Readers |-> Idle]
    /\ resp = [r \in Responses |-> Unstarted]
    /\ ctxDone = {}
    /\ sent = [r \in Responses |-> [e \in Events |-> 0]]
    /\ late = [r \in Responses |-> 0]
    /\ handler = "serving"
    /\ billed = {}
    /\ seen = [r \in Responses |-> {}]
    /\ logged = {}

-----------------------------------------------------------------------------
(* Helpers                                                                 *)

\* send: a write to the socket; once either side closed it, writes only log.
Connected == handler # "closed" /\ reader["client"].pc # "gone"

Deliver(r, e) ==
    sent' = IF Connected /\ r \in Responses /\ e \in Observed
            THEN [sent EXCEPT ![r][e] = @ + 1]
            ELSE sent

appendHistory(role, r) == history' = Append(history, [role |-> role, of |-> r])

ReaderAt(t, from, to) ==
    /\ reader[t].pc = from
    /\ reader' = [reader EXCEPT ![t].pc = to]

RespAt(r, from, to) ==
    /\ resp[r].pc = from
    /\ resp' = [resp EXCEPT ![r].pc = to]

\* Hand a non-empty list of guarded events to sendIfCurrent, then go on at next.
Queue(r, from, events, next) ==
    /\ resp[r].pc = from
    /\ resp' = [resp EXCEPT ![r].pc = "emit", ![r].todo = events, ![r].then = next]

\* The goroutine has dealt with the first event of its list.
Dealt(r) ==
    LET rest == Tail(resp[r].todo)
    IN  resp' = [resp EXCEPT ![r].todo = rest,
                             ![r].pc = IF rest = <<>> THEN resp[r].then ELSE "emit"]

Current(r) == gen = resp[r].gen

\* Bound: a request is taken only while a response is left for every reader
\* that is about to claim one.
MayStart ==
    \E r \in Responses :
        /\ resp[r].pc = "none"
        /\ (\E t \in Readers : reader[t].pc = "cas")
             => \E q \in Responses \ {r} : resp[q].pc = "none"

-----------------------------------------------------------------------------
(* Client reader: handleClientEvent                                        *)

ClientSends(event) == event \in ClientEvents /\ reader["client"].pc = "idle"

\* session.update: modalities and turn_detection; later reads see the new value.
SessionUpdate ==
    /\ ClientSends("session.update")
    /\ textOnly' \in TextModes
    /\ turnDetection' \in TurnModes
    /\ UNCHANGED <<session, history, reader, resp, ctxDone, wire, handler, usage>>

\* conversation.item.create with a function_call_output: a client can only
\* answer a call it has been sent, and answers it once.
ItemCreateTool(r) ==
    /\ ClientSends("conversation.item.create")
    /\ sent[r]["tool_call"] > 0
    /\ \A i \in 1..Len(history) : history[i] # [role |-> "tool", of |-> r]
    /\ appendHistory("tool", r)
    /\ UNCHANGED <<session, config, reader, resp, ctxDone, wire, handler, usage>>

\* conversation.item.create with a text message.
ItemCreateMessage ==
    /\ ClientSends("conversation.item.create")
    /\ Len(history) < MaxHistory
    /\ appendHistory("user", NoResponse)
    /\ UNCHANGED <<session, config, reader, resp, ctxDone, wire, handler, usage>>

\* response.create
ResponseCreate ==
    /\ ClientSends("response.create")
    /\ MayStart
    /\ PatientClient => \A r \in Responses : Announced(r) => Dones(r) > 0
    /\ ReaderAt("client", "idle", "cas")
    /\ UNCHANGED <<session, history, config, resp, ctxDone, wire, handler, usage>>

\* response.cancel: interrupt returns at once unless a response is in flight.
ResponseCancel ==
    /\ ClientSends("response.cancel")
    /\ responding
    /\ ReaderAt("client", "idle", "invalidate")
    /\ UNCHANGED <<session, history, config, resp, ctxDone, wire, handler, usage>>

-----------------------------------------------------------------------------
(* Sidecar reader: handleSidecarEvent                                      *)

\* speech_started: the two loads of responding (here and in interrupt) with
\* nothing between them act as one.
SpeechStarted ==
    /\ Interruptions
    /\ responding
    /\ ReaderAt("asr", "idle", "invalidate")
    /\ UNCHANGED <<session, history, config, resp, ctxDone, wire, handler, usage>>

\* A speech-final, non-blank "final" with turn detection on: the user message
\* enters the history, then startResponse is called.
FinalTurn ==
    /\ MayStart
    /\ turnDetection # "none"
    /\ Len(history) < MaxHistory
    /\ appendHistory("user", NoResponse)
    /\ ReaderAt("asr", "idle", "cas")
    /\ UNCHANGED <<session, config, resp, ctxDone, wire, handler, usage>>

-----------------------------------------------------------------------------
(* startResponse, on either reader                                         *)

\* CompareAndSwap lost: the request is dropped.
StartRefused(t) ==
    /\ responding
    /\ ReaderAt(t, "cas", "idle")
    /\ UNCHANGED <<session, history, config, resp, ctxDone, wire, handler, usage>>

\* Mutant: the flag is set without looking at it.
StartClaimUnguarded(t, r) ==
    /\ responding' = TRUE
    /\ reader[t].pc = "cas"
    /\ reader' = [reader EXCEPT ![t] = [pc |-> "bump", resp |-> r]]
    /\ RespAt(r, "none", "starting")
    /\ UNCHANGED <<gen, cancelResp, curResponseID, respAudioBytes, history,
                   config, ctxDone, wire, handler, usage>>

\* CompareAndSwap won; r is the response that will be started.
StartClaim(t, r) ==
    /\ ~responding
    /\ responding' = TRUE
    /\ reader[t].pc = "cas"
    /\ reader' = [reader EXCEPT ![t] = [pc |-> "bump", resp |-> r]]
    /\ RespAt(r, "none", "starting")
    /\ UNCHANGED <<gen, cancelResp, curResponseID, respAudioBytes, history,
                   config, ctxDone, wire, handler, usage>>

\* Mutant: gen.Load() + 1 in place of gen.Add(1).
StartBumpLost(t) ==
    /\ ReaderAt(t, "bump", "spawn")
    /\ resp' = [resp EXCEPT ![reader[t].resp].gen = gen + 1]
    /\ UNCHANGED <<responding, gen, cancelResp, curResponseID, respAudioBytes,
                   history, config, ctxDone, wire, handler, usage>>

StartBump(t) ==
    /\ ReaderAt(t, "bump", "spawn")
    /\ gen' = gen + 1
    /\ resp' = [resp EXCEPT ![reader[t].resp].gen = gen + 1]
    /\ UNCHANGED <<responding, cancelResp, curResponseID, respAudioBytes,
                   history, config, ctxDone, wire, handler, usage>>

\* cancelResp = cancel; go runResponse(...)
StartSpawn(t) ==
    /\ reader[t].pc = "spawn"
    /\ reader' = [reader EXCEPT ![t] = Idle]
    /\ cancelResp' = reader[t].resp
    /\ RespAt(reader[t].resp, "starting", "start")
    /\ UNCHANGED <<responding, gen, curResponseID, respAudioBytes,
                   history, config, ctxDone, wire, handler, usage>>

-----------------------------------------------------------------------------
(* interrupt, on either reader, after it loaded responding = TRUE           *)

InterruptInvalidate(t) ==
    /\ gen' = gen + 1
    /\ ReaderAt(t, "invalidate", "cancel")
    /\ UNCHANGED <<responding, cancelResp, curResponseID, respAudioBytes,
                   history, config, resp, ctxDone, wire, handler, usage>>

\* Mutant: the nil check on cancelResp is dropped.
InterruptCancelNil(t) ==
    /\ ctxDone' = ctxDone \cup {cancelResp}
    /\ ReaderAt(t, "cancel", "store")
    /\ UNCHANGED <<session, history, config, resp, wire, handler, usage>>

InterruptCancel(t) ==
    /\ ctxDone' = ctxDone \cup ({cancelResp} \ {NoResponse})
    /\ ReaderAt(t, "cancel", "store")
    /\ UNCHANGED <<session, history, config, resp, wire, handler, usage>>

InterruptStore(t) ==
    /\ responding' = FALSE
    /\ ReaderAt(t, "store", "truncate")
    /\ UNCHANGED <<gen, cancelResp, curResponseID, respAudioBytes,
                   history, config, resp, ctxDone, wire, handler, usage>>

\* conversation.item.truncated, with respAudioBytes as audio_end_ms.
InterruptTruncate(t) ==
    /\ Deliver(curResponseID, "item.truncated")
    /\ ReaderAt(t, "truncate", "cancelled")
    /\ UNCHANGED <<session, history, config, resp, ctxDone, late, handler, usage>>

\* response.cancelled; the object with curResponseID is reused for response.done.
InterruptCancelled(t) ==
    /\ reader[t].pc = "cancelled"
    /\ reader' = [reader EXCEPT ![t] = [pc |-> "done", resp |-> curResponseID]]
    /\ Deliver(curResponseID, "response.cancelled")
    /\ UNCHANGED <<session, history, config, resp, ctxDone, late, handler, usage>>

InterruptDone(t) ==
    /\ reader[t].pc = "done"
    /\ reader' = [reader EXCEPT ![t] = Idle]
    /\ Deliver(reader[t].resp, "done.cancelled")
    /\ UNCHANGED <<session, history, config, resp, ctxDone, late, handler, usage>>

\* ReadMessage fails: the peer is gone, or the handler closed the connection.
ReaderGone(t) ==
    /\ Disconnects
    /\ ReaderAt(t, "idle", "gone")
    /\ UNCHANGED <<session, history, config, resp, ctxDone, wire, handler, usage>>

-----------------------------------------------------------------------------
(* runResponse                                                             *)

\* Publish the ids, reset the audio counter, announce the response.
RespStart(r) ==
    /\ curResponseID' = r
    /\ respAudioBytes' = 0
    /\ Queue(r, "start", Announcement, "chat")
    /\ UNCHANGED <<responding, gen, cancelResp, history, config, reader,
                   ctxDone, wire, handler, usage>>

\* Mutant: send in place of sendIfCurrent.
SendUnchecked(r) ==
    /\ RespAt(r, "emit", "write")
    /\ UNCHANGED <<session, history, config, reader, ctxDone, wire, handler, usage>>

\* sendIfCurrent: the generation check ...
SendCheck(r) ==
    /\ resp[r].pc = "emit"
    /\ IF Current(r) THEN RespAt(r, "emit", "write") ELSE Dealt(r)
    /\ UNCHANGED <<session, history, config, reader, ctxDone, wire, handler, usage>>

\* ... and the write, which the writeMu may delay past a generation bump.
SendWrite(r) ==
    /\ resp[r].pc = "write"
    /\ Dealt(r)
    /\ Deliver(r, Head(resp[r].todo))
    /\ late' = [late EXCEPT ![r] = IF Current(r) THEN @ ELSE @ + 1]
    /\ UNCHANGED <<session, history, config, reader, ctxDone, handler, usage>>

\* StreamChat opens the stream, unless the context is already cancelled ...
ChatOpen(r) ==
    /\ r \notin ctxDone
    /\ RespAt(r, "chat", "stream")
    /\ UNCHANGED <<session, history, config, reader, ctxDone, wire, handler, usage>>

\* Mutant: the store is deferred only after the stream is open.
ChatFailUndeferred(r) ==
    /\ RespAt(r, "chat", IF Current(r) THEN "sendErr" ELSE "done")
    /\ UNCHANGED <<session, history, config, reader, ctxDone, wire, handler, usage>>

\* Mutant: the error is only logged.
ChatFailSilent(r) ==
    /\ RespAt(r, "chat", "exit")
    /\ UNCHANGED <<session, history, config, reader, ctxDone, wire, handler, usage>>

\* ... or fails; the client is told if the response is still current.
ChatFail(r) ==
    /\ RespAt(r, "chat", IF Current(r) THEN "sendErr" ELSE "exit")
    /\ UNCHANGED <<session, history, config, reader, ctxDone, wire, handler, usage>>

\* A chunk arrives for a response that was interrupted.
ChunkStale(r) ==
    /\ ~Current(r) \/ r \in ctxDone
    /\ RespAt(r, "stream", "exit")
    /\ UNCHANGED <<session, history, config, reader, ctxDone, wire, handler, usage>>

ChunkError(r) ==
    /\ Current(r) /\ r \notin ctxDone
    /\ RespAt(r, "stream", "sendErr")
    /\ UNCHANGED <<session, history, config, reader, ctxDone, wire, handler, usage>>

ChunkTool(r) ==
    /\ Current(r) /\ r \notin ctxDone
    /\ resp[r].pc = "stream"
    /\ resp' = [resp EXCEPT ![r].tools = TRUE]
    /\ UNCHANGED <<session, history, config, reader, ctxDone, wire, handler, usage>>

\* The next sentence is ready to be spoken.
TakeSentence(r, last) ==
    /\ resp[r].pc = "stream"
    /\ resp[r].said < MaxSentences
    /\ resp' = [resp EXCEPT ![r].pc = "speak", ![r].said = @ + 1, ![r].tail = last]

\* A chunk completes a sentence.
ChunkSentence(r) ==
    /\ Current(r) /\ r \notin ctxDone
    /\ TakeSentence(r, FALSE)
    /\ UNCHANGED <<session, history, config, reader, ctxDone, wire, handler, usage>>

\* The channel closes (end of stream, or a cancelled context); the splitter
\* may still hold a last sentence.
StreamEnd(r) ==
    /\ RespAt(r, "stream", "final") \/ TakeSentence(r, TRUE)
    /\ UNCHANGED <<session, history, config, reader, ctxDone, wire, handler, usage>>

SentenceSpoken(r) == IF resp[r].tail THEN "final" ELSE "stream"

\* speakSentence: entry check, then the transcript.
Speak(r) ==
    /\ IF Current(r) THEN Queue(r, "speak", <<"transcript.delta">>, "modality")
                     ELSE RespAt(r, "speak", "exit")
    /\ UNCHANGED <<session, history, config, reader, ctxDone, wire, handler, usage>>

SpeakModality(r) ==
    /\ IF textOnly THEN Queue(r, "modality", <<"text.delta">>, SentenceSpoken(r))
                   ELSE RespAt(r, "modality", "synth")
    /\ UNCHANGED <<session, history, config, reader, ctxDone, wire, handler, usage>>

SynthOpen(r) ==
    /\ r \notin ctxDone
    /\ RespAt(r, "synth", "tts")
    /\ UNCHANGED <<session, history, config, reader, ctxDone, wire, handler, usage>>

SynthFail(r) ==
    /\ RespAt(r, "synth", IF Current(r) /\ r \notin ctxDone THEN "sendErr" ELSE "exit")
    /\ UNCHANGED <<session, history, config, reader, ctxDone, wire, handler, usage>>

\* body.Read returned audio: count it, then offer it to sendIfCurrent.
TtsRead(r) ==
    /\ Current(r) /\ r \notin ctxDone
    /\ respAudioBytes < MaxFrames
    /\ respAudioBytes' = respAudioBytes + 1
    /\ Queue(r, "tts", <<"audio.delta">>, "tts")
    /\ UNCHANGED <<responding, gen, cancelResp, curResponseID, history, config,
                   reader, ctxDone, wire, handler, usage>>

TtsReadStale(r) ==
    /\ ~Current(r) \/ r \in ctxDone
    /\ RespAt(r, "tts", "exit")
    /\ UNCHANGED <<session, history, config, reader, ctxDone, wire, handler, usage>>

\* io.EOF, or a read error of a response that is still current: go on.  (The
\* read error of a stale one ends the goroutine as TtsReadStale does.)
TtsEnd(r) ==
    /\ RespAt(r, "tts", SentenceSpoken(r))
    /\ UNCHANGED <<session, history, config, reader, ctxDone, wire, handler, usage>>

\* Mutant: only turns that call tools are billed.
FinalCheckUnbilled(r) ==
    /\ RespAt(r, "final", IF ~Current(r) THEN "exit"
                          ELSE IF resp[r].tools THEN "bill" ELSE "record")
    /\ UNCHANGED <<session, history, config, reader, ctxDone, wire, handler, usage>>

\* The check after the last sentence.
FinalCheck(r) ==
    /\ RespAt(r, "final", IF Current(r) THEN "bill" ELSE "exit")
    /\ UNCHANGED <<session, history, config, reader, ctxDone, wire, handler, usage>>

\* The counters are plain fields: they are read, and written with what was added.
Bill(r) ==
    /\ RespAt(r, "bill", "tally")
    /\ seen' = [seen EXCEPT ![r] = billed]
    /\ UNCHANGED <<session, history, config, reader, ctxDone, wire, handler, billed, logged>>

Tally(r) ==
    /\ RespAt(r, "tally", IF resp[r].tools THEN "relay" ELSE "record")
    /\ billed' = seen[r] \cup {r}
    /\ seen' = [seen EXCEPT ![r] = {}]
    /\ UNCHANGED <<session, history, config, reader, ctxDone, wire, handler, logged>>

\* Mutant: the assistant turn is not recorded.
RecordForgotten(r) ==
    /\ Queue(r, "record", Closing, "exit")
    /\ UNCHANGED <<session, history, config, reader, ctxDone, wire, handler, usage>>

\* Normal completion: history first, then the guarded closing events.
Record(r) ==
    /\ appendHistory("assistant", r)
    /\ Queue(r, "record", Closing, "exit")
    /\ UNCHANGED <<session, config, reader, ctxDone, wire, handler, usage>>

\* finishToolCallTurn: the call is written without a generation check,
ToolRelay(r) ==
    /\ RespAt(r, "relay", "toolHistory")
    /\ Deliver(r, "tool_call")
    /\ UNCHANGED <<session, history, config, reader, ctxDone, late, handler, usage>>

\* then recorded,
ToolHistory(r) ==
    /\ RespAt(r, "toolHistory", "toolDone")
    /\ appendHistory("call", r)
    /\ UNCHANGED <<session, config, reader, ctxDone, wire, handler, usage>>

\* Mutant: the missing return after a tool turn.
ToolDoneFallsThrough(r) ==
    /\ RespAt(r, "toolDone", "record")
    /\ Deliver(r, "done.completed")
    /\ UNCHANGED <<session, history, config, reader, ctxDone, late, handler, usage>>

\* then response.done is written, also unchecked.
ToolDone(r) ==
    /\ RespAt(r, "toolDone", "exit")
    /\ Deliver(r, "done.completed")
    /\ UNCHANGED <<session, history, config, reader, ctxDone, late, handler, usage>>

\* sendErr after the check that allowed it.
SendErr(r) ==
    /\ RespAt(r, "sendErr", "exit")
    /\ Deliver(r, "error")
    /\ late' = [late EXCEPT ![r] = IF Current(r) THEN @ ELSE @ + 1]
    /\ UNCHANGED <<session, history, config, reader, ctxDone, handler, usage>>

\* Mutant: the deferred store is lost.
ReturnKeepsFlag(r) ==
    /\ resp[r].pc = "exit"
    /\ resp' = [resp EXCEPT ![r] = [Unstarted EXCEPT !.pc = "done"]]
    /\ UNCHANGED <<session, history, config, reader, ctxDone, wire, handler, usage>>

\* defer sess.responding.Store(false)
Return(r) ==
    /\ resp[r].pc = "exit"
    /\ resp' = [resp EXCEPT ![r] = [Unstarted EXCEPT !.pc = "done"]]
    /\ responding' = FALSE
    /\ UNCHANGED <<gen, cancelResp, curResponseID, respAudioBytes, history,
                   config, reader, ctxDone, wire, handler, usage>>

-----------------------------------------------------------------------------
(* handle(): teardown once a reader has put its error on errCh              *)

HandlerAt(from, to) == handler = from /\ handler' = to

TeardownBegin ==
    /\ \E t \in Readers : reader[t].pc = "gone"
    /\ HandlerAt("serving", "cancelling")
    /\ UNCHANGED <<session, history, config, reader, resp, ctxDone, wire, usage>>

TeardownCancel ==
    /\ HandlerAt("cancelling", "silencing")
    /\ ctxDone' = ctxDone \cup ({cancelResp} \ {NoResponse})
    /\ UNCHANGED <<session, history, config, reader, resp, wire, usage>>

TeardownSilence ==
    /\ HandlerAt("silencing", "logging")
    /\ gen' = gen + 1
    /\ UNCHANGED <<responding, cancelResp, curResponseID, respAudioBytes,
                   history, config, reader, resp, ctxDone, wire, usage>>

\* The counters are read; rows and log entries are made of them ...
TeardownLog ==
    /\ HandlerAt("logging", "closing")
    /\ logged' = billed
    /\ UNCHANGED <<session, history, config, reader, resp, ctxDone, wire, billed, seen>>

\* ... and only then do the deferred closes run.
TeardownClose ==
    /\ HandlerAt("closing", "closed")
    /\ UNCHANGED <<session, history, config, reader, resp, ctxDone, wire, usage>>

-----------------------------------------------------------------------------
ClientInput ==
    \/ SessionUpdate
    \/ \E r \in Responses : ItemCreateTool(r)
    \/ ItemCreateMessage
    \/ ResponseCreate
    \/ ResponseCancel

SidecarInput == SpeechStarted \/ FinalTurn

\* A reader inside a handler.
ReaderStep(t) ==
    \/ StartRefused(t)
    \/ \E r \in Responses : StartClaim(t, r)
    \/ StartBump(t)
    \/ StartSpawn(t)
    \/ InterruptInvalidate(t)
    \/ InterruptCancel(t)
    \/ InterruptStore(t)
    \/ InterruptTruncate(t)
    \/ InterruptCancelled(t)
    \/ InterruptDone(t)

ResponseStep(r) ==
    \/ RespStart(r) \/ SendCheck(r) \/ SendWrite(r)
    \/ ChatOpen(r) \/ ChatFail(r)
    \/ ChunkStale(r) \/ ChunkError(r) \/ ChunkTool(r) \/ ChunkSentence(r)
    \/ StreamEnd(r)
    \/ Speak(r) \/ SpeakModality(r) \/ SynthOpen(r) \/ SynthFail(r)
    \/ TtsRead(r) \/ TtsReadStale(r) \/ TtsEnd(r)
    \/ FinalCheck(r) \/ Bill(r) \/ Tally(r) \/ Record(r)
    \/ ToolRelay(r) \/ ToolHistory(r) \/ ToolDone(r)
    \/ SendErr(r) \/ Return(r)

Teardown ==
    TeardownBegin \/ TeardownCancel \/ TeardownSilence \/ TeardownLog \/ TeardownClose

Next ==
    \/ ClientInput
    \/ SidecarInput
    \/ \E t \in Readers : ReaderStep(t) \/ ReaderGone(t)
    \/ \E r \in Responses : ResponseStep(r)
    \/ Teardown

Spec == Init /\ [][Next]_vars

\* A response that waits for the LLM, for the TTS or for the client to read.
\* None of these waits has a time limit; a cancelled context ends the first two,
\* a closed connection the last.
Held(r) ==
    \/ resp[r].pc \in {"chat", "stream", "synth", "tts"} /\ r \notin ctxDone
    \/ resp[r].pc \in {"write", "relay", "toolDone", "sendErr"} /\ Connected

\* Scheduling: goroutines run when nothing outside holds them.  Neither inputs
\* nor answers of the LLM, the TTS or the client are assumed to come.
FairSpec ==
    /\ Spec
    /\ \A r \in Responses : WF_vars(~Held(r) /\ ResponseStep(r))
    /\ \A t \in Readers : WF_vars(reader[t].pc \in {"cas", "bump", "spawn"} /\ ReaderStep(t))

-----------------------------------------------------------------------------
(* Properties that hold however readers and responses interleave            *)

\* The in-flight flag is never left set by a response that is gone: whenever
\* responding is true, some claimed response has yet to clear it.  Otherwise
\* startResponse would refuse every later turn of the session.
FlagHasOwner == responding => \E r \in Responses : Live(r)

\* Two responses never hold the same generation, so at most one of them can
\* pass the checks of sendIfCurrent and be heard.
OneAudible ==
    \A r, s \in Responses :
        r # s /\ resp[r].gen > 0 /\ resp[s].gen > 0 => resp[r].gen # resp[s].gen

\* The check and the write of sendIfCurrent are not atomic, but what leaks out
\* of an interrupted response through that gap is one event, however long its
\* list of pending events is.  (Tool calls are relayed unchecked.)
LeakBounded == \A r \in Responses : late[r] <= 1

\* When the client is told a response completed, the assistant turn is already
\* in the history, so the follow-up request will have it as context.
CompletedIsRecorded ==
    \A r \in Responses :
        sent[r]["done.completed"] > 0 =>
            \E i \in 1..Len(history) :
                history[i].role \in {"assistant", "call"} /\ history[i].of = r

\* As long as no response is left waiting for ever by the LLM, the TTS or the
\* client, no turn keeps the session busy for ever: every way through a
\* response, its errors included, lets go of the flag.
TurnEnds == (\A r \in Responses : []<>~Held(r)) => (responding ~> ~responding)

-----------------------------------------------------------------------------
(* Properties of sessions in which nothing is interrupted: a response in    *)
(* flight is never overtaken.                                              *)

\* A response that runs uncancelled is the only one.
OneInFlight ==
    \A r, s \in Responses :
        Live(r) /\ Live(s) /\ r # s => r \in ctxDone \/ s \in ctxDone

\* The counters that handle() reads for the usage entry hold the tokens of every
\* response the client has been told completed by then: goroutines add to them
\* unlocked, and before they send response.done.
UsageComplete ==
    [][handler = "logging" /\ handler' # "logging" =>
          \A r \in Responses : sent[r]["done.completed"] > 0 => r \in logged']_handler

\* A turn that is over has been ended for a client that is still there, by
\* response.done or by an error, at whatever point the LLM or the TTS failed.
EndIsTold ==
    handler = "serving" /\ Connected =>
        \A r \in Responses :
            resp[r].pc = "done" => sent[r]["done.completed"] + sent[r]["error"] > 0

\* The client never sees two response.done for one response.
DoneOnce == \A r \in Responses : Dones(r) <= 1

-----------------------------------------------------------------------------
(* Statements of the documentation and of comments in the code              *)

\* docs/realtime.md, barge-in test: response.cancelled precedes any further
\* audio.delta.
NoAudioAfterCancelled ==
    [][\A r \in Responses :
          sent[r]["response.cancelled"] > 0 =>
              sent'[r]["audio.delta"] = sent[r]["audio.delta"]]_sent

\* docs/realtime.md: the audio sent per item is tracked so that
\* truncated.audio_end_ms is accurate.
TruncationAccurate ==
    [][\A r \in Responses :
          sent'[r]["item.truncated"] > sent[r]["item.truncated"] =>
              respAudioBytes = sent[r]["audio.delta"]]_sent

\* finishToolCallTurn: the tool-call message is recorded so that the follow-up
\* call has full context; a tool result therefore follows its call.
ToolResultFollowsCall ==
    \A j \in 1..Len(history) :
        history[j].role = "tool" =>
            \E i \in 1..(j - 1) : history[i] = [role |-> "call", of |-> history[j].of]

\* response.create resumes the loop: a request is refused only while some
\* response the client has not seen the end of is in flight.
RefusedOnlyInFlight ==
    reader["client"].pc = "cas" /\ responding =>
        \E r \in Responses : Live(r) /\ Dones(r) = 0

\* handle(): the generation bump silences any final emissions.
SilentAfterTeardown ==
    [][(handler \in {"logging", "closing"}) => sent' = sent]_sent

\* handle(): cancel any in-flight response and log usage; what the session is
\* billed for is thus all that it was told completed.  (A tool turn sends
\* unchecked, and a response can start, after the counters were read.)
EntryIsWhole ==
    handler = "closed" =>
        \A r \in Responses : sent[r]["done.completed"] > 0 => r \in logged
=============================================================================
