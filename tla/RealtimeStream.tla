--------------------------- MODULE RealtimeStream ---------------------------
(***************************************************************************)
(* One realtime transcription session of the audio sidecar                   *)
(* (RealtimeStreamRoute.swift).  Every message of the client is handled by a *)
(* task of its own, tasks start in any order and interleave at their awaits,  *)
(* and the sender makes another task of every send.  A frame of audio yields *)
(* one VAD chunk.  The streaming engine, the VAD model and the client are     *)
(* external; what is said is left out.                                        *)
(***************************************************************************)
EXTENDS RealtimeAudio

CONSTANTS
    MaxFrames, \* frames of audio the client sends
    Observed   \* the kinds of messages to the client that are looked at

Kinds == {"ready", "partial", "speech_started", "speech_stopped", "final",
          "end_of_turn", "done", "error"}

ASSUME Bounds == MaxFrames \in Nat \ {0} /\ Observed \subseteq Kinds

Frames == 1..MaxFrames

VARIABLES
    eou,     \* the engine detects ends of utterances itself
    link,    \* the socket is open
    sent,    \* frames sent so far
    late,    \* frames sent by a client that had seen "ready"
    closed, ready, backlog, vad, \* RealtimeStreamState, with pending
    task,    \* per frame, and for the audio drained by the loader
    loader,
    finalize, close, \* the tasks of Finalize and of CloseStream
    out, seen \* messages given to tasks that send them, and those that arrived

session == <<closed, ready, pending, backlog, vad>>
wire    == <<link, sent, late>>
tasks   == <<task, loader, finalize, close>>
vars    == <<eou, wire, session, tasks, engine, out, seen>>

Workers == Frames \cup {0}  \* 0: the loader

Steps == {"none", "arrived", "buffering", "vad", "judging", "turn", "asr", "over"}

\* No more is buffered or judged than the client sent.
TypeOK ==
    /\ {eou, link, closed, ready} \subseteq BOOLEAN
    /\ sent \in 0..MaxFrames /\ late \subseteq 1..sent
    /\ pending \in Seq(1..sent)
    /\ backlog \in 0..MaxFrames /\ vad \in 0..MaxFrames
    /\ task \in [Workers -> [pc : Steps, samples : Seq(1..sent), read : 0..MaxFrames]]
    /\ loader \in {"loading", "telling", "draining", "over"}
    /\ finalize \in {"none", "arrived", "asked", "over"}
    /\ close \in {"none", "arrived", "finishing", "answering", "over"}
    /\ engine \in [heard : Seq(1..sent), finished : BOOLEAN, released : BOOLEAN]
    /\ out \cup seen \subseteq Observed

Idle == [pc |-> "none", samples |-> <<>>, read |-> 0]

Init ==
    /\ eou \in BOOLEAN
    /\ link = TRUE /\ sent = 0 /\ late = {}
    /\ closed = FALSE /\ ready = FALSE /\ pending = <<>> /\ backlog = 0 /\ vad = 0
    /\ task = [w \in Workers |-> Idle]
    /\ loader = "loading" /\ finalize = "none" /\ close = "none"
    /\ engine = [heard |-> <<>>, finished |-> FALSE, released |-> FALSE]
    /\ out = {} /\ seen = {}

At(w, pc) == task[w].pc = pc

Goto(w, pc) == task' = [task EXCEPT ![w].pc = pc]

Send(kinds) == out' = out \cup (kinds \cap Observed)

-----------------------------------------------------------------------------
(* The client (external)                                                    *)

ClientSendsAudio ==
    /\ link /\ sent < MaxFrames /\ close = "none"
    /\ sent' = sent + 1
    /\ late' = IF "ready" \in seen THEN late \cup {sent + 1} ELSE late
    /\ task' = [task EXCEPT ![sent + 1] =
                  [pc |-> "arrived", samples |-> <<sent + 1>>, read |-> 0]]
    /\ UNCHANGED <<eou, link, session, loader, finalize, close, engine, out, seen>>

ClientSendsControl ==
    /\ link /\ close = "none"
    /\ \/ close' = "arrived" /\ UNCHANGED finalize
       \/ finalize = "none" /\ finalize' = "arrived" /\ UNCHANGED close
    /\ UNCHANGED <<eou, wire, session, task, loader, engine, out, seen>>

\* ws.onClose: cleanup runs in a task of its own, after nothing else.
Cleanup == engine' = [engine EXCEPT !.released = TRUE]

ClientLeaves ==
    /\ link /\ link' = FALSE
    /\ closed' = TRUE /\ Cleanup
    /\ UNCHANGED <<eou, sent, late, ready, pending, backlog, vad, tasks, out, seen>>

\* A send arrives, unless the socket was closed before.
Deliver ==
    /\ \E k \in out :
          /\ out' = out \ {k}
          /\ seen' = IF link THEN seen \cup {k} ELSE seen
    /\ UNCHANGED <<eou, wire, session, tasks, engine>>

-----------------------------------------------------------------------------
(* Audio: onBinary, processRealtimeAudio                                     *)

\* The frame's audio is dropped when the session is closed; engineReady is read.
OnBinary(f) ==
    /\ At(f, "arrived")
    /\ \/ closed /\ Goto(f, "over") /\ UNCHANGED backlog
       \/ ~closed /\ ~ready /\ Goto(f, "buffering") /\ UNCHANGED backlog
       \/ ~closed /\ ready /\ Goto(f, "vad") /\ backlog' = backlog + 1
    /\ UNCHANGED <<eou, wire, closed, ready, pending, vad, loader, finalize, close,
                   engine, out, seen>>

\* Mutant: the frame that is kept for later is processed now, too.
AppendAndGoOn(f) ==
    /\ At(f, "buffering")
    /\ pending' = Append(pending, f) /\ backlog' = backlog + 1
    /\ Goto(f, "vad")
    /\ UNCHANGED <<eou, wire, closed, ready, vad, loader, finalize, close, engine, out, seen>>

\* appendPending, under the lock again.
AppendPending(f) ==
    /\ At(f, "buffering")
    /\ pending' = Append(pending, f)
    /\ Goto(f, "over")
    /\ UNCHANGED <<eou, wire, closed, ready, backlog, vad, loader, finalize, close,
                   engine, out, seen>>

\* drainVadChunk, and vadState is read for the call; without a chunk it is ASR's turn.
DrainVadChunk(w) ==
    /\ At(w, "vad")
    /\ IF backlog = 0 THEN Goto(w, "asr") /\ UNCHANGED backlog
       ELSE /\ backlog' = backlog - 1
            /\ task' = [task EXCEPT ![w].pc = "judging", ![w].read = vad]
    /\ UNCHANGED <<eou, wire, closed, ready, pending, vad, loader, finalize, close,
                   engine, out, seen>>

\* The result's state is stored; a boundary is told, and ends the turn of an engine
\* that does not find it itself.  The call may fail.
VadResult(w) ==
    /\ At(w, "judging")
    /\ \/ Goto(w, "vad") /\ UNCHANGED <<vad, out>>
       \/ /\ vad' = task[w].read + 1
          /\ \/ Goto(w, "vad") /\ \E k \in {{}, {"speech_started"}} : Send(k)
             \/ Goto(w, IF eou THEN "vad" ELSE "turn") /\ Send({"speech_stopped"})
    /\ UNCHANGED <<eou, wire, closed, ready, pending, backlog, loader, finalize, close,
                   engine, seen>>

TurnMessages == {"final", "end_of_turn"}

\* getPartialTranscript and emitTurnEnd, which need a transcript that is not empty.
EmitTurnEnd(w) ==
    /\ At(w, "turn")
    /\ Goto(w, "vad")
    /\ \/ UNCHANGED out
       \/ engine.heard # <<>> /\ Send(TurnMessages)
    /\ UNCHANGED <<eou, wire, session, loader, finalize, close, engine, seen>>

\* appendAudio and processBufferedAudio, whatever they return: a partial transcript,
\* and the end of an utterance where the engine detects it.
ProcessBufferedAudio(w) ==
    /\ At(w, "asr")
    /\ engine' = [engine EXCEPT !.heard = @ \o task[w].samples]
    /\ task' = [task EXCEPT ![w] = [Idle EXCEPT !.pc = "over"]]
    /\ \/ \E k \in {{}, {"partial"}} : Send(k)
       \/ eou /\ Send({"partial"} \cup TurnMessages)
    /\ UNCHANGED <<eou, wire, session, loader, finalize, close, seen>>

-----------------------------------------------------------------------------
(* Loading the engine                                                      *)

\* Mutant: the client is told before the flag is set.
TellThenMark ==
    /\ \/ /\ loader = "loading"
          /\ Send({"ready"}) /\ loader' = "telling" /\ UNCHANGED ready
       \/ /\ loader = "telling" /\ ready' = TRUE /\ loader' = "draining"
          /\ UNCHANGED out
    /\ UNCHANGED <<eou, wire, closed, pending, backlog, vad, task, finalize, close, engine, seen>>

\* loadModels, markEngineReady, and after an await the client is told.  A load that
\* fails closes the socket.
LoadModels ==
    /\ \/ /\ loader = "loading"
          /\ ready' = TRUE /\ loader' = "telling"
          /\ UNCHANGED <<link, closed, engine, out>>
       \/ /\ loader = "loading"
          /\ loader' = "over"
          /\ link' = FALSE /\ closed' = TRUE /\ Cleanup
          /\ Send({"error"}) /\ UNCHANGED ready
       \/ /\ loader = "telling" /\ Send({"ready"}) /\ loader' = "draining"
          /\ UNCHANGED <<link, closed, ready, engine>>
    /\ UNCHANGED <<eou, sent, late, pending, backlog, vad, task, finalize, close, seen>>

DrainPending ==
    /\ loader = "draining" /\ loader' = "over"
    /\ pending' = <<>>
    /\ IF pending = <<>> THEN UNCHANGED <<task, backlog>>
       ELSE /\ task' = [task EXCEPT ![0] = [pc |-> "vad", samples |-> pending, read |-> 0]]
            /\ backlog' = backlog + Len(pending)
    /\ UNCHANGED <<eou, wire, closed, ready, vad, finalize, close, engine, out, seen>>

-----------------------------------------------------------------------------
(* Control messages: onText, finalizeRealtime                                *)

\* A Finalize asks the engine for its transcript and sends it, empty or not.
OnFinalize ==
    /\ \/ finalize = "arrived" /\ UNCHANGED out
          /\ finalize' = IF closed THEN "over" ELSE "asked"
       \/ finalize = "asked" /\ finalize' = "over" /\ Send({"final"})
    /\ UNCHANGED <<eou, wire, session, task, loader, close, engine, seen>>

OnCloseStream ==
    /\ close = "arrived"
    /\ close' = IF closed THEN "over" ELSE "finishing"
    /\ closed' = TRUE
    /\ UNCHANGED <<eou, wire, ready, pending, backlog, vad, task, loader, finalize,
                   engine, out, seen>>

\* The engine finishes with a text, with none, or with an error; done is sent, and the
\* socket closed when that has been handed to its task.
FinalizeRealtime ==
    /\ \/ /\ close = "finishing" /\ close' = "answering"
          /\ engine' = [engine EXCEPT !.finished = TRUE]
          /\ \E kinds \in {{}, {"error"}} \cup (IF engine.heard = <<>> THEN {} ELSE {{"final"}}) :
                Send(kinds \cup {"done"})
          /\ UNCHANGED link
       \/ /\ close = "answering" /\ close' = "over"
          /\ link' = FALSE /\ Cleanup /\ UNCHANGED out
    /\ UNCHANGED <<eou, sent, late, session, task, loader, finalize, seen>>

-----------------------------------------------------------------------------
Client == ClientSendsAudio \/ ClientSendsControl \/ ClientLeaves

Audio(w) ==
    \/ w # 0 /\ (OnBinary(w) \/ AppendPending(w))
    \/ DrainVadChunk(w) \/ VadResult(w) \/ EmitTurnEnd(w) \/ ProcessBufferedAudio(w)

Control == OnCloseStream \/ FinalizeRealtime

Loader == LoadModels \/ DrainPending

Next ==
    \/ Client \/ Deliver
    \/ \E w \in Workers : Audio(w)
    \/ Loader \/ OnFinalize \/ Control

Spec == Init /\ [][Next]_vars

\* Tasks are run, and the external engine answers.
FairSpec ==
    /\ Spec
    /\ WF_vars(Control) /\ WF_vars(Loader)
    /\ \A w \in Workers : WF_vars(Audio(w))

-----------------------------------------------------------------------------
(* Properties                                                              *)

\* A client that waits for "ready" before it sends loses nothing: its audio reaches
\* the engine, unless the session is closed first.
ReadyMeansHeard ==
    \A f \in Frames : f \in late ~> f \in Range(engine.heard) \/ closed

-----------------------------------------------------------------------------
(* Statements of comments in the code                                      *)

\* Incoming audio is queued until the engine is loaded, then forwarded.
QueuedIsForwarded ==
    \A f \in Frames : sent >= f ~> f \in Range(engine.heard) \/ closed

\* The VAD streams: every chunk is judged from the state the one before it left.
VadInSequence == \A w \in Workers : At(w, "judging") => task[w].read = vad

\* Sends are serialized (RealtimeSender): "done" is the last thing, and arrives.
DoneIsLast == [][seen' # seen => "done" \notin seen]_vars

\* The engine is given nothing once its last transcript has been asked for.
NothingAfterFinish ==
    [][engine.heard' # engine.heard => ~engine.finished /\ ~engine.released]_vars
=============================================================================
