----------------------------- MODULE StreamRoute -----------------------------
(***************************************************************************)
(* One session of the speech sidecar's buffered streaming recognizer        *)
(* (sidecar-audio/Sources/Server/Routes/StreamRoute.swift).  Vapor runs the *)
(* callback of every WebSocket frame as a task of its own, so the handlers  *)
(* of several audio frames and control messages, and the endpoint           *)
(* watchdogs, interleave at their awaits; they share StreamState (locked    *)
(* field by field) and take turns at transcribing through the gate.         *)
(* The unit of audio is one frame that fills one VAD chunk: audio counts    *)
(* units, and a segment is a pair of positions.  Texts, words, encodings    *)
(* and times of day are abstracted; any segment of at least one unit is     *)
(* longer than minFinalSamples.                                             *)
(***************************************************************************)
EXTENDS StreamWire, FiniteSets

CONSTANTS
    Frames,          \* audio frames the client sends
    Finalizes,       \* Finalize messages the client sends
    Closes,          \* CloseStream or stop messages the client sends
    MaxMessages,     \* bound: how many frames and messages the client sends in all
    Watchdogs,       \* endpoint watchdogs that may be scheduled
    NoTask,          \* nobody holds the gate
    Endpointing,     \* units of silence after speech end; 0 disables endpointing
    PartialInterval, \* partialIntervalSamples, in units
    MinTranscribe,   \* minTranscribeSamples, in units
    MaxSegment       \* maxSegmentSamples, in units

ASSUME StreamAssumption ==
    /\ NoTask \notin Frames \cup Finalizes \cup Closes \cup Watchdogs
    /\ \A s, t \in {Frames, Finalizes, Closes, Watchdogs} : s # t => s \cap t = {}
    /\ {Endpointing, MaxMessages} \subseteq Nat
    /\ {PartialInterval, MinTranscribe, MaxSegment} \subseteq Nat \ {0}

VARIABLES
    audio,           \* units in _pcmBuffer
    lastTranscribed, \* _lastTranscribedCount
    finalizedUpTo,   \* where the current segment starts
    finalsEmitted,
    pendingEnd,      \* _pendingSpeechEnd, or NoEnd
    generation,      \* _endpointGeneration
    vad,             \* units waiting for and drained by the VAD, and its state
    closed,          \* _sessionClosed
    gate,            \* the task inside the transcription gate
    task,            \* per task: its locals
    heard            \* history variable: units given to the recognizer for a final

buffer   == <<audio, lastTranscribed, finalizedUpTo, finalsEmitted>>
endpoint == <<pendingEnd, generation>>
vars     == <<buffer, endpoint, vad, closed, gate, task, wire, heard>>

Controls == Finalizes \cup Closes
Tasks    == Frames \cup Controls \cup Watchdogs

NoEnd == -1

Steps == {"new", "accepted", "vad", "chunk", "due", "rest", "try", "partial",
          "sendPartial", "wait", "text", "mark", "utterance", "done", "close", "end"}

\* What a task transcribes a final for.
Purposes == {"none", "endpoint", "rolling", "finalize", "close"}

\* from, to: the segment read; end: the speech end acted on; seen: the drained
\* chunk or the watchdog's generation; talking: the VAD state read with it.
Locals == [pc : Steps, for : Purposes, from : Nat, to : Nat, end : Int,
           seen : Nat, talking : BOOLEAN, sent : BOOLEAN]

Event == [kind : {"partial", "final", "utterance_end", "error", "done", "close"},
          from : Int, to : Int, by : Tasks]

\* The marks stay within the buffer, and every task is at one of its steps.
TypeOK ==
    /\ audio \in Nat /\ lastTranscribed \in 0..audio /\ finalizedUpTo \in 0..audio
    /\ finalsEmitted \in Nat
    /\ pendingEnd \in {NoEnd} \cup Nat
    /\ generation \in Nat
    /\ vad \in [backlog : Nat, processed : Nat, talking : BOOLEAN]
    /\ closed \in BOOLEAN
    /\ gate \in Tasks \cup {NoTask}
    /\ task \in [Tasks -> Locals]
    /\ wire \in Seq(Event)
    /\ heard \subseteq 1..audio

Init ==
    /\ audio = 0 /\ lastTranscribed = 0 /\ finalizedUpTo = 0 /\ finalsEmitted = 0
    /\ pendingEnd = NoEnd
    /\ generation = 0
    /\ vad = [backlog |-> 0, processed |-> 0, talking |-> FALSE]
    /\ closed = FALSE
    /\ gate = NoTask
    /\ task = [t \in Tasks |-> [pc |-> "new", for |-> "none", from |-> 0, to |-> 0,
                                end |-> NoEnd, seen |-> 0, talking |-> FALSE, sent |-> FALSE]]
    /\ wire = <<>>
    /\ heard = {}

-----------------------------------------------------------------------------
(* Helpers                                                                 *)

At(t, pc) == task[t].pc = pc

GoTo(t, pc) == task' = [task EXCEPT ![t].pc = pc]

\* finalizeStream has closed the socket: a later send fails, which try? ignores.
hungUp == wire # <<>> /\ wire[Len(wire)].kind = "close"

Send(t, kind, from, to) ==
    IF hungUp
    THEN wire' = wire
    ELSE wire' = Append(wire, [kind |-> kind, from |-> from, to |-> to, by |-> t])

clearPendingEndpoint == pendingEnd' = NoEnd /\ generation' = generation + 1

segmentCount == audio - finalizedUpTo

endpointDue ==
    /\ pendingEnd # NoEnd
    /\ Endpointing > 0
    /\ vad.processed - pendingEnd >= Endpointing

-----------------------------------------------------------------------------
(* The start of onBinary and of onText: nothing is accepted once closed.   *)

Receive(t) ==
    /\ At(t, "new")
    /\ Cardinality({m \in Frames \cup Controls : ~At(m, "new")}) < MaxMessages
    /\ GoTo(t, IF closed THEN "end" ELSE "accepted")
    /\ UNCHANGED <<buffer, endpoint, vad, closed, gate, wire, heard>>

-----------------------------------------------------------------------------
(* onBinary: one audio frame                                               *)

\* appendSamples and appendVadBacklog
AppendSamples(f) ==
    /\ At(f, "accepted")
    /\ audio' = audio + 1
    /\ vad' = [vad EXCEPT !.backlog = @ + 1]
    /\ GoTo(f, "vad")
    /\ UNCHANGED <<lastTranscribed, finalizedUpTo, finalsEmitted, endpoint, closed,
                   gate, wire, heard>>

\* processVad: take a chunk and the VAD state ...
DrainVadChunk(f) ==
    /\ At(f, "vad")
    /\ vad.backlog > 0
    /\ vad' = [vad EXCEPT !.backlog = @ - 1, !.processed = @ + 1]
    /\ task' = [task EXCEPT ![f].pc = "chunk", ![f].seen = vad.processed + 1,
                            ![f].talking = vad.talking]
    /\ UNCHANGED <<buffer, endpoint, closed, gate, wire, heard>>

VadDrained(f) ==
    /\ At(f, "vad")
    /\ vad.backlog = 0
    /\ GoTo(f, "rest")
    /\ UNCHANGED <<buffer, endpoint, vad, closed, gate, wire, heard>>

\* ... await the VAD, which may fail or report nothing,
VadQuiet(f) ==
    /\ At(f, "chunk")
    /\ vad' \in {vad, [vad EXCEPT !.talking = task[f].talking]}
    /\ GoTo(f, "due")
    /\ UNCHANGED <<buffer, endpoint, closed, gate, wire, heard>>

\* report the start of speech,
SpeechStart(f) ==
    /\ At(f, "chunk")
    /\ ~task[f].talking
    /\ vad' = [vad EXCEPT !.talking = TRUE]
    /\ clearPendingEndpoint
    /\ GoTo(f, "due")
    /\ UNCHANGED <<buffer, closed, gate, wire, heard>>

\* Mutant: no watchdog is scheduled.
SpeechEndUnwatched(f) ==
    /\ At(f, "chunk")
    /\ task[f].talking
    /\ vad' = [vad EXCEPT !.talking = FALSE]
    /\ pendingEnd' = task[f].seen
    /\ generation' = generation + 1
    /\ GoTo(f, "due")
    /\ UNCHANGED <<buffer, closed, gate, wire, heard>>

\* or report its end: markSpeechEnd and scheduleEndpointWatchdog.
SpeechEnd(f) ==
    /\ At(f, "chunk")
    /\ task[f].talking
    /\ vad' = [vad EXCEPT !.talking = FALSE]
    /\ pendingEnd' = task[f].seen
    /\ generation' = generation + 1
    /\ IF Endpointing = 0
       THEN GoTo(f, "due")
       ELSE \E w \in Watchdogs :
               /\ At(w, "new")
               /\ task' = [task EXCEPT ![f].pc = "due", ![w].pc = "due",
                                       ![w].seen = generation + 1]
    /\ UNCHANGED <<buffer, closed, gate, wire, heard>>

\* The endpoint check after each chunk; emitEndpointFinal reads the speech end
\* before it waits for the gate.
EndpointDue(f) ==
    /\ f \in Frames /\ At(f, "due")
    /\ IF endpointDue
       THEN task' = [task EXCEPT ![f].pc = "wait", ![f].for = "endpoint", ![f].end = pendingEnd]
       ELSE GoTo(f, "vad")
    /\ UNCHANGED <<buffer, endpoint, vad, closed, gate, wire, heard>>

\* After the VAD: a rolling final for a long segment, or perhaps a partial.
Rest(f) ==
    /\ At(f, "rest")
    /\ \/ /\ segmentCount >= MaxSegment
          /\ task' = [task EXCEPT ![f].pc = "wait", ![f].for = "rolling"]
       \/ /\ segmentCount < MaxSegment
          /\ GoTo(f, IF /\ audio - lastTranscribed >= PartialInterval
                        /\ segmentCount >= MinTranscribe
                     THEN "try" ELSE "end")
    /\ UNCHANGED <<buffer, endpoint, vad, closed, gate, wire, heard>>

\* tryAcquire, then the segment is read.
TryPartial(f) ==
    /\ At(f, "try")
    /\ IF gate = NoTask
       THEN /\ gate' = f
            /\ lastTranscribed' = audio
            /\ task' = [task EXCEPT ![f].pc = "partial", ![f].from = finalizedUpTo, ![f].to = audio]
       ELSE /\ GoTo(f, "end")
            /\ UNCHANGED <<gate, lastTranscribed>>
    /\ UNCHANGED <<audio, finalizedUpTo, finalsEmitted, endpoint, vad, closed, wire, heard>>

\* The gate is released whatever the recognizer said; the partial follows.
PartialDone(f) ==
    /\ At(f, "partial")
    /\ gate' = NoTask
    /\ \E next \in {"sendPartial", "end"} : GoTo(f, next)
    /\ UNCHANGED <<buffer, endpoint, vad, closed, wire, heard>>

SendPartial(f) ==
    /\ At(f, "sendPartial")
    /\ Send(f, "partial", task[f].from, task[f].to)
    /\ GoTo(f, "end")
    /\ UNCHANGED <<buffer, endpoint, vad, closed, gate, heard>>

\* The watchdog's timer fires.
WatchdogFires(w) ==
    /\ w \in Watchdogs /\ At(w, "due")
    /\ IF ~closed /\ generation = task[w].seen /\ pendingEnd # NoEnd
       THEN task' = [task EXCEPT ![w].pc = "wait", ![w].for = "endpoint", ![w].end = pendingEnd]
       ELSE GoTo(w, "end")
    /\ UNCHANGED <<buffer, endpoint, vad, closed, gate, wire, heard>>

-----------------------------------------------------------------------------
(* onText: Finalize, CloseStream and stop                                  *)

\* emitFinalEvent cancels a pending endpoint and waits for the gate.
Finalize(c) ==
    /\ At(c, "accepted")
    /\ clearPendingEndpoint
    /\ task' = [task EXCEPT ![c].pc = "wait", ![c].for = "finalize"]
    /\ UNCHANGED <<buffer, vad, closed, gate, wire, heard>>

CloseStream(c) ==
    /\ At(c, "accepted")
    /\ closed' = TRUE
    /\ clearPendingEndpoint
    /\ task' = [task EXCEPT ![c].pc = "wait", ![c].for = "close"]
    /\ UNCHANGED <<buffer, vad, gate, wire, heard>>

-----------------------------------------------------------------------------
(* Finals: emitEndpointFinal, emitRollingFinal and emitFinalEvent            *)

\* The gate is acquired and the segment is read and given to the recognizer.
Acquire(t) ==
    /\ At(t, "wait")
    /\ gate = NoTask
    /\ gate' = t
    /\ task' = [task EXCEPT ![t].pc = "text", ![t].from = finalizedUpTo, ![t].to = audio]
    /\ heard' = heard \cup (finalizedUpTo + 1)..audio
    /\ IF task[t].for = "endpoint" THEN clearPendingEndpoint ELSE UNCHANGED endpoint
    /\ UNCHANGED <<buffer, vad, closed, wire>>

segmentEmpty(t) == task[t].from = task[t].to

\* Finalize is always answered; a CloseStream only if no final went out before.
mustAnswer(t) == \/ task[t].for = "finalize"
                 \/ task[t].for = "close" /\ finalsEmitted = 0

\* Text, or an empty final that is owed.
SendFinal(t) ==
    /\ At(t, "text")
    /\ ~segmentEmpty(t) \/ mustAnswer(t)
    /\ Send(t, "final", task[t].from, task[t].to)
    /\ task' = [task EXCEPT ![t].pc = "mark", ![t].sent = TRUE]
    /\ UNCHANGED <<buffer, endpoint, vad, closed, gate, heard>>

\* Mutant: an empty result is not worth an answer.
NoFinalEver(t) ==
    /\ At(t, "text")
    /\ GoTo(t, "mark")
    /\ UNCHANGED <<buffer, endpoint, vad, closed, gate, wire, heard>>

\* Nothing was recognized, or too little audio is there; an endpoint or a
\* rolling final treats a failed transcription alike.
NoFinal(t) ==
    /\ At(t, "text")
    /\ ~mustAnswer(t)
    /\ GoTo(t, "mark")
    /\ UNCHANGED <<buffer, endpoint, vad, closed, gate, wire, heard>>

\* A failed transcription for Finalize or CloseStream: the segment stays open.
FinalFails(t) ==
    /\ At(t, "text")
    /\ task[t].for \in {"finalize", "close"}
    /\ ~segmentEmpty(t)
    /\ Send(t, "error", task[t].from, task[t].to)
    /\ GoTo(t, IF task[t].for = "close" THEN "done" ELSE "end")
    /\ UNCHANGED <<buffer, endpoint, vad, closed, gate, heard>>

AfterMark(t) ==
    CASE task[t].for = "endpoint" -> IF segmentEmpty(t)
                                     THEN IF t \in Frames THEN "vad" ELSE "end"
                                     ELSE "utterance"
      [] task[t].for = "close" -> "done"
      [] OTHER -> "end"

\* Endpoint and rolling finals release the gate themselves; emitFinalEvent
\* defers that to a task of its own (ReleaseLater).
GateAfter(t) == IF task[t].for \in {"endpoint", "rolling"} THEN NoTask ELSE gate

\* Mutant: the boundary is not moved.
MarkForgotten(t) ==
    /\ At(t, "mark")
    /\ finalsEmitted' = IF task[t].sent THEN finalsEmitted + 1 ELSE finalsEmitted
    /\ gate' = GateAfter(t)
    /\ task' = [task EXCEPT ![t].pc = AfterMark(t), ![t].sent = FALSE]
    /\ UNCHANGED <<audio, lastTranscribed, finalizedUpTo, endpoint, vad, closed, wire, heard>>

\* markFinalSent, markFinalized (all that is buffered by now) and release.
Mark(t) ==
    /\ At(t, "mark")
    /\ finalsEmitted' = IF task[t].sent THEN finalsEmitted + 1 ELSE finalsEmitted
    /\ finalizedUpTo' = audio
    /\ gate' = GateAfter(t)
    /\ task' = [task EXCEPT ![t].pc = AfterMark(t), ![t].sent = FALSE]
    /\ UNCHANGED <<audio, lastTranscribed, endpoint, vad, closed, wire, heard>>

ReleaseLater(c) ==
    /\ gate = c
    /\ \E pc \in {"done", "close", "end"} : At(c, pc)
    /\ gate' = NoTask
    /\ UNCHANGED <<buffer, endpoint, vad, closed, task, wire, heard>>

UtteranceEnd(t) ==
    /\ At(t, "utterance")
    /\ Send(t, "utterance_end", task[t].end, task[t].end)
    /\ GoTo(t, IF t \in Frames THEN "vad" ELSE "end")
    /\ UNCHANGED <<buffer, endpoint, vad, closed, gate, heard>>

\* finalizeStream, after its final
Done(c) ==
    /\ At(c, "done")
    /\ Send(c, "done", 0, 0)
    /\ GoTo(c, "close")
    /\ UNCHANGED <<buffer, endpoint, vad, closed, gate, heard>>

\* ws.close()
HangUp(c) ==
    /\ At(c, "close")
    /\ Send(c, "close", 0, 0)
    /\ GoTo(c, "end")
    /\ UNCHANGED <<buffer, endpoint, vad, closed, gate, heard>>

-----------------------------------------------------------------------------
FrameStep(f) ==
    \/ AppendSamples(f) \/ DrainVadChunk(f) \/ VadDrained(f)
    \/ VadQuiet(f) \/ SpeechStart(f) \/ SpeechEnd(f) \/ EndpointDue(f)
    \/ Rest(f) \/ TryPartial(f) \/ PartialDone(f) \/ SendPartial(f)

ControlStep(c) ==
    \/ c \in Finalizes /\ Finalize(c)
    \/ c \in Closes /\ CloseStream(c)
    \/ ReleaseLater(c)

FinalStep(t) ==
    \/ Acquire(t) \/ SendFinal(t) \/ NoFinal(t) \/ FinalFails(t) \/ Mark(t)
    \/ UtteranceEnd(t) \/ Done(t) \/ HangUp(t)

Next ==
    \/ \E t \in Frames \cup Controls : Receive(t)
    \/ \E f \in Frames : FrameStep(f)
    \/ \E w \in Watchdogs : WatchdogFires(w)
    \/ \E c \in Controls : ControlStep(c)
    \/ \E t \in Tasks : FinalStep(t)

Spec == Init /\ [][Next]_vars

\* Tasks run, the recognizer and the VAD answer, timers fire and a task that
\* polls the gate gets it in the end; what the client sends is up to it.
FairSpec ==
    /\ Spec
    /\ \A f \in Frames : WF_vars(FrameStep(f))
    /\ \A w \in Watchdogs : WF_vars(WatchdogFires(w))
    /\ \A c \in Controls : WF_vars(ControlStep(c))
    /\ \A t \in Tasks : SF_vars(FinalStep(t))

-----------------------------------------------------------------------------
(* Properties                                                              *)

Answered(c) == \E i \in 1..Len(wire) : wire[i].by = c /\ wire[i].kind \in {"final", "error"}

\* Every Finalize taken up is answered by a final or by an error event, unless a
\* CloseStream of the same client overtakes it at the gate (whose waiters poll)
\* and closes the socket first.
FinalizeAnswered ==
    \A c \in Finalizes : At(c, "wait") ~> Answered(c) \/ hungUp

\* A speech end does not stay pending for ever when the client falls silent: it
\* becomes a final, or is cancelled by speech, by Finalize or by closing.
EndpointFires == pendingEnd # NoEnd ~> pendingEnd = NoEnd \/ closed

-----------------------------------------------------------------------------
(* Statements of the documentation and of comments in the code              *)

\* docs/api.md, /v1/listen: the finals, concatenated, are the complete text; so
\* audio the session has finalized was given to the recognizer.
NothingSkipped == 1..finalizedUpTo \subseteq heard

\* finalizeStream: "the endpoint final must reach the client BEFORE done is sent
\* and the socket closes"; so none is sent later.
DoneIsLast ==
    \A i, j \in 1..Len(wire) :
        /\ wire[i].kind = "done"
        /\ wire[j].kind = "final" /\ task[wire[j].by].for = "endpoint"
        => j < i

\* emitFinalEvent: "Finalize always answers"; so one whose task is over has been
\* answered.
FinalizeAlwaysAnswers ==
    \A c \in Finalizes : task[c].for = "finalize" /\ At(c, "end") => Answered(c)
=============================================================================
