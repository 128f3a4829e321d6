----------------------------- MODULE LiveSession -----------------------------
(***************************************************************************)
(* One live-transcription WebSocket session, at any of the five endpoints   *)
(* that proxy to the audio sidecar: native (ws.go), watson (watson.go),     *)
(* openai_realtime, deepgram_realtime and deepgram (the files of these      *)
(* names).  Each runs a goroutine that forwards the client's frames and one *)
(* that translates the sidecar's events, and waits for the first of them    *)
(* to end; they differ in which frames and errors they pass on, and in how  *)
(* they tear down.  The client and the sidecar are external.  Texts,        *)
(* logging and metrics are left out.                                        *)
(***************************************************************************)
EXTENDS Naturals, SequencesExt

CONSTANTS
    Endpoints,   \* the endpoints sessions may be of
    Audio,       \* audio frames of the client
    Finalizes,   \* its Finalize messages
    Configure,   \* start (watson), session.update (openai_realtime)
    CloseStream, \* its CloseStream or stop message
    Nothing,     \* no frame, no event, no message answered
    MaxEvents,   \* events the sidecar emits unasked, by endpoint
    Interim,     \* interim_results, as the client asks for it
    Reordered,   \* the sidecar may emit them out of order
    MayStall     \* the client may stop reading its socket

ASSUME LiveAssumption ==
    /\ Endpoints \subseteq {"native", "watson", "openai_realtime",
                            "deepgram_realtime", "deepgram"}
    /\ Audio \cap Finalizes = {}
    /\ {Configure, CloseStream, Nothing} \cap (Audio \cup Finalizes) = {}
    /\ Configure # CloseStream /\ Nothing \notin {Configure, CloseStream}
    /\ MaxEvents \in [Endpoints -> Nat]
    /\ {Interim, Reordered, MayStall} \subseteq BOOLEAN

VARIABLES
    endpoint,
    client,    \* open, half-closed (still receiving) or gone; stalled; whether
               \* its last frame was CloseStream
    unsent,    \* frames the client may yet send
    up,        \* client frames not yet read
    toSidecar, \* frames written to the sidecar
    sidecar,   \* running, done or dead; the audio heard; the turn it is in;
               \* how many events it may emit unasked
    events,    \* sidecar events not yet read
    received,  \* what was written to the client
    reader,    \* client -> sidecar goroutine
    writer,    \* sidecar -> client goroutine
    stats,     \* dgSessionStats; the counters of the others
    interim,   \* interim_results
    item,      \* itemID of openai_realtime, as a number
    errCh,     \* session-ending conditions
    main,      \* the handler: its program counter, the cause, the wait
    readError, \* CLIENT_READ_ERROR has been logged
    logged     \* frames in the usage record

outside == <<endpoint, client, unsent, sidecar>>
handler == <<main, logged>>
session == <<received, interim, item>>
vars    == <<outside, up, toSidecar, events, session, reader, writer, stats,
             errCh, handler, readError>>

Flushes == Finalizes \cup {CloseStream}
Frame   == Audio \cup Flushes \cup {Configure}

Joins    == endpoint \in {"deepgram", "deepgram_realtime"}
Realtime == endpoint \in {"openai_realtime", "deepgram_realtime"} \* on /stream/realtime

Causes == {"client_read", "forward", "sidecar_read", "client_write",
           "sidecar_error", "sidecar_done"}

\* of: the Finalize a final or an error answers, if any.  turn is the end of a
\* turn; terminal the Metadata, listening or done message of a session.
Turns    == 0..MaxEvents[endpoint]
Event    == [kind : {"partial", "final", "turn", "error", "done"},
             of : Finalizes \cup {Nothing}, turn : Turns]
Response == [kind : {"partial", "final", "turn", "error", "terminal", "updated"},
             of : Finalizes \cup {Nothing}, turn : Nat, item : Nat]

\* The channels and the locals of the goroutines have their types, and errCh never
\* holds more than its capacity, so no goroutine blocks on reporting its end.
TypeOK ==
    /\ endpoint \in Endpoints
    /\ client \in [state : {"open", "half", "gone"}, stalled : BOOLEAN, closed : BOOLEAN]
    /\ unsent \subseteq Frame
    /\ up \in Seq(Frame) /\ toSidecar \in Seq(Frame)
    /\ sidecar \in [state : {"up", "done", "dead"}, heard : Nat, turn : Turns,
                    spare : Turns]
    /\ events \in Seq(Event) /\ received \subseteq Response
    /\ reader \in [pc : {"idle", "reading", "replying", "forwarding", "exited"},
                   holding : Frame \cup {Nothing}]
    /\ writer \in [pc : {"idle", "reading", "writing", "marking", "exited"},
                   holding : Event \cup {Nothing}]
    /\ stats \in [frames : Nat, results : Nat, flushAt : Nat, closeStream : BOOLEAN]
    /\ interim \in BOOLEAN /\ item \in Nat
    /\ errCh \in Seq(Causes) /\ Len(errCh) <= 2
    /\ main \in [pc : {"dialing", "serving", "ending", "waiting", "closing", "joining",
                       "metering", "returning", "returned", "refused"},
                 cause : Causes \cup {"none"}, flushAt : Nat, expired : BOOLEAN]
    /\ readError \in BOOLEAN
    /\ logged \in Nat

\* openai_realtime knows no flush, watson only stop; what an endpoint ignores, or
\* passes on without a reading of its own, is left out.
Sends ==
    CASE endpoint = "openai_realtime" -> Audio \cup {Configure}
      [] endpoint = "watson"          -> Audio \cup {Configure, CloseStream}
      [] endpoint = "native"          -> Audio \cup {CloseStream}
      [] OTHER                        -> Audio \cup Flushes

\* Only some endpoints know interim_results.
Gates == endpoint \in {"watson", "deepgram_realtime", "deepgram"}

Init ==
    /\ endpoint \in Endpoints
    /\ client = [state |-> "open", stalled |-> FALSE, closed |-> FALSE]
    /\ unsent = Sends
    /\ up = <<>> /\ toSidecar = <<>>
    /\ sidecar = [state |-> "up", heard |-> 0, turn |-> 0, spare |-> MaxEvents[endpoint]]
    /\ events = <<>> /\ received = {}
    /\ reader = [pc |-> "idle", holding |-> Nothing]
    /\ writer = [pc |-> "idle", holding |-> Nothing]
    /\ stats = [frames |-> 0, results |-> 0, flushAt |-> 0, closeStream |-> FALSE]
    /\ interim = (Gates => Interim)
    /\ item = 0
    /\ errCh = <<>>
    /\ main = [pc |-> "dialing", cause |-> "none", flushAt |-> 0, expired |-> FALSE]
    /\ readError = FALSE
    /\ logged = 0

-----------------------------------------------------------------------------
(* Time is counted in final results delivered: a flush requested after n    *)
(* results is answered by the (n+1)st.                                      *)

flushPending == stats.flushAt > stats.results

resultAtOrAfter(t) == stats.results >= t

\* The sidecar connection is closed, and the client connection released or its
\* read deadline set.
torn == main.pc \in IF Joins THEN {"joining", "returned"} ELSE {"returned"}

Ends(cause) == errCh' = Append(errCh, cause)

-----------------------------------------------------------------------------
(* The client and the sidecar (external)                                   *)

ClientSends ==
    /\ client.state = "open" /\ reader.pc # "idle" /\ ~torn
    /\ \E f \in unsent : /\ unsent' = unsent \ {f} /\ up' = Append(up, f)
                         /\ client' = [client EXCEPT !.closed = (f = CloseStream)]
    /\ UNCHANGED <<endpoint, sidecar, toSidecar, events, session, reader, writer,
                   stats, errCh, handler, readError>>

\* A half-closed client is told from one that is gone only where a flush has its grace.
Grace == endpoint = "deepgram"

ClientLeaves ==
    /\ main.pc \notin {"refused", "returned"}
    /\ \/ client.state = "open" /\ Grace /\ client' = [client EXCEPT !.state = "half"]
       \/ client.state # "gone" /\ client' = [client EXCEPT !.state = "gone"]
       \/ MayStall /\ ~client.stalled /\ client' = [client EXCEPT !.stalled = TRUE]
    /\ UNCHANGED <<endpoint, unsent, sidecar, up, toSidecar, events, session, reader,
                   writer, stats, errCh, handler, readError>>

Says(kind, z) == [kind |-> kind, of |-> z, turn |-> sidecar.turn]

\* A partial, the final of an endpoint, or, from /stream/realtime, the end of a
\* turn, which begins the next.
SidecarSpeaks ==
    /\ sidecar.state = "up" /\ sidecar.spare > 0 /\ writer.pc # "idle" /\ ~torn
    /\ \E kind \in {"partial", "final"} \cup (IF Realtime THEN {"turn"} ELSE {}) :
       \E i \in IF Reordered THEN 1..(Len(events) + 1) ELSE {Len(events) + 1} :
          /\ events' = InsertAt(events, i, Says(kind, Nothing))
          /\ sidecar' = [sidecar EXCEPT !.spare = @ - 1,
                                        !.turn = IF kind = "turn" THEN @ + 1 ELSE @]
    /\ UNCHANGED <<endpoint, client, unsent, up, toSidecar, session, reader, writer,
                   stats, errCh, handler, readError>>

\* Finalize is answered by a final or an error; CloseStream by done and the
\* end of the connection, with or without a final before.
SidecarTakes ==
    /\ sidecar.state = "up" /\ toSidecar # <<>> /\ ~torn
    /\ toSidecar' = Tail(toSidecar)
    /\ LET f == Head(toSidecar) IN
       \/ /\ f \in Audio
          /\ sidecar' = [sidecar EXCEPT !.heard = @ + 1]
          /\ UNCHANGED events
       \/ /\ f \in Finalizes
          /\ \E kind \in {"final", "error"} : events' = Append(events, Says(kind, f))
          /\ UNCHANGED sidecar
       \/ /\ f = CloseStream
          /\ \E last \in {<<>>, <<Says("final", Nothing)>>} :
                events' = events \o last \o <<Says("done", Nothing)>>
          /\ sidecar' = [sidecar EXCEPT !.state = "done"]
    /\ UNCHANGED <<endpoint, client, unsent, up, session, reader, writer, stats, errCh,
                   handler, readError>>

\* It may die, and take with it what is on the way.
SidecarDies ==
    /\ sidecar.state = "up" /\ ~torn
    /\ sidecar' = [sidecar EXCEPT !.state = "dead"]
    /\ events' \in {events, <<>>}
    /\ UNCHANGED <<endpoint, client, unsent, up, toSidecar, session, reader, writer,
                   stats, errCh, handler, readError>>

-----------------------------------------------------------------------------
(* Connecting to the sidecar, and starting the goroutines                   *)

Dial ==
    /\ main.pc = "dialing"
    /\ \/ /\ sidecar.state = "up"
          /\ main' = [main EXCEPT !.pc = "serving"]
          /\ reader' = [reader EXCEPT !.pc = "reading"]
          /\ writer' = [writer EXCEPT !.pc = "reading"]
       \/ /\ sidecar.state = "dead"
          /\ main' = [main EXCEPT !.pc = "refused"]
          /\ UNCHANGED <<reader, writer>>
    /\ UNCHANGED <<outside, up, toSidecar, events, session, stats, errCh, logged, readError>>

-----------------------------------------------------------------------------
(* Client -> sidecar goroutine                                              *)

Consumed(f) == f = Configure /\ endpoint = "watson"

Replied(f) == f = Configure /\ endpoint = "openai_realtime"

\* Mutant: a CloseStream is not noted for the terminal message.
CountNoClose(f) ==
    [stats EXCEPT
        !.frames  = IF f \in Audio THEN @ + 1 ELSE @,
        !.flushAt = IF Joins /\ f \in Flushes THEN stats.results + 1 ELSE @]

\* addAudio, requestFlush: before the frame is forwarded.
Count(f) ==
    [stats EXCEPT
        !.frames      = IF f \in Audio THEN @ + 1 ELSE @,
        !.flushAt     = IF Joins /\ f \in Flushes THEN stats.results + 1 ELSE @,
        !.closeStream = IF Joins /\ f \in Flushes THEN f = CloseStream ELSE @]

\* watson's start may carry a new interim_results, which the other goroutine reads.
ReadFrame ==
    /\ reader.pc = "reading" /\ up # <<>>
    /\ LET f == Head(up) IN
       /\ stats' = Count(f)
       /\ reader' = IF Consumed(f) THEN reader
                    ELSE [pc |-> IF Replied(f) THEN "replying" ELSE "forwarding",
                          holding |-> f]
       /\ interim' \in IF f = Configure /\ endpoint = "watson" THEN BOOLEAN ELSE {interim}
    /\ up' = Tail(up)
    /\ UNCHANGED <<outside, toSidecar, events, received, item, writer, errCh, handler,
                   readError>>

\* The read fails: the client is away, or the session is torn down.
ReadFails ==
    /\ reader.pc = "reading"
    /\ torn \/ (up = <<>> /\ client.state # "open")
    /\ readError' = (readError \/ (Joins /\ ~torn))
    /\ Ends("client_read")
    /\ reader' = [reader EXCEPT !.pc = "exited"]
    /\ UNCHANGED <<outside, up, toSidecar, events, session, writer, stats, handler>>

Forward ==
    /\ reader.pc = "forwarding" /\ ~torn
    /\ toSidecar' = Append(toSidecar, reader.holding)
    /\ reader' = [pc |-> "reading", holding |-> Nothing]
    /\ UNCHANGED <<outside, up, events, session, writer, stats, errCh, handler, readError>>

\* Frames whose forwarding may fail without the goroutine ending.
ErrorIgnored(f) ==
    \/ endpoint = "openai_realtime"
    \/ endpoint = "deepgram_realtime" /\ f \in Flushes
    \/ endpoint = "watson" /\ f = CloseStream

ForwardFails ==
    /\ reader.pc = "forwarding"
    /\ torn \/ sidecar.state # "up"
    /\ IF ErrorIgnored(reader.holding)
       THEN reader' = [pc |-> "reading", holding |-> Nothing] /\ UNCHANGED errCh
       ELSE reader' = [pc |-> "exited", holding |-> Nothing] /\ Ends("forward")
    /\ UNCHANGED <<outside, up, toSidecar, events, session, writer, stats, handler, readError>>

\* Writes have no deadline: while the client is stalled they block, and once it
\* is gone they fail or vanish.
Released == client.state = "gone" \/ (torn /\ ~Joins)
Writable == ~client.stalled \/ Released

Sent(e, kind) ==
    received' = received \cup {[kind |-> kind, of |-> e.of, turn |-> e.turn, item |-> item]}

\* session.updated, written by this goroutine; an error is ignored.
Reply ==
    /\ reader.pc = "replying" /\ Writable
    /\ Sent([of |-> Nothing, turn |-> item], "updated")
    /\ reader' = [pc |-> "reading", holding |-> Nothing]
    /\ UNCHANGED <<outside, up, toSidecar, events, interim, item, writer, stats, errCh,
                   handler, readError>>

-----------------------------------------------------------------------------
(* Sidecar -> client goroutine                                              *)

Skipped(e) ==
    \/ e.kind = "partial" /\ Gates /\ ~interim
    \/ e.kind = "turn" /\ endpoint = "deepgram_realtime"
    \/ /\ e.kind = "done"
       /\ \/ endpoint = "openai_realtime"
          \/ endpoint = "deepgram_realtime" /\ ~stats.closeStream

\* The time of the last result is taken before the write, at some endpoints.
MarkedEarly(e) ==
    \/ endpoint = "native"
    \/ Realtime /\ e.kind = "final"

ReadEvent ==
    /\ writer.pc = "reading" /\ events # <<>> /\ ~torn
    /\ LET e == Head(events) IN
       /\ writer' = IF Skipped(e) THEN writer ELSE [pc |-> "writing", holding |-> e]
       /\ stats' = [stats EXCEPT !.results = IF MarkedEarly(e) THEN @ + 1 ELSE @]
    /\ events' = Tail(events)
    /\ UNCHANGED <<outside, up, toSidecar, session, reader, errCh, handler, readError>>

ReadEventFails ==
    /\ writer.pc = "reading"
    /\ torn \/ (events = <<>> /\ sidecar.state # "up")
    /\ Ends("sidecar_read")
    /\ writer' = [writer EXCEPT !.pc = "exited"]
    /\ UNCHANGED <<outside, up, toSidecar, events, session, reader, stats, handler, readError>>

\* Error and done end the session at watson and deepgram only; at the others
\* the sidecar closes the connection.
EndsSession(e) == e.kind \in {"error", "done"} /\ endpoint \in {"watson", "deepgram"}

\* What an event becomes.
Kind(e) == IF e.kind = "done" THEN "terminal" ELSE e.kind

\* The item id changes at end_of_turn.
NextItem(e) == IF e.kind = "turn" /\ endpoint = "openai_realtime" THEN item + 1 ELSE item

WriteResult ==
    /\ writer.pc = "writing" /\ ~EndsSession(writer.holding) /\ Writable
    /\ Sent(writer.holding, Kind(writer.holding))
    /\ item' = NextItem(writer.holding)
    /\ writer' = IF writer.holding.kind = "final" /\ endpoint \in {"watson", "deepgram"}
                 THEN [writer EXCEPT !.pc = "marking"]
                 ELSE [pc |-> "reading", holding |-> Nothing]
    /\ UNCHANGED <<outside, up, toSidecar, events, interim, reader, stats, errCh, handler,
                   readError>>

\* The two realtime endpoints ignore it.
WriteFails ==
    /\ writer.pc = "writing" /\ ~EndsSession(writer.holding) /\ Released
    /\ IF Realtime
       THEN /\ writer' = [pc |-> "reading", holding |-> Nothing]
            /\ item' = NextItem(writer.holding)
            /\ UNCHANGED errCh
       ELSE /\ writer' = [pc |-> "exited", holding |-> Nothing]
            /\ Ends("client_write")
            /\ UNCHANGED item
    /\ UNCHANGED <<outside, up, toSidecar, events, received, interim, reader, stats,
                   handler, readError>>

markResult ==
    /\ writer.pc = "marking"
    /\ stats' = [stats EXCEPT !.results = @ + 1]
    /\ writer' = [pc |-> "reading", holding |-> Nothing]
    /\ UNCHANGED <<outside, up, toSidecar, events, session, reader, errCh, handler, readError>>

\* Mutant: the loop goes on after the last event.
LastWriteGoesOn ==
    /\ writer.pc = "writing" /\ EndsSession(writer.holding) /\ Writable
    /\ Sent(writer.holding, Kind(writer.holding))
    /\ Ends(IF writer.holding.kind = "done" THEN "sidecar_done" ELSE "sidecar_error")
    /\ writer' = [pc |-> "reading", holding |-> Nothing]
    /\ UNCHANGED <<outside, up, toSidecar, events, interim, item, reader, stats, handler,
                   readError>>

\* Error, or the terminal message for done; whether it was written or not, the
\* goroutine ends.
LastWrite ==
    /\ writer.pc = "writing" /\ EndsSession(writer.holding) /\ Writable
    /\ Sent(writer.holding, Kind(writer.holding))
    /\ Ends(IF writer.holding.kind = "done" THEN "sidecar_done" ELSE "sidecar_error")
    /\ writer' = [pc |-> "exited", holding |-> Nothing]
    /\ UNCHANGED <<outside, up, toSidecar, events, interim, item, reader, stats, handler,
                   readError>>

-----------------------------------------------------------------------------
(* The handler                                                             *)

other == <<outside, up, toSidecar, events, session, reader, writer, stats, readError>>

EndBegins ==
    /\ main.pc = "serving" /\ errCh # <<>>
    /\ errCh' = Tail(errCh)
    /\ main' = [main EXCEPT !.cause = Head(errCh),
                            !.pc = IF Grace THEN "ending"
                                   ELSE IF Joins THEN "closing" ELSE "metering"]
    /\ UNCHANGED <<other, logged>>

\* Mutant: no period of grace.
CheckFlushNever ==
    /\ main.pc = "ending"
    /\ main' = [main EXCEPT !.pc = "closing"]
    /\ UNCHANGED <<other, errCh, logged>>

\* flushPending
CheckFlush ==
    /\ main.pc = "ending"
    /\ main' = IF flushPending THEN [main EXCEPT !.pc = "waiting", !.flushAt = stats.flushAt]
               ELSE [main EXCEPT !.pc = "closing"]
    /\ UNCHANGED <<other, errCh, logged>>

\* Mutant: the wait has no deadline and does not look at the sidecar.
WaitForeverForFlush ==
    /\ main.pc = "waiting"
    /\ resultAtOrAfter(main.flushAt)
    /\ main' = [main EXCEPT !.pc = "closing"]
    /\ UNCHANGED <<other, errCh, logged>>

\* waitForFlushResult: sidecar_gone, delivered or expired
waitForFlushResult ==
    /\ main.pc = "waiting"
    /\ \/ /\ writer.pc = "exited" \/ resultAtOrAfter(main.flushAt)
          /\ main' = [main EXCEPT !.pc = "closing"]
       \/ main' = [main EXCEPT !.pc = "closing", !.expired = TRUE]
    /\ UNCHANGED <<other, errCh, logged>>

TearDown ==
    /\ main.pc = "closing"
    /\ main' = [main EXCEPT !.pc = "joining"]
    /\ UNCHANGED <<other, errCh, logged>>

\* Mutant: the usage record is written without waiting for the goroutines.
JoinNobody ==
    /\ main.pc = "joining"
    /\ logged' = stats.frames
    /\ main' = [main EXCEPT !.pc = "returned"]
    /\ UNCHANGED <<other, errCh>>

\* wg.Wait() is over; usage is logged from a snapshot.
Join ==
    /\ main.pc = "joining"
    /\ reader.pc = "exited" /\ writer.pc = "exited"
    /\ logged' = stats.frames
    /\ main' = [main EXCEPT !.pc = "returned"]
    /\ UNCHANGED <<other, errCh>>

\* Usage is logged from counters that the other goroutine may still advance; its
\* last increment may not be visible before it has written the frame.
Meter ==
    /\ main.pc = "metering"
    /\ logged' \in {stats.frames} \cup
                   (IF reader.holding \in Audio THEN {stats.frames - 1} ELSE {})
    /\ main' = [main EXCEPT !.pc = "returning"]
    /\ UNCHANGED <<other, errCh>>

\* The deferred closes; nothing waits for the goroutines.
Return ==
    /\ main.pc = "returning"
    /\ main' = [main EXCEPT !.pc = "returned"]
    /\ UNCHANGED <<other, errCh, logged>>

-----------------------------------------------------------------------------
Client  == ClientSends \/ ClientLeaves
Sidecar == SidecarSpeaks \/ SidecarTakes \/ SidecarDies
Reader  == ReadFrame \/ ReadFails \/ Forward \/ ForwardFails \/ Reply
Writer  == ReadEvent \/ ReadEventFails \/ WriteResult \/ WriteFails \/ markResult \/ LastWrite
Handler == \/ Dial \/ EndBegins \/ CheckFlush \/ waitForFlushResult \/ TearDown \/ Join
           \/ Meter \/ Return

Next == Client \/ Sidecar \/ Reader \/ Writer \/ Handler

Spec == Init /\ [][Next]_vars

\* The goroutines run; nothing is assumed of the client and the sidecar.
FairSpec == Spec /\ WF_vars(Reader) /\ WF_vars(Writer) /\ WF_vars(Handler)

-----------------------------------------------------------------------------
(* Properties                                                              *)

lingering == main.pc = "returned" /\ {reader.pc, writer.pc} # {"exited"}

\* The usage record of the two Deepgram endpoints counts every audio frame the
\* session read, and none of their goroutines is left to use the connections
\* after the handler has returned.
UsageExact ==
    main.pc = "returned" /\ Joins => logged = stats.frames /\ ~lingering

\* The sidecar connection is not closed under a flush that is pending, unless
\* its goroutine is gone or the grace has expired (the lost-Finalize bug).
FlushNotCut ==
    torn /\ Grace /\ flushPending => main.expired \/ writer.pc = "exited"

\* A client whose last frame was CloseStream, and which goes on reading, has the
\* terminal message (or an error) when the handler returns after the sidecar's done.
CloseAnswered ==
    /\ main.pc = "returned" /\ endpoint # "openai_realtime"
    /\ client = [state |-> "open", stalled |-> FALSE, closed |-> TRUE]
    /\ sidecar.state = "done"
    => \E r \in received : r.kind \in {"terminal", "error"}

\* openai_realtime labels the events of one turn with one item and those of
\* different turns with different ones, if the sidecar emits them in order.
ItemPerTurn ==
    endpoint = "openai_realtime" => \A r \in received : r.item = r.turn

\* Each ending condition makes the handler return, if the client takes what is
\* written to it, or goes.
SessionEnds == <>[]Writable => (errCh # <<>> ~> main.pc = "returned")

-----------------------------------------------------------------------------
(* Statements of comments and tests in the code                            *)

answered(z) == \E r \in received : r.of = z

\* A client that half-closes right after Finalize still gets the final for it,
\* if the sidecar lives and answers within the grace.
FlushSurvivesHalfClose ==
    /\ main.pc = "returned" /\ main.cause = "client_read" /\ ~main.expired
    /\ client.state = "half" /\ ~client.stalled /\ sidecar.state = "up"
    => \A z \in Finalizes \ unsent : answered(z)

\* Metadata is sent on every termination by the server.
EveryEndHasMetadata ==
    /\ main.pc = "returned" /\ main.cause # "client_read"
    /\ client.state = "open" /\ ~client.stalled
    => \E r \in received : r.kind = "terminal"

\* CloseStream earns a terminal Metadata before the session ends.
CloseEarnsMetadata ==
    /\ main.pc = "returned" /\ sidecar.state = "done"
    /\ client.state = "open" /\ ~client.stalled
    => \E r \in received : r.kind \in {"terminal", "error"}

\* Teardown unblocks both goroutines and waits for them, whatever the client does.
AlwaysEnds == errCh # <<>> ~> main.pc = "returned"

\* CLIENT_READ_ERROR is logged only when the client ended the session.
ReadErrorIsCause == main.pc = "returned" /\ readError => main.cause = "client_read"

\* A handler does not return while a goroutine of its session is running.
NoneLingers == ~lingering

\* Only one goroutine at a time writes to the client connection.
OneWriter == ~(reader.pc = "replying" /\ writer.pc = "writing")
=============================================================================
