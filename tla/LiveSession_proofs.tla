------------------------- MODULE LiveSession_proofs -------------------------
(***************************************************************************)
(* Proofs about LiveSession, for any endpoints, frames and events: its types, *)
(* UsageExact, FlushNotCut and CloseAnswered.                               *)
(***************************************************************************)
EXTENDS LiveSession, TLAPS, SequenceTheorems

Over == main.pc \notin {"dialing", "refused", "serving"}

Exited(g) == IF g.pc = "exited" THEN 1 ELSE 0

\* A goroutine reports its end once; the handler has taken the first report when
\* it goes on.
ErrInv == Len(errCh) + (IF Over THEN 1 ELSE 0) <= Exited(reader) + Exited(writer)

\* What the program counters tell of one another and of what is held.
PlaceInv ==
    /\ main.pc \in {"dialing", "refused"} <=> reader.pc = "idle"
    /\ main.pc \in {"dialing", "refused"} <=> writer.pc = "idle"
    /\ reader.pc \in {"forwarding", "replying"} <=> reader.holding # Nothing
    /\ writer.pc \in {"writing", "marking"} => writer.holding \in Event
    /\ reader.holding \in Audio => stats.frames > 0
    /\ Joins => main.pc \notin {"metering", "returning"}
    /\ sidecar.turn + sidecar.spare <= MaxEvents[endpoint]

UsageInv ==
    main.pc = "returned" /\ Joins =>
        logged = stats.frames /\ reader.pc = "exited" /\ writer.pc = "exited"

\* While the goroutine that would deliver its answer runs, no flush is requested
\* once the session ends, and the handler waits for the last one.
FlushInv ==
    Grace /\ writer.pc # "exited" =>
        /\ main.pc = "waiting" => main.flushAt = stats.flushAt
        /\ main.pc \in {"closing", "joining", "returned"} /\ ~main.expired => ~flushPending

None(s) == \A i \in 1..Len(s) : s[i] # CloseStream

\* CloseStream is in one place at a time on its way to the sidecar, and as long as
\* it is the last frame nothing is behind it.
NotOnItsWay == None(up) /\ reader.holding # CloseStream /\ None(toSidecar)

Fresh ==
    /\ CloseStream \in unsent => ~client.closed /\ NotOnItsWay
    /\ sidecar.state = "done" => CloseStream \notin unsent /\ NotOnItsWay

OnePlace ==
    /\ \A i \in 1..Len(up) : up[i] = CloseStream =>
         /\ reader.holding # CloseStream /\ None(toSidecar)
         /\ \A j \in 1..Len(up) : up[j] = CloseStream => j = i
    /\ reader.holding = CloseStream => None(toSidecar)
    /\ \A i, j \in 1..Len(toSidecar) :
         toSidecar[i] = CloseStream /\ toSidecar[j] = CloseStream => i = j

Behind ==
    /\ None(up) => up = <<>>
    /\ \A i \in 1..Len(up) : up[i] = CloseStream => i = Len(up)
    /\ reader.holding = CloseStream => up = <<>>
    /\ \A i \in 1..Len(toSidecar) : toSidecar[i] = CloseStream =>
         i = Len(toSidecar) /\ reader.holding = Nothing /\ up = <<>>
    /\ sidecar.state = "done" => toSidecar = <<>> /\ reader.holding = Nothing /\ up = <<>>
    /\ Joins /\ None(up) => stats.closeStream

PassageInv == Fresh /\ OnePlace /\ (client.closed => Behind)

\* The client reads on and has had no terminal message yet, and the sidecar has not
\* died.
Hopeful ==
    /\ endpoint # "openai_realtime" /\ sidecar.state # "dead"
    /\ client.state = "open" /\ ~client.stalled
    /\ ~ \E r \in received : r.kind \in {"terminal", "error"}

\* Then nothing has ended the session, unless by a frame sent after CloseStream, and
\* done is still to be passed on.
CloseInv ==
    /\ Hopeful /\ (sidecar.state = "up" \/ client.closed) =>
         reader.pc # "exited" /\ writer.pc # "exited"
    /\ Hopeful /\ sidecar.state = "done" /\ client.closed =>
         \/ \E i \in 1..Len(events) : events[i].kind = "done"
         \/ writer.pc = "writing" /\ writer.holding.kind = "done"

IInv == /\ TypeOK /\ ErrInv /\ PlaceInv /\ UsageInv /\ FlushInv
        /\ PassageInv /\ CloseInv

-----------------------------------------------------------------------------
(* Types                                                                    *)

\* TypeOK but for the capacity of errCh, in parts.
OutsideT ==
    /\ endpoint \in Endpoints
    /\ client \in [state : {"open", "half", "gone"}, stalled : BOOLEAN, closed : BOOLEAN]
    /\ unsent \subseteq Frame
    /\ sidecar \in [state : {"up", "done", "dead"}, heard : Nat, turn : Turns, spare : Turns]

FramesT == up \in Seq(Frame) /\ toSidecar \in Seq(Frame)

EventsT == events \in Seq(Event)

SessionT == received \subseteq Response /\ interim \in BOOLEAN /\ item \in Nat

ReaderT == reader \in [pc : {"idle", "reading", "replying", "forwarding", "exited"},
                       holding : Frame \cup {Nothing}]

WriterT == writer \in [pc : {"idle", "reading", "writing", "marking", "exited"},
                       holding : Event \cup {Nothing}]

StatsT == stats \in [frames : Nat, results : Nat, flushAt : Nat, closeStream : BOOLEAN]

MainT == main \in [pc : {"dialing", "serving", "ending", "waiting", "closing", "joining",
                         "metering", "returning", "returned", "refused"},
                   cause : Causes \cup {"none"}, flushAt : Nat, expired : BOOLEAN]

ErrT == errCh \in Seq(Causes) /\ readError \in BOOLEAN

LoggedT == logged \in Nat

Typed == /\ OutsideT /\ FramesT /\ EventsT /\ SessionT /\ ReaderT /\ WriterT /\ StatsT
         /\ MainT /\ ErrT /\ LoggedT

LEMMA TypeSplits == TypeOK <=> Typed /\ Len(errCh) <= 2
BY DEF TypeOK, Typed, OutsideT, FramesT, EventsT, SessionT, ReaderT, WriterT, StatsT, MainT, ErrT,
   LoggedT

\* A part stays typed while its variables stay, since the endpoint always does.
LEMMA PartsStay ==
    ASSUME Typed, endpoint' = endpoint
    PROVE  /\ UNCHANGED <<client, unsent, sidecar>> => OutsideT'
           /\ UNCHANGED <<up, toSidecar>> => FramesT'
           /\ UNCHANGED events => EventsT'
           /\ UNCHANGED <<received, interim, item>> => SessionT'
           /\ UNCHANGED reader => ReaderT'
           /\ UNCHANGED writer => WriterT'
           /\ UNCHANGED stats => StatsT'
           /\ UNCHANGED main => MainT'
           /\ UNCHANGED <<errCh, readError>> => ErrT'
           /\ UNCHANGED logged => LoggedT'
           /\ Turns' = Turns /\ Event' = Event
<1>1. Turns' = Turns /\ Event' = Event
  BY DEF Turns, Event
<1>2. UNCHANGED <<client, unsent, sidecar>> => OutsideT'
  BY <1>1 DEF Typed, OutsideT
<1>3. UNCHANGED events => EventsT'
  BY <1>1 DEF Typed, EventsT
<1>4. UNCHANGED writer => WriterT'
  BY <1>1 DEF Typed, WriterT
<1>5. /\ UNCHANGED <<up, toSidecar>> => FramesT'
      /\ UNCHANGED <<received, interim, item>> => SessionT'
      /\ UNCHANGED reader => ReaderT'
      /\ UNCHANGED stats => StatsT'
  BY DEF Typed, FramesT, SessionT, ReaderT, StatsT
<1>6. /\ UNCHANGED main => MainT'
      /\ UNCHANGED <<errCh, readError>> => ErrT'
      /\ UNCHANGED logged => LoggedT'
  BY DEF Typed, MainT, ErrT, LoggedT
<1> QED
  BY <1>1, <1>2, <1>3, <1>4, <1>5, <1>6

\* An event put at any place among others.
LEMMA InsertTyped ==
    ASSUME NEW S, NEW s \in Seq(S), NEW e \in S, NEW i \in 1..(Len(s) + 1)
    PROVE  InsertAt(s, i, e) \in Seq(S)
<1>1. SubSeq(s, 1, i - 1) \in Seq(S) /\ SubSeq(s, i, Len(s)) \in Seq(S) /\ <<e>> \in Seq(S)
  OBVIOUS
<1> QED
  BY <1>1 DEF InsertAt

\* The shortest sequences.
LEMMA ShortTyped ==
    ASSUME NEW S
    PROVE  <<>> \in Seq(S) /\ \A e \in S : <<e>> \in Seq(S)
OBVIOUS

\* The endpoint of a session does not change.
LEMMA EndpointStays ==
    ASSUME Next
    PROVE  endpoint' = endpoint
BY DEF Next, Client, Sidecar, Reader, Writer, Handler, ClientSends, ClientLeaves, SidecarSpeaks,
   SidecarTakes, SidecarDies, ReadFrame, ReadFails, Forward, ForwardFails, Reply, ReadEvent,
   ReadEventFails, WriteResult, WriteFails, markResult, LastWrite, Dial, EndBegins, CheckFlush,
   waitForFlushResult, TearDown, Join, Meter, Return, outside, other

\* Steps of the client and the sidecar.
LEMMA OutsideTyped ==
    ASSUME LiveAssumption, Typed, PlaceInv, Client \/ Sidecar
    PROVE  Typed'
<1> USE DEF outside, session, handler
<1>0. endpoint' = endpoint /\ Turns' = Turns /\ Event' = Event
  BY EndpointStays, PartsStay DEF Next
<1>1. CASE ClientSends
  <2>1. PICK f \in unsent : /\ unsent' = unsent \ {f} /\ up' = Append(up, f)
                            /\ client' = [client EXCEPT !.closed = (f = CloseStream)]
    BY <1>1 DEF ClientSends
  <2>2. FramesT'
    BY <1>1, <2>1 DEF ClientSends, Typed, FramesT, OutsideT
  <2>3. OutsideT'
    BY <1>0, <1>1, <2>1 DEF ClientSends, Typed, OutsideT
  <2> QED
    BY <1>0, <1>1, <2>2, <2>3, PartsStay DEF ClientSends, Typed
<1>2. CASE ClientLeaves
  <2>1. OutsideT'
    BY <1>0, <1>2 DEF ClientLeaves, Typed, OutsideT
  <2> QED
    BY <1>0, <1>2, <2>1, PartsStay DEF ClientLeaves, Typed
<1>3. CASE SidecarSpeaks
  <2>1. PICK kind \in {"partial", "final", "turn"}, i \in 1..(Len(events) + 1) :
          /\ events' = InsertAt(events, i, Says(kind, Nothing))
          /\ sidecar' = [sidecar EXCEPT !.spare = @ - 1,
                                        !.turn = IF kind = "turn" THEN @ + 1 ELSE @]
    <3>1. Len(events) \in Nat
      BY DEF Typed, EventsT
    <3>2. PICK kind \in {"partial", "final"} \cup (IF Realtime THEN {"turn"} ELSE {}),
               i \in IF Reordered THEN 1..(Len(events) + 1) ELSE {Len(events) + 1} :
            /\ events' = InsertAt(events, i, Says(kind, Nothing))
            /\ sidecar' = [sidecar EXCEPT !.spare = @ - 1,
                                          !.turn = IF kind = "turn" THEN @ + 1 ELSE @]
      BY <1>3 DEF SidecarSpeaks
    <3>3. kind \in {"partial", "final", "turn"} /\ i \in 1..(Len(events) + 1)
      BY <3>1, <3>2
    <3> QED
      BY <3>2, <3>3
  <2>2. Says(kind, Nothing) \in Event
    BY <2>1 DEF Says, Event, Typed, OutsideT
  <2>3. EventsT'
    BY <1>0, <2>1, <2>2, InsertTyped DEF Typed, EventsT
  <2>4. OutsideT'
    <3>1. /\ sidecar.spare - 1 \in Turns
          /\ (IF kind = "turn" THEN sidecar.turn + 1 ELSE sidecar.turn) \in Turns
      BY <1>3, <2>1 DEF SidecarSpeaks, PlaceInv, Turns, Typed, OutsideT, LiveAssumption
    <3>2. sidecar' \in [state : {"up", "done", "dead"}, heard : Nat, turn : Turns, spare : Turns]
      BY <2>1, <3>1 DEF Typed, OutsideT
    <3> QED
      BY <1>0, <1>3, <3>2 DEF SidecarSpeaks, Typed, OutsideT
  <2> QED
    BY <1>0, <1>3, <2>3, <2>4, PartsStay DEF SidecarSpeaks, Typed
<1>4. CASE SidecarTakes
  <2>1. FramesT'
    BY <1>4 DEF SidecarTakes, Typed, FramesT
  <2>2. \A kind \in {"final", "error", "done"}, z \in Finalizes \cup {Nothing} :
           Says(kind, z) \in Event
    BY DEF Says, Event, Typed, OutsideT
  <2>3. EventsT'
    <3>1. \A z \in Finalizes, kind \in {"final", "error"} : Append(events, Says(kind, z)) \in Seq(Event)
      BY <2>2 DEF Typed, EventsT
    <3>2. \A last \in {<<>>, <<Says("final", Nothing)>>} :
             events \o last \o <<Says("done", Nothing)>> \in Seq(Event)
      <4>0. Says("final", Nothing) \in Event /\ Says("done", Nothing) \in Event
        BY <2>2
      <4>1. \A last \in {<<>>, <<Says("final", Nothing)>>} : last \in Seq(Event)
        BY <4>0, ShortTyped
      <4>2. <<Says("done", Nothing)>> \in Seq(Event)
        BY <4>0, ShortTyped
      <4> DEFINE done == <<Says("done", Nothing)>>
      <4>3. \A s, u \in Seq(Event) : events \o s \o u \in Seq(Event)
        BY DEF Typed, EventsT
      <4> QED
        BY <4>1, <4>2, <4>3
    <3>3. events' \in Seq(Event)
      BY <1>4, <3>1, <3>2 DEF SidecarTakes, Typed, EventsT
    <3> QED
      BY <1>0, <3>3 DEF EventsT
  <2>4. OutsideT'
    <3>1. sidecar' \in [state : {"up", "done", "dead"}, heard : Nat, turn : Turns, spare : Turns]
      <4>1. sidecar' \in {[sidecar EXCEPT !.heard = @ + 1], sidecar,
                          [sidecar EXCEPT !.state = "done"]}
        BY <1>4 DEF SidecarTakes
      <4> QED
        BY <4>1 DEF Typed, OutsideT
    <3> QED
      BY <1>0, <1>4, <3>1 DEF SidecarTakes, Typed, OutsideT
  <2> QED
    BY <1>0, <1>4, <2>1, <2>3, <2>4, PartsStay DEF SidecarTakes, Typed
<1>5. CASE SidecarDies
  <2>1. OutsideT'
    <3>1. sidecar' \in [state : {"up", "done", "dead"}, heard : Nat, turn : Turns, spare : Turns]
      BY <1>5 DEF SidecarDies, Typed, OutsideT
    <3> QED
      BY <1>0, <1>5, <3>1 DEF SidecarDies, Typed, OutsideT
  <2>2. EventsT'
    BY <1>0, <1>5, ShortTyped DEF SidecarDies, Typed, EventsT
  <2> QED
    BY <1>0, <1>5, <2>1, <2>2, PartsStay DEF SidecarDies, Typed
<1> QED
  BY <1>1, <1>2, <1>3, <1>4, <1>5 DEF Client, Sidecar

\* Steps of the goroutine that forwards.
LEMMA ReaderTyped ==
    ASSUME LiveAssumption, Typed, PlaceInv, Reader
    PROVE  Typed'
<1> USE DEF outside, session, handler, Ends
<1>0. endpoint' = endpoint
  BY EndpointStays DEF Next
<1>1. CASE ReadFrame
  <2>1. FramesT' /\ Head(up) \in Frame
    BY <1>1 DEF ReadFrame, Typed, FramesT
  <2>2. StatsT'
    <3> DEFINE f == Head(up)
               n == IF f \in Audio THEN stats.frames + 1 ELSE stats.frames
               m == IF Joins /\ f \in Flushes THEN stats.results + 1 ELSE stats.flushAt
               c == IF Joins /\ f \in Flushes THEN f = CloseStream ELSE stats.closeStream
    <3>1. n \in Nat /\ m \in Nat /\ c \in BOOLEAN
      <4>1. n \in Nat /\ m \in Nat
        BY DEF Typed, StatsT
      <4>2. stats.closeStream \in BOOLEAN
        BY DEF Typed, StatsT
      <4>3. c \in BOOLEAN
        BY <4>2, Zenon
      <4> QED
        BY <4>1, <4>3
    <3>2. stats' = [stats EXCEPT !.frames = n, !.flushAt = m, !.closeStream = c]
      <4>1. stats' = Count(f)
        BY <1>1 DEF ReadFrame
      <4> QED
        BY <4>1 DEF Count
    <3> HIDE DEF n, m, c
    <3> QED
      BY <3>1, <3>2 DEF Typed, StatsT
  <2>3. ReaderT'
    BY <1>1, <2>1 DEF ReadFrame, Typed, ReaderT
  <2>4. SessionT'
    BY <1>1 DEF ReadFrame, Typed, SessionT
  <2> QED
    BY <1>0, <1>1, <2>1, <2>2, <2>3, <2>4, PartsStay DEF ReadFrame, Typed
<1>2. CASE ReadFails
  <2>1. ErrT'
    BY <1>2 DEF ReadFails, Typed, ErrT, Causes
  <2>2. ReaderT'
    BY <1>2 DEF ReadFails, Typed, ReaderT
  <2> QED
    BY <1>0, <1>2, <2>1, <2>2, PartsStay DEF ReadFails, Typed
<1>3. CASE Forward
  <2>1. FramesT'
    BY <1>3 DEF Forward, Typed, FramesT, ReaderT, PlaceInv
  <2>2. ReaderT'
    BY <1>3 DEF Forward, ReaderT
  <2> QED
    BY <1>0, <1>3, <2>1, <2>2, PartsStay DEF Forward, Typed
<1>4. CASE ForwardFails
  <2>1. ErrT'
    BY <1>4 DEF ForwardFails, Typed, ErrT, Causes
  <2>2. ReaderT'
    BY <1>4 DEF ForwardFails, ReaderT
  <2> QED
    BY <1>0, <1>4, <2>1, <2>2, PartsStay DEF ForwardFails, Typed
<1>5. CASE Reply
  <2>1. SessionT'
    BY <1>5 DEF Reply, Sent, Typed, SessionT, Response
  <2>2. ReaderT'
    BY <1>5 DEF Reply, ReaderT
  <2> QED
    BY <1>0, <1>5, <2>1, <2>2, PartsStay DEF Reply, Typed
<1> QED
  BY <1>1, <1>2, <1>3, <1>4, <1>5 DEF Reader

\* Steps of the goroutine that translates.
LEMMA WriterTyped ==
    ASSUME LiveAssumption, Typed, PlaceInv, Writer
    PROVE  Typed'
<1> USE DEF outside, session, handler, Ends
<1>0. endpoint' = endpoint /\ Event' = Event
  BY EndpointStays, PartsStay DEF Next
<1>1. ASSUME NEW e \in Event
      PROVE  [kind |-> Kind(e), of |-> e.of, turn |-> e.turn, item |-> item] \in Response
  BY DEF Event, Turns, Kind, Response, Typed, OutsideT, SessionT, LiveAssumption
<1>2. NextItem(writer.holding) \in Nat
  BY DEF NextItem, Typed, SessionT
<1>3. CASE ReadEvent
  <2>1. EventsT' /\ Head(events) \in Event
    BY <1>0, <1>3 DEF ReadEvent, Typed, EventsT
  <2>2. StatsT'
    <3> DEFINE n == IF MarkedEarly(Head(events)) THEN stats.results + 1 ELSE stats.results
    <3>1. n \in Nat /\ stats' = [stats EXCEPT !.results = n]
      BY <1>3 DEF ReadEvent, Typed, StatsT
    <3> HIDE DEF n
    <3> QED
      BY <3>1 DEF Typed, StatsT
  <2>3. WriterT'
    BY <1>0, <1>3, <2>1 DEF ReadEvent, Typed, WriterT
  <2> QED
    BY <1>0, <1>3, <2>1, <2>2, <2>3, PartsStay DEF ReadEvent, Typed
<1>4. CASE ReadEventFails
  <2>1. ErrT'
    BY <1>4 DEF ReadEventFails, Typed, ErrT, Causes
  <2>2. WriterT'
    BY <1>0, <1>4 DEF ReadEventFails, Typed, WriterT
  <2> QED
    BY <1>0, <1>4, <2>1, <2>2, PartsStay DEF ReadEventFails, Typed
<1>5. CASE WriteResult
  <2>1. SessionT'
    BY <1>1, <1>2, <1>5 DEF WriteResult, Sent, Typed, SessionT, PlaceInv
  <2>2. WriterT'
    BY <1>0, <1>5 DEF WriteResult, Typed, WriterT
  <2> QED
    BY <1>0, <1>5, <2>1, <2>2, PartsStay DEF WriteResult, Typed
<1>6. CASE WriteFails
  <2>1. ErrT'
    BY <1>6 DEF WriteFails, Typed, ErrT, Causes
  <2>2. SessionT'
    BY <1>2, <1>6 DEF WriteFails, Typed, SessionT
  <2>3. WriterT'
    BY <1>0, <1>6 DEF WriteFails, WriterT
  <2> QED
    BY <1>0, <1>6, <2>1, <2>2, <2>3, PartsStay DEF WriteFails, Typed
<1>7. CASE markResult
  <2>1. StatsT'
    BY <1>7 DEF markResult, Typed, StatsT
  <2>2. WriterT'
    BY <1>0, <1>7 DEF markResult, WriterT
  <2> QED
    BY <1>0, <1>7, <2>1, <2>2, PartsStay DEF markResult, Typed
<1>8. CASE LastWrite
  <2>1. SessionT'
    BY <1>1, <1>8 DEF LastWrite, Sent, Typed, SessionT, PlaceInv
  <2>2. ErrT'
    BY <1>8 DEF LastWrite, Typed, ErrT, Causes
  <2>3. WriterT'
    BY <1>0, <1>8 DEF LastWrite, WriterT
  <2> QED
    BY <1>0, <1>8, <2>1, <2>2, <2>3, PartsStay DEF LastWrite, Typed
<1> QED
  BY <1>3, <1>4, <1>5, <1>6, <1>7, <1>8 DEF Writer

\* Steps of the handler; it may log one frame less than are counted when one is held.
LEMMA HandlerTyped ==
    ASSUME LiveAssumption, Typed, PlaceInv, Handler
    PROVE  Typed'
<1> USE DEF outside, session, other
<1>0. endpoint' = endpoint
  BY EndpointStays DEF Next
<1>1. CASE Dial
  <2>1. ReaderT' /\ MainT'
    BY <1>1 DEF Dial, Typed, ReaderT, MainT
  <2>2. WriterT'
    BY <1>0, <1>1, PartsStay DEF Dial, Typed, WriterT
  <2> QED
    BY <1>0, <1>1, <2>1, <2>2, PartsStay DEF Dial, Typed
<1>2. CASE EndBegins
  <2>1. ErrT' /\ Head(errCh) \in Causes
    BY <1>2 DEF EndBegins, Typed, ErrT
  <2>2. MainT'
    BY <1>2, <2>1 DEF EndBegins, Typed, MainT
  <2> QED
    BY <1>0, <1>2, <2>1, <2>2, PartsStay DEF EndBegins, Typed
<1>3. CASE CheckFlush \/ waitForFlushResult \/ TearDown \/ Return
  <2>1. MainT'
    <3>1. CASE CheckFlush
      BY <3>1 DEF CheckFlush, Typed, MainT, StatsT
    <3>2. CASE waitForFlushResult
      BY <3>2 DEF waitForFlushResult, Typed, MainT
    <3>3. CASE TearDown \/ Return
      BY <3>3 DEF TearDown, Return, Typed, MainT
    <3> QED
      BY <1>3, <3>1, <3>2, <3>3
  <2>2. UNCHANGED <<other, errCh, logged>>
    BY <1>3 DEF CheckFlush, waitForFlushResult, TearDown, Return
  <2> QED
    BY <1>0, <2>1, <2>2, PartsStay DEF Typed
<1>4. CASE Join \/ Meter
  <2>1. MainT'
    BY <1>4 DEF Join, Meter, Typed, MainT
  <2>2. LoggedT'
    BY <1>4 DEF Join, Meter, Typed, LoggedT, StatsT, PlaceInv
  <2>3. UNCHANGED <<other, errCh>>
    BY <1>4 DEF Join, Meter
  <2> QED
    BY <1>0, <2>1, <2>2, <2>3, PartsStay DEF Typed
<1> QED
  BY <1>1, <1>2, <1>3, <1>4 DEF Handler

-----------------------------------------------------------------------------
(* The ends of a session                                                    *)

\* What the environment does leaves the program alone, but for what is in the
\* channels between them.
LEMMA OutsideLeaves ==
    ASSUME Client \/ Sidecar
    PROVE  UNCHANGED <<endpoint, reader, writer, main, errCh, stats, logged, received, item>>
BY DEF Client, Sidecar, ClientSends, ClientLeaves, SidecarSpeaks, SidecarTakes, SidecarDies,
   handler, session

\* Each goroutine reports its end when it exits, and only then.
LEMMA ReaderMoves ==
    ASSUME LiveAssumption, Typed, PlaceInv, Reader
    PROVE  /\ UNCHANGED <<endpoint, writer, main, logged, item, sidecar, client, unsent, events>>
           /\ reader.pc \in {"reading", "replying", "forwarding"}
           /\ \/ reader'.pc # "exited" /\ reader'.pc # "idle" /\ errCh' = errCh
              \/ reader'.pc = "exited" /\ \E c \in Causes : errCh' = Append(errCh, c)
           /\ reader'.pc \in {"forwarding", "replying"} <=> reader'.holding # Nothing
<1> USE DEF outside, session, handler, Ends
<1>0. /\ reader.pc \in {"forwarding", "replying"} <=> reader.holding # Nothing
      /\ {"client_read", "forward"} \subseteq Causes
  BY DEF PlaceInv, Causes
<1>1. CASE ReadFrame
  <2>1. Head(up) \in Frame /\ Nothing \notin Frame
    BY <1>1 DEF ReadFrame, Typed, FramesT, Frame, Flushes, LiveAssumption
  <2> QED
    BY <1>0, <1>1, <2>1 DEF ReadFrame
<1>2. CASE ReadFails
  BY <1>0, <1>2 DEF ReadFails, Typed, ReaderT
<1>3. CASE Forward
  BY <1>0, <1>3 DEF Forward
<1>4. CASE ForwardFails
  BY <1>0, <1>4 DEF ForwardFails
<1>5. CASE Reply
  BY <1>0, <1>5 DEF Reply
<1> QED
  BY <1>1, <1>2, <1>3, <1>4, <1>5 DEF Reader

LEMMA WriterMoves ==
    ASSUME Typed, PlaceInv, Writer
    PROVE  /\ UNCHANGED <<endpoint, reader, main, logged, sidecar, client, unsent, up, toSidecar>>
           /\ writer.pc \in {"reading", "writing", "marking"}
           /\ \/ writer'.pc # "exited" /\ writer'.pc # "idle" /\ errCh' = errCh
              \/ writer'.pc = "exited" /\ \E c \in Causes : errCh' = Append(errCh, c)
           /\ writer'.pc \in {"writing", "marking"} => writer'.holding \in Event
<1> USE DEF outside, session, handler, Ends
<1>0. {"sidecar_read", "client_write", "sidecar_error", "sidecar_done"} \subseteq Causes
  BY DEF Causes
<1>1. CASE ReadEvent
  <2>1. Head(events) \in Event
    BY <1>1 DEF ReadEvent, Typed, EventsT
  <2> QED
    BY <1>0, <1>1, <2>1 DEF ReadEvent
<1>2. CASE ReadEventFails
  BY <1>0, <1>2 DEF ReadEventFails, Typed, WriterT
<1>3. CASE WriteResult
  BY <1>0, <1>3 DEF WriteResult, Typed, WriterT, PlaceInv
<1>4. CASE WriteFails
  BY <1>0, <1>4 DEF WriteFails
<1>5. CASE markResult
  BY <1>0, <1>5 DEF markResult
<1>6. CASE LastWrite
  BY <1>0, <1>6 DEF LastWrite
<1> QED
  BY <1>1, <1>2, <1>3, <1>4, <1>5, <1>6 DEF Writer

\* The handler starts both, takes one report, and goes on from one stage to the next.
Stages ==
    \/ /\ main.pc = "dialing" /\ errCh' = errCh /\ UNCHANGED logged
       /\ \/ /\ main'.pc = "serving" /\ reader'.pc = "reading" /\ writer'.pc = "reading"
             /\ reader'.holding = reader.holding /\ writer'.holding = writer.holding
          \/ main'.pc = "refused" /\ UNCHANGED <<reader, writer>>
    \/ /\ main.pc = "serving" /\ errCh # <<>> /\ errCh' = Tail(errCh) /\ UNCHANGED logged
       /\ UNCHANGED <<reader, writer>>
       /\ main'.pc = IF Grace THEN "ending" ELSE IF Joins THEN "closing" ELSE "metering"
    \/ /\ main.pc = "ending" /\ errCh' = errCh /\ UNCHANGED <<reader, writer, logged>>
       /\ \/ main'.pc = "waiting" /\ flushPending /\ main'.flushAt = stats.flushAt
          \/ main'.pc = "closing" /\ ~flushPending
    \/ /\ main.pc = "waiting" /\ errCh' = errCh /\ UNCHANGED <<reader, writer, logged>>
       /\ main'.pc = "closing"
       /\ main'.expired \/ writer.pc = "exited" \/ resultAtOrAfter(main.flushAt)
    \/ /\ main.pc = "closing" /\ errCh' = errCh /\ UNCHANGED <<reader, writer, logged>>
       /\ main'.pc = "joining" /\ main'.expired = main.expired
    \/ /\ main.pc = "joining" /\ errCh' = errCh /\ UNCHANGED <<reader, writer>>
       /\ main'.pc = "returned" /\ main'.expired = main.expired /\ logged' = stats.frames
       /\ reader.pc = "exited" /\ writer.pc = "exited"
    \/ /\ main.pc = "metering" /\ errCh' = errCh /\ UNCHANGED <<reader, writer>>
       /\ main'.pc = "returning"
    \/ /\ main.pc = "returning" /\ errCh' = errCh /\ UNCHANGED <<reader, writer, logged>>
       /\ main'.pc = "returned" /\ main'.expired = main.expired

LEMMA HandlerMoves ==
    ASSUME Typed, Handler
    PROVE  /\ UNCHANGED <<endpoint, sidecar, client, unsent, up, toSidecar, events, stats,
                          received, item>>
           /\ Stages
<1> USE DEF outside, session, other, Stages, Typed, MainT
<1>1. CASE Dial
  BY <1>1 DEF Dial, ReaderT, WriterT
<1>2. CASE EndBegins
  BY <1>2 DEF EndBegins
<1>3. CASE CheckFlush
  BY <1>3 DEF CheckFlush
<1>4. CASE waitForFlushResult
  BY <1>4 DEF waitForFlushResult
<1>5. CASE TearDown \/ Return
  BY <1>5 DEF TearDown, Return
<1>6. CASE Join
  BY <1>6 DEF Join
<1>7. CASE Meter
  BY <1>7 DEF Meter
<1> QED
  BY <1>1, <1>2, <1>3, <1>4, <1>5, <1>6, <1>7 DEF Handler

\* No end is reported twice, and none that did not come.
LEMMA ErrKept ==
    ASSUME LiveAssumption, Typed, PlaceInv, ErrInv, Next
    PROVE  ErrInv'
<1> USE DEF ErrInv, Over, Exited
<1>0. Len(errCh) \in Nat /\ errCh \in Seq(Causes)
  BY DEF Typed, ErrT
<1>1. CASE Client \/ Sidecar
  BY <1>1, OutsideLeaves
<1>2. CASE Reader
  <2>1. \A c \in Causes : Len(Append(errCh, c)) = Len(errCh) + 1
    BY <1>0
  <2> QED
    BY <1>0, <1>2, <2>1, ReaderMoves
<1>3. CASE Writer
  <2>1. \A c \in Causes : Len(Append(errCh, c)) = Len(errCh) + 1
    BY <1>0
  <2> QED
    BY <1>0, <1>3, <2>1, WriterMoves
<1>4. CASE Handler
  <2>1. errCh # <<>> => Len(Tail(errCh)) = Len(errCh) - 1
    BY <1>0
  <2>2. main.pc = "dialing" => reader.pc = "idle" /\ writer.pc = "idle"
    BY DEF PlaceInv
  <2> QED
    BY <1>0, <1>4, <2>1, <2>2, HandlerMoves DEF Stages
<1> QED
  BY <1>1, <1>2, <1>3, <1>4 DEF Next

\* So when the handler goes on, or has something to go on for, a goroutine is gone.
LEMMA SomeoneExited ==
    ASSUME Typed, ErrInv, Over \/ errCh # <<>>
    PROVE  reader.pc = "exited" \/ writer.pc = "exited"
<1>1. Len(errCh) \in Nat /\ (errCh # <<>> => Len(errCh) > 0)
  BY DEF Typed, ErrT
<1> QED
  BY <1>1 DEF ErrInv, Exited

\* The program counters.
LEMMA PlaceKept ==
    ASSUME LiveAssumption, Typed, PlaceInv, Next
    PROVE  PlaceInv'
<1>0. endpoint' = endpoint /\ Event' = Event
  BY EndpointStays, PartsStay
<1>1. CASE Client \/ Sidecar
  <2>1. sidecar'.turn + sidecar'.spare <= MaxEvents[endpoint]
    <3>1. sidecar.turn \in Nat /\ sidecar.spare \in Nat /\ MaxEvents[endpoint] \in Nat
      BY DEF Typed, OutsideT, Turns, LiveAssumption
    <3>2. CASE SidecarSpeaks
      <4>1. \E kind : sidecar' = [sidecar EXCEPT !.spare = @ - 1,
                                                 !.turn = IF kind = "turn" THEN @ + 1 ELSE @]
        BY <3>2 DEF SidecarSpeaks
      <4> QED
        BY <3>1, <3>2, <4>1 DEF SidecarSpeaks, Typed, OutsideT, PlaceInv
    <3>3. CASE Client
      BY <3>1, <3>3 DEF Client, ClientSends, ClientLeaves, PlaceInv
    <3>4. CASE SidecarTakes
      <4>1. sidecar' \in {[sidecar EXCEPT !.heard = @ + 1], sidecar,
                          [sidecar EXCEPT !.state = "done"]}
        BY <3>4 DEF SidecarTakes
      <4> QED
        BY <3>1, <4>1 DEF Typed, OutsideT, PlaceInv
    <3>5. CASE SidecarDies
      BY <3>1, <3>5 DEF SidecarDies, Typed, OutsideT, PlaceInv
    <3> QED
      BY <1>1, <3>2, <3>3, <3>4, <3>5 DEF Sidecar
  <2> QED
    BY <1>0, <1>1, <2>1, OutsideLeaves DEF PlaceInv, Joins
<1>2. CASE Reader
  <2>1. reader'.holding \in Audio => stats'.frames > 0
    <3>1. stats.frames \in Nat
      BY DEF Typed, StatsT
    <3>2. CASE ReadFrame
      <4>1. stats'.frames = IF Head(up) \in Audio THEN stats.frames + 1 ELSE stats.frames
        <5>1. stats' = Count(Head(up))
          BY <3>2 DEF ReadFrame
        <5> QED
          BY <5>1 DEF Count, Typed, StatsT
      <4>2. reader' = reader \/ reader'.holding = Head(up)
        BY <3>2 DEF ReadFrame
      <4> QED
        BY <3>1, <4>1, <4>2 DEF PlaceInv
    <3>3. CASE ReadFails
      BY <3>3 DEF ReadFails, Typed, ReaderT, PlaceInv
    <3>4. CASE Forward \/ ForwardFails \/ Reply
      BY <3>4 DEF Forward, ForwardFails, Reply, LiveAssumption
    <3> QED
      BY <1>2, <3>2, <3>3, <3>4 DEF Reader
  <2> QED
    BY <1>0, <1>2, <2>1, ReaderMoves DEF PlaceInv, Joins
<1>3. CASE Writer
  <2>1. stats'.frames = stats.frames
    BY <1>3 DEF Writer, ReadEvent, ReadEventFails, WriteResult, WriteFails, markResult, LastWrite,
       Typed, StatsT
  <2> QED
    BY <1>0, <1>3, <2>1, WriterMoves DEF PlaceInv, Joins
<1>4. CASE Handler
  BY <1>0, <1>4, HandlerMoves DEF PlaceInv, Stages, Joins, Grace
<1> QED
  BY <1>1, <1>2, <1>3, <1>4 DEF Next

-----------------------------------------------------------------------------
(* What is logged, and flushes                                              *)

\* A usage record is written when no goroutine can count any more.
LEMMA UsageKept ==
    ASSUME LiveAssumption, Typed, PlaceInv, UsageInv, Next
    PROVE  UsageInv'
<1> USE DEF UsageInv
<1>0. endpoint' = endpoint
  BY EndpointStays
<1>1. CASE Client \/ Sidecar
  BY <1>1, OutsideLeaves DEF Joins
<1>2. CASE Reader
  BY <1>2, ReaderMoves DEF Joins
<1>3. CASE Writer
  BY <1>3, WriterMoves DEF Joins
<1>4. CASE Handler
  BY <1>0, <1>4, HandlerMoves DEF Stages, Joins, PlaceInv, Grace
<1> QED
  BY <1>1, <1>2, <1>3, <1>4 DEF Next

\* No frame is read once one of the goroutines has ended the session, if the other
\* is to deliver what is pending.
LEMMA FlushKept ==
    ASSUME LiveAssumption, Typed, ErrInv, PlaceInv, FlushInv, Next
    PROVE  FlushInv'
<1> USE DEF FlushInv, flushPending, Grace
<1>0. endpoint' = endpoint /\ stats.results \in Nat /\ stats.flushAt \in Nat
  BY EndpointStays DEF Typed, StatsT
<1>1. CASE Client \/ Sidecar
  BY <1>1, OutsideLeaves
<1>2. CASE Reader
  <2>1. ~Over \/ writer.pc = "exited"
    BY <1>2, SomeoneExited, ReaderMoves
  <2> QED
    BY <1>2, <2>1, ReaderMoves DEF Over
<1>3. CASE Writer
  <2>1. stats'.flushAt = stats.flushAt /\ stats'.results >= stats.results /\ stats'.results \in Nat
    <3>1. CASE ReadEvent
      BY <1>0, <3>1 DEF ReadEvent, Typed, StatsT
    <3>2. CASE markResult
      BY <1>0, <3>2 DEF markResult, Typed, StatsT
    <3>3. CASE ~(ReadEvent \/ markResult)
      BY <1>0, <1>3, <3>3 DEF Writer, ReadEventFails, WriteResult, WriteFails, LastWrite
    <3> QED
      BY <3>1, <3>2, <3>3
  <2>2. writer.pc # "exited" /\ main' = main
    BY <1>3, WriterMoves
  <2> QED
    BY <1>0, <2>1, <2>2
<1>4. CASE Handler
  <2>1. Stages /\ stats' = stats
    BY <1>4, HandlerMoves
  <2>2. resultAtOrAfter(main.flushAt) /\ main.flushAt = stats.flushAt => ~flushPending
    BY <1>0 DEF resultAtOrAfter
  <2>3. CASE main.pc \in {"waiting", "closing"}
    BY <1>0, <2>1, <2>2, <2>3 DEF Stages
  <2>4. CASE main.pc \notin {"waiting", "closing"}
    BY <1>0, <2>1, <2>4 DEF Stages, Joins, PlaceInv
  <2> QED
    BY <2>3, <2>4
<1> QED
  BY <1>1, <1>2, <1>3, <1>4 DEF Next

-----------------------------------------------------------------------------
(* The way of CloseStream, and its answer                                   *)

\* What a frame sent or a frame taken does to a channel.
LEMMA ChannelSteps ==
    ASSUME NEW S, NEW s \in Seq(S)
    PROVE  /\ Len(s) \in Nat
           /\ \A e \in S : /\ Len(Append(s, e)) = Len(s) + 1 /\ Append(s, e)[Len(s) + 1] = e
                           /\ \A i \in 1..Len(s) : Append(s, e)[i] = s[i]
           /\ s # <<>> => /\ Len(Tail(s)) = Len(s) - 1 /\ Head(s) = s[1] /\ Len(s) >= 1
                          /\ \A i \in 1..(Len(s) - 1) : Tail(s)[i] = s[i + 1]
           /\ Len(s) = 0 <=> s = <<>>
OBVIOUS

\* CloseStream is at one place, and at the end as long as it is the last frame.
LEMMA PassageKept ==
    ASSUME LiveAssumption, Typed, PlaceInv, PassageInv, Next
    PROVE  PassageInv'
<1> USE DEF outside, session, handler
<1>0. /\ endpoint' = endpoint /\ up \in Seq(Frame) /\ toSidecar \in Seq(Frame)
      /\ unsent \subseteq Frame /\ Nothing # CloseStream /\ Nothing \notin Frame
  BY EndpointStays DEF Typed, OutsideT, FramesT, LiveAssumption, Frame, Flushes
<1>00. /\ Len(up) \in Nat /\ Len(toSidecar) \in Nat
       /\ (Len(up) = 0 <=> up = <<>>) /\ (Len(toSidecar) = 0 <=> toSidecar = <<>>)
  BY <1>0, ChannelSteps
<1>1. CASE ClientSends
  <2>1. PICK f \in unsent : /\ unsent' = unsent \ {f} /\ up' = Append(up, f)
                            /\ client' = [client EXCEPT !.closed = (f = CloseStream)]
    BY <1>1 DEF ClientSends
  <2>2. /\ Len(up') = Len(up) + 1 /\ up'[Len(up) + 1] = f
        /\ \A i \in 1..Len(up) : up'[i] = up[i]
    BY <1>0, <2>1, ChannelSteps
  <2>3. /\ client'.closed = (f = CloseStream)
        /\ UNCHANGED <<reader, toSidecar, sidecar, stats>>
    BY <1>1, <2>1 DEF ClientSends, Typed, OutsideT
  <2>4. CASE f = CloseStream
    <3>1. /\ None(up) /\ None(toSidecar) /\ reader.holding # CloseStream
          /\ sidecar.state # "done" /\ CloseStream \notin unsent'
      BY <2>1, <2>4 DEF PassageInv, Fresh, NotOnItsWay, OnePlace, Behind
    <3>2. \A i \in 1..Len(up') : up'[i] = CloseStream <=> i = Len(up')
      BY <1>00, <2>2, <2>4, <3>1 DEF None
    <3>3. ~None(up)'
      BY <1>00, <2>2, <3>2 DEF None
    <3>4. None(toSidecar)'
      BY <2>3, <3>1 DEF None
    <3>5. \A i \in 1..Len(toSidecar') : toSidecar'[i] # CloseStream
      BY <3>4 DEF None
    <3>6. reader' = reader /\ sidecar' = sidecar
      BY <2>3
    <3>7. Fresh'
      BY <3>1, <3>6 DEF Fresh
    <3>8. OnePlace'
      <4>1. \A i, j \in 1..Len(up') : up'[i] = CloseStream /\ up'[j] = CloseStream => j = i
        BY <3>2
      <4>2. reader'.holding # CloseStream
        BY <3>1, <3>6
      <4> QED
        BY <3>4, <3>5, <4>1, <4>2 DEF OnePlace
    <3>9. Behind'
      <4>1. \A i \in 1..Len(up') : up'[i] = CloseStream => i = Len(up')
        BY <3>2
      <4>2. reader'.holding # CloseStream /\ sidecar'.state # "done"
        BY <3>1, <3>6
      <4> QED
        BY <3>3, <3>5, <4>1, <4>2 DEF Behind
    <3> QED
      BY <3>7, <3>8, <3>9 DEF PassageInv
  <2>5. CASE f # CloseStream
    <3>1. \A i \in 1..Len(up') : up'[i] = CloseStream => i \in 1..Len(up) /\ up[i] = CloseStream
      BY <1>00, <2>2, <2>5
    <3>2. None(up) => None(up)'
      BY <3>1 DEF None
    <3>3. /\ None(toSidecar) => None(toSidecar)'
          /\ reader'.holding = reader.holding /\ sidecar'.state = sidecar.state
          /\ CloseStream \in unsent' => CloseStream \in unsent
      BY <2>1, <2>3 DEF None
    <3>4. Fresh'
      BY <2>1, <2>3, <2>5, <3>2, <3>3 DEF PassageInv, Fresh, NotOnItsWay
    <3>5. \A i \in 1..Len(up') : up'[i] = CloseStream =>
             /\ reader.holding # CloseStream /\ None(toSidecar)
             /\ \A j \in 1..Len(up') : up'[j] = CloseStream => j = i
      BY <3>1 DEF PassageInv, OnePlace
    <3>6. reader.holding = CloseStream => None(toSidecar)
      BY DEF PassageInv, OnePlace
    <3>7. \A i, j \in 1..Len(toSidecar') :
             toSidecar'[i] = CloseStream /\ toSidecar'[j] = CloseStream => i = j
      BY <2>3 DEF PassageInv, OnePlace
    <3>8. OnePlace'
      BY <3>3, <3>5, <3>6, <3>7 DEF OnePlace
    <3> QED
      BY <2>3, <2>5, <3>4, <3>8 DEF PassageInv
  <2> QED
    BY <2>4, <2>5
<1>2. CASE UNCHANGED <<unsent, up, toSidecar>> /\ client'.closed = client.closed
           /\ reader'.holding = reader.holding
           /\ (sidecar'.state = "done" => sidecar.state = "done")
           /\ stats'.closeStream = stats.closeStream
  BY <1>0, <1>2 DEF PassageInv, Fresh, NotOnItsWay, OnePlace, Behind, None, Joins
<1>3. CASE ClientLeaves \/ SidecarSpeaks \/ SidecarDies
  <2>1. UNCHANGED <<unsent, up, toSidecar, reader, stats>>
    BY <1>3 DEF ClientLeaves, SidecarSpeaks, SidecarDies
  <2>2. client'.closed = client.closed
    BY <1>3 DEF ClientLeaves, SidecarSpeaks, SidecarDies, Typed, OutsideT
  <2>3. sidecar'.state = "done" => sidecar.state = "done"
    BY <1>3 DEF ClientLeaves, SidecarSpeaks, SidecarDies, Typed, OutsideT
  <2> QED
    BY <1>2, <2>1, <2>2, <2>3
<1>4. CASE SidecarTakes
  <2>1. /\ Len(toSidecar') = Len(toSidecar) - 1 /\ Len(toSidecar) >= 1
        /\ \A i \in 1..(Len(toSidecar) - 1) : toSidecar'[i] = toSidecar[i + 1]
    BY <1>0, <1>4, ChannelSteps DEF SidecarTakes
  <2>2. /\ UNCHANGED <<client, unsent, up, reader, stats>> /\ sidecar.state = "up"
        /\ toSidecar' \in Seq(Frame)
        /\ \/ sidecar'.state = "up"
           \/ toSidecar[1] = CloseStream /\ sidecar'.state = "done"
    BY <1>0, <1>4, ChannelSteps DEF SidecarTakes, Typed, OutsideT
  <2>3. Len(toSidecar') = 0 => toSidecar' = <<>>
    BY <2>2, ChannelSteps
  <2> HIDE DEF outside, session, handler
  <2>4. CASE sidecar'.state = "up"
    <3>1. None(toSidecar) => None(toSidecar)'
      <4>1. \A i \in 1..Len(toSidecar') : i \in 1..(Len(toSidecar) - 1) /\ i + 1 \in 1..Len(toSidecar)
        BY <1>00, <2>1
      <4> QED
        BY <2>1, <4>1 DEF None
    <3>2. \A i, j \in 1..Len(toSidecar') : toSidecar'[i] = CloseStream /\ toSidecar'[j] = CloseStream => i = j
      <4> TAKE i, j \in 1..Len(toSidecar')
      <4>1. i + 1 \in 1..Len(toSidecar) /\ j + 1 \in 1..Len(toSidecar)
        BY <1>00, <2>1
      <4>2. toSidecar[i + 1] = CloseStream /\ toSidecar[j + 1] = CloseStream => i + 1 = j + 1
        BY <4>1 DEF PassageInv, Fresh, NotOnItsWay, OnePlace, Behind
      <4> QED
        BY <1>00, <2>1, <4>1, <4>2
    <3>3. client.closed => \A i \in 1..Len(toSidecar') : toSidecar'[i] = CloseStream =>
             i = Len(toSidecar') /\ reader.holding = Nothing /\ up = <<>>
      <4> HAVE client.closed
      <4> TAKE i \in 1..Len(toSidecar')
      <4> HAVE toSidecar'[i] = CloseStream
      <4>1. i + 1 \in 1..Len(toSidecar) /\ toSidecar[i + 1] = CloseStream
        BY <1>00, <2>1
      <4>2. i + 1 = Len(toSidecar) /\ reader.holding = Nothing /\ up = <<>>
        BY <4>1 DEF PassageInv, Fresh, NotOnItsWay, OnePlace, Behind
      <4> QED
        BY <1>00, <2>1, <4>2
    <3>4. None(up)' <=> None(up)
      BY <2>2 DEF None
    <3> QED
      BY <1>0, <2>2, <2>4, <3>1, <3>2, <3>3, <3>4 DEF PassageInv, Fresh, NotOnItsWay, OnePlace, Behind, Joins
  <2>5. CASE toSidecar[1] = CloseStream
    <3>1. /\ CloseStream \notin unsent /\ None(up) /\ reader.holding # CloseStream
          /\ \A i \in 1..Len(toSidecar) : toSidecar[i] = CloseStream => i = 1
      BY <1>00, <2>1, <2>5 DEF PassageInv, Fresh, NotOnItsWay, OnePlace, Behind, None
    <3>2. None(toSidecar)'
      BY <1>00, <2>1, <3>1 DEF None
    <3>3. client.closed => toSidecar' = <<>> /\ reader.holding = Nothing /\ up = <<>>
      BY <1>00, <2>1, <2>3, <2>5 DEF PassageInv, Fresh, NotOnItsWay, OnePlace, Behind
    <3>4. client.closed => (Joins /\ None(up) => stats.closeStream)
      BY DEF PassageInv, Fresh, NotOnItsWay, OnePlace, Behind
    <3> QED
      BY <1>0, <1>00, <2>2, <3>1, <3>2, <3>3, <3>4 DEF PassageInv, Fresh, NotOnItsWay, OnePlace, Behind, None, Joins
  <2> QED
    BY <2>2, <2>4, <2>5
<1>5. CASE ReadFrame
  <2>1. /\ Len(up') = Len(up) - 1 /\ Len(up) >= 1 /\ Head(up) = up[1]
        /\ \A i \in 1..(Len(up) - 1) : up'[i] = up[i + 1]
        /\ (Len(up') = 0 => up' = <<>>)
    <3>1. up' \in Seq(Frame)
      BY <1>0, <1>5 DEF ReadFrame
    <3> QED
      BY <1>0, <1>5, <3>1, ChannelSteps DEF ReadFrame
  <2>2. /\ UNCHANGED <<client, unsent, sidecar, toSidecar>> /\ reader.holding = Nothing
        /\ reader'.holding \in {Nothing, up[1]}
        /\ up[1] # CloseStream => reader'.holding # CloseStream
    BY <1>0, <1>5, <2>1 DEF ReadFrame, PlaceInv
  <2>3. up[1] = CloseStream /\ Joins => stats'.closeStream
    <3>1. stats' = Count(up[1])
      BY <1>5, <2>1 DEF ReadFrame
    <3> QED
      BY <3>1 DEF Count, Typed, StatsT, Flushes
  <2> HIDE DEF outside, session, handler
  <2>4. CASE up[1] = CloseStream
    <3>1. /\ None(toSidecar) /\ CloseStream \notin unsent /\ sidecar.state # "done"
          /\ \A i \in 1..Len(up) : up[i] = CloseStream => i = 1
          /\ client.closed => Len(up) = 1
      BY <1>00, <2>1, <2>4 DEF PassageInv, Fresh, NotOnItsWay, OnePlace, Behind, None
    <3>2. None(up)' /\ (client.closed => up' = <<>>)
      BY <1>00, <2>1, <3>1 DEF None
    <3> QED
      BY <1>0, <1>00, <2>2, <2>3, <2>4, <3>1, <3>2 DEF PassageInv, Fresh, NotOnItsWay, OnePlace, Behind, None, Joins
  <2>5. CASE up[1] # CloseStream
    <3>1. client.closed => ~None(up) /\ up # <<>>
      BY <1>00, <2>1 DEF PassageInv, Fresh, NotOnItsWay, OnePlace, Behind
    <3>2. None(up)' => None(up)
      <4>1. ASSUME None(up)', NEW i \in 1..Len(up)
            PROVE  up[i] # CloseStream
        <5>1. i = 1 \/ (i - 1 \in 1..(Len(up) - 1) /\ up'[i - 1] = up[(i - 1) + 1])
          BY <1>00, <2>1
        <5> QED
          BY <1>00, <2>1, <2>5, <4>1, <5>1 DEF None
      <4> QED
        BY <4>1 DEF None
    <3>3. \A i \in 1..Len(up') : up'[i] = CloseStream =>
             /\ None(toSidecar) /\ CloseStream \notin unsent /\ sidecar.state # "done"
             /\ \A j \in 1..Len(up') : up'[j] = CloseStream => j = i
             /\ client.closed => i = Len(up')
      <4> TAKE i \in 1..Len(up')
      <4> HAVE up'[i] = CloseStream
      <4>1. i + 1 \in 1..Len(up) /\ up[i + 1] = CloseStream
        BY <1>00, <2>1
      <4>2. /\ None(toSidecar) /\ CloseStream \notin unsent /\ sidecar.state # "done"
            /\ \A j \in 1..Len(up) : up[j] = CloseStream => j = i + 1
            /\ client.closed => i + 1 = Len(up)
        BY <4>1 DEF PassageInv, Fresh, NotOnItsWay, OnePlace, Behind, None
      <4> QED
        BY <1>00, <2>1, <4>2
    <3>4. /\ CloseStream \in unsent => ~client.closed /\ None(up)' /\ None(toSidecar)
          /\ sidecar.state = "done" => CloseStream \notin unsent /\ None(up)' /\ None(toSidecar)
      BY <1>00, <2>1, <3>3 DEF PassageInv, Fresh, NotOnItsWay, OnePlace, Behind, None
    <3>5. \A i, j \in 1..Len(toSidecar) : toSidecar[i] = CloseStream /\ toSidecar[j] = CloseStream => i = j
      BY DEF PassageInv, Fresh, NotOnItsWay, OnePlace, Behind
    <3>6. client.closed => None(toSidecar) /\ sidecar.state # "done"
      BY <3>1 DEF PassageInv, Fresh, NotOnItsWay, OnePlace, Behind, None
    <3> QED
      BY <1>0, <2>2, <2>5, <3>1, <3>2, <3>3, <3>4, <3>5, <3>6 DEF PassageInv, Fresh, NotOnItsWay, OnePlace, Behind, None
  <2> QED
    BY <2>4, <2>5
<1>6. CASE Forward
  <2>1. /\ Len(toSidecar') = Len(toSidecar) + 1 /\ toSidecar'[Len(toSidecar) + 1] = reader.holding
        /\ \A i \in 1..Len(toSidecar) : toSidecar'[i] = toSidecar[i]
    <3>1. reader.holding \in Frame
      BY <1>6 DEF Forward, PlaceInv, Typed, ReaderT
    <3> QED
      BY <1>0, <1>6, <3>1, ChannelSteps DEF Forward
  <2>2. /\ UNCHANGED <<client, unsent, sidecar, up, stats>>
        /\ reader'.holding = Nothing /\ reader.holding # Nothing
    BY <1>6 DEF Forward, PlaceInv
  <2> HIDE DEF outside, session, handler
  <2>3. CASE reader.holding = CloseStream
    <3>1. /\ None(toSidecar) /\ None(up) /\ CloseStream \notin unsent /\ sidecar.state # "done"
          /\ client.closed => up = <<>>
      BY <2>3 DEF PassageInv, Fresh, NotOnItsWay, OnePlace, Behind, None
    <3>2. \A i \in 1..Len(toSidecar') : toSidecar'[i] = CloseStream => i = Len(toSidecar')
      BY <1>00, <2>1, <3>1 DEF None
    <3> QED
      BY <1>0, <1>00, <2>2, <2>1, <3>1, <3>2 DEF PassageInv, Fresh, NotOnItsWay, OnePlace, Behind, None, Joins
  <2>4. CASE reader.holding # CloseStream
    <3>1. \A i \in 1..Len(toSidecar') : toSidecar'[i] = CloseStream =>
             i \in 1..Len(toSidecar) /\ toSidecar[i] = CloseStream
      BY <1>00, <2>1, <2>4
    <3>2. None(toSidecar) => None(toSidecar)'
      BY <3>1 DEF None
    <3>3. client.closed => None(toSidecar) /\ sidecar.state # "done"
      BY <2>2 DEF PassageInv, Fresh, NotOnItsWay, OnePlace, Behind, None
    <3> QED
      BY <1>0, <1>00, <2>2, <2>4, <3>1, <3>2, <3>3 DEF PassageInv, Fresh, NotOnItsWay, OnePlace, Behind, None, Joins
  <2> QED
    BY <2>3, <2>4
<1>7. CASE ReadFails
  <2>1. reader'.holding = reader.holding
    BY <1>7 DEF ReadFails, Typed, ReaderT
  <2> QED
    BY <1>2, <1>7, <2>1 DEF ReadFails
<1>8. CASE ForwardFails \/ Reply
  <2>1. UNCHANGED <<client, unsent, sidecar, up, toSidecar, stats>> /\ reader'.holding = Nothing
    BY <1>8 DEF ForwardFails, Reply
  <2> QED
    BY <1>0, <2>1 DEF PassageInv, Fresh, NotOnItsWay, OnePlace, Behind, None, Joins
<1>9. CASE Writer
  <2>1. stats'.closeStream = stats.closeStream
    BY <1>9 DEF Writer, ReadEvent, ReadEventFails, WriteResult, WriteFails, markResult, LastWrite,
       Typed, StatsT
  <2> QED
    BY <1>2, <1>9, <2>1, WriterMoves
<1>10. CASE Handler
  <2>1. reader'.holding = reader.holding
    BY <1>10, HandlerMoves DEF Stages
  <2> QED
    BY <1>2, <1>10, <2>1, HandlerMoves
<1> QED
  BY <1>1, <1>3, <1>4, <1>5, <1>6, <1>7, <1>8, <1>9, <1>10 DEF Next, Client, Sidecar, Reader

-----------------------------------------------------------------------------
(* The answer to CloseStream                                                *)

Waits == Hopeful /\ (sidecar.state = "up" \/ client.closed)

\* A client that may hope after a step could do so before it.
LEMMA HopeStays ==
    ASSUME Typed, PassageInv, PlaceInv, LiveAssumption, Next, Waits'
    PROVE  /\ Waits /\ received \subseteq received'
           /\ sidecar'.state = "done" => \/ sidecar.state = "done" /\ client.closed
                                         \/ SidecarTakes /\ Head(toSidecar) = CloseStream
<1>0. endpoint' = endpoint
  BY EndpointStays
<1> USE DEF Waits, Hopeful
<1>1. CASE ClientSends
  <2>1. PICK f \in unsent : client' = [client EXCEPT !.closed = (f = CloseStream)]
    BY <1>1 DEF ClientSends
  <2>2. /\ client'.closed = (f = CloseStream) /\ client'.state = client.state
        /\ client'.stalled = client.stalled
    BY <2>1 DEF Typed, OutsideT
  <2>3. sidecar' = sidecar /\ received' = received
    BY <1>1 DEF ClientSends, session
  <2>4. sidecar.state = "done" => ~client'.closed
    BY <2>1, <2>2 DEF PassageInv, Fresh
  <2>5. sidecar.state \in {"up", "done", "dead"}
    BY DEF Typed, OutsideT
  <2> QED
    BY <1>0, <2>2, <2>3, <2>4, <2>5
<1>2. CASE ClientLeaves
  <2>1. client'.state \in {"half", "gone"} \/ client'.stalled
    BY <1>2 DEF ClientLeaves, Typed, OutsideT
  <2> QED
    BY <2>1
<1>3. CASE SidecarSpeaks
  <2>1. sidecar'.state = sidecar.state /\ client' = client /\ received' = received
    BY <1>3 DEF SidecarSpeaks, session, Typed, OutsideT
  <2>2. sidecar.state = "up"
    BY <1>3 DEF SidecarSpeaks
  <2> QED
    BY <1>0, <2>1, <2>2
<1>4. CASE SidecarTakes
  <2>1. sidecar.state = "up" /\ client' = client /\ received' = received
    BY <1>4 DEF SidecarTakes, session
  <2>2. sidecar'.state = "done" => Head(toSidecar) = CloseStream
    BY <1>4 DEF SidecarTakes, Typed, OutsideT
  <2> QED
    BY <1>0, <1>4, <2>1, <2>2
<1>5. CASE SidecarDies
  BY <1>5 DEF SidecarDies, Typed, OutsideT
<1>6. CASE Reader \/ Writer \/ Handler
  <2>1. sidecar' = sidecar /\ client' = client
    BY <1>6, ReaderMoves, WriterMoves, HandlerMoves
  <2>2. received \subseteq received'
    <3>1. CASE Reader
      BY <3>1 DEF Reader, ReadFrame, ReadFails, Forward, ForwardFails, Reply, Sent, session
    <3>2. CASE Writer
      BY <3>2 DEF Writer, ReadEvent, ReadEventFails, WriteResult, WriteFails, markResult, LastWrite,
         Sent, session
    <3>3. CASE Handler
      BY <3>3, HandlerMoves
    <3> QED
      BY <1>6, <3>1, <3>2, <3>3
  <2>3. sidecar.state \in {"up", "done", "dead"}
    BY DEF Typed, OutsideT
  <2> QED
    BY <1>0, <2>1, <2>2, <2>3
<1> QED
  BY <1>1, <1>2, <1>3, <1>4, <1>5, <1>6 DEF Next, Client, Sidecar

\* A terminal message or an error that is written is what the client hoped for.
LEMMA WrittenIsReceived ==
    ASSUME Typed, NEW e, NEW kind, Sent(e, kind), kind \in {"terminal", "error"}
    PROVE  ~Hopeful'
<1> DEFINE r == [kind |-> kind, of |-> e.of, turn |-> e.turn, item |-> item]
<1>1. r \in received' /\ r.kind = kind
  BY DEF Sent
<1> HIDE DEF r
<1> QED
  BY <1>1 DEF Hopeful

\* Nothing ends a session whose client waits.
LEMMA NobodyExits ==
    ASSUME LiveAssumption, Typed, PlaceInv, ErrInv, PassageInv, CloseInv, Next, Waits'
    PROVE  Waits /\ ~torn /\ reader'.pc # "exited" /\ writer'.pc # "exited"
<1>1. Waits /\ reader.pc # "exited" /\ writer.pc # "exited"
  BY HopeStays DEF CloseInv, Waits
<1>2. ~torn /\ errCh = <<>>
  BY <1>1, SomeoneExited DEF torn, Over
<1>3. CASE Client \/ Sidecar
  BY <1>1, <1>2, <1>3, OutsideLeaves
<1>4. sidecar.state # "up" =>
        /\ sidecar.state = "done" /\ client.closed /\ reader.holding = Nothing
        /\ \/ \E i \in 1..Len(events) : events[i].kind = "done"
           \/ writer.pc = "writing" /\ writer.holding.kind = "done"
  BY <1>1 DEF Waits, Hopeful, Typed, OutsideT, PassageInv, Behind, CloseInv
<1>5. CASE Reader
  <2>1. ~ReadFails
    BY <1>1, <1>2 DEF ReadFails, Waits, Hopeful
  <2>2. ~ForwardFails
    BY <1>2, <1>4 DEF ForwardFails, PlaceInv
  <2>3. CASE ReadFrame \/ Forward \/ Reply
    BY <1>1, <1>2, <2>3 DEF ReadFrame, Forward, Reply
  <2> QED
    BY <1>5, <2>1, <2>2, <2>3 DEF Reader
<1>6. CASE Writer
  <2>1. ~ReadEventFails
    <3>1. Len(<<>>) = 0
      OBVIOUS
    <3> QED
      BY <1>2, <1>4, <3>1 DEF ReadEventFails
  <2>2. ~WriteFails
    BY <1>1, <1>2 DEF WriteFails, Released, Waits, Hopeful
  <2>3. ~LastWrite
    <3>1. LastWrite => ~Hopeful'
      BY WrittenIsReceived DEF LastWrite, EndsSession, Kind
    <3> QED
      BY <3>1 DEF Waits
  <2>4. CASE ReadEvent \/ WriteResult \/ markResult
    BY <1>1, <1>2, <2>4, WriterMoves DEF ReadEvent, WriteResult, markResult, Typed, WriterT
  <2> QED
    BY <1>6, <2>1, <2>2, <2>3, <2>4 DEF Writer
<1>7. CASE Handler
  BY <1>1, <1>2, <1>7, HandlerMoves DEF Stages
<1> QED
  BY <1>1, <1>2, <1>3, <1>5, <1>6, <1>7 DEF Next

\* The last message stays on its way until it is written.
LEMMA CloseKept ==
    ASSUME LiveAssumption, Typed, PlaceInv, ErrInv, PassageInv, CloseInv, Next
    PROVE  CloseInv'
<1>1. SUFFICES ASSUME Waits', sidecar'.state = "done", client'.closed
               PROVE  \/ \E i \in 1..Len(events') : events'[i].kind = "done"
                      \/ writer'.pc = "writing" /\ writer'.holding.kind = "done"
  BY NobodyExits DEF CloseInv, Waits
<1>2. Waits /\ ~torn /\ reader'.pc # "exited" /\ writer'.pc # "exited"
  BY <1>1, NobodyExits
<1>3. CASE SidecarTakes /\ Head(toSidecar) = CloseStream
  <2>1. PICK last \in {<<>>, <<Says("final", Nothing)>>} :
                events' = events \o last \o <<Says("done", Nothing)>>
    BY <1>3 DEF SidecarTakes, LiveAssumption
  <2>2. Says("final", Nothing) \in Event /\ Says("done", Nothing) \in Event
    BY DEF Says, Event, Typed, OutsideT
  <2> DEFINE e == Says("done", Nothing)
             s == events \o last
  <2>3. last \in Seq(Event)
    BY <2>2, ShortTyped
  <2>4. s \in Seq(Event) /\ e \in Event
    BY <2>2, <2>3 DEF Typed, EventsT
  <2>5. e.kind = "done"
    BY DEF Says
  <2>6. events' = s \o <<e>>
    BY <2>1
  <2> HIDE DEF e, s
  <2>7. Len(events') = Len(s) + 1 /\ events'[Len(s) + 1] = e /\ Len(s) \in Nat
    BY <2>4, <2>6
  <2>8. Len(s) + 1 \in 1..Len(events')
    BY <2>7
  <2> QED
    BY <2>5, <2>7, <2>8
<1>4. CASE sidecar.state = "done" /\ client.closed
  <2>1. \/ \E i \in 1..Len(events) : events[i].kind = "done"
        \/ writer.pc = "writing" /\ writer.holding.kind = "done"
    BY <1>2, <1>4 DEF CloseInv, Waits
  <2>2. CASE Client \/ Sidecar
    <3>1. events' = events
      BY <1>1, <1>4, <2>2 DEF Client, Sidecar, ClientSends, ClientLeaves, SidecarSpeaks, SidecarTakes,
         SidecarDies
    <3> QED
      BY <2>1, <2>2, <3>1, OutsideLeaves
  <2>3. CASE Reader
    BY <2>1, <2>3, ReaderMoves
  <2>4. CASE Handler
    BY <1>2, <2>1, <2>4, HandlerMoves DEF Stages, PlaceInv
  <2>5. CASE ReadEvent
    <3>1. /\ Len(events) \in Nat /\ Len(events') = Len(events) - 1 /\ Head(events) = events[1]
          /\ \A i \in 1..(Len(events) - 1) : events'[i] = events[i + 1]
      BY <2>5, ChannelSteps DEF ReadEvent, Typed, EventsT
    <3>2. PICK i \in 1..Len(events) : events[i].kind = "done"
      BY <2>1, <2>5 DEF ReadEvent
    <3>3. CASE i = 1
      <4>1. Joins => stats.closeStream
        <5>1. up = <<>>
          BY <1>4 DEF PassageInv, Behind
        <5>2. None(up)
          BY <5>1 DEF None
        <5> QED
          BY <1>4, <5>2 DEF PassageInv, Behind
      <4>2. ~Skipped(Head(events))
        BY <1>2, <3>1, <3>2, <3>3, <4>1 DEF Skipped, Joins, Waits, Hopeful
      <4> QED
        BY <2>5, <3>1, <3>2, <3>3, <4>2 DEF ReadEvent
    <3>4. CASE i # 1
      <4>1. Len(events) \in Nat
        BY DEF Typed, EventsT
      <4>2. i - 1 \in 1..(Len(events) - 1) /\ (i - 1) + 1 = i
        BY <3>4, <4>1
      <4>3. i - 1 \in 1..Len(events') /\ events'[i - 1] = events[i]
        BY <3>1, <4>2
      <4>4. events'[i - 1].kind = "done"
        BY <3>2, <4>3
      <4> QED
        BY <4>3, <4>4
    <3> QED
      BY <3>3, <3>4
  <2>6. CASE WriteResult
    <3>1. writer.holding.kind # "done"
      <4>1. writer.holding.kind = "done" => ~Hopeful'
        BY <2>6, WrittenIsReceived DEF WriteResult, Kind
      <4> QED
        BY <1>1, <4>1 DEF Waits
    <3> QED
      BY <2>1, <2>6, <3>1 DEF WriteResult
  <2>7. CASE WriteFails
    BY <1>2, <2>7 DEF WriteFails, Released, Waits, Hopeful
  <2>8. CASE markResult
    BY <2>1, <2>8 DEF markResult
  <2>9. CASE LastWrite \/ ReadEventFails
    BY <1>2, <2>9 DEF LastWrite, ReadEventFails, Typed, WriterT
  <2> QED
    BY <2>2, <2>3, <2>4, <2>5, <2>6, <2>7, <2>8, <2>9 DEF Next, Writer
<1> QED
  BY <1>1, <1>3, <1>4, HopeStays

-----------------------------------------------------------------------------
(* The theorems                                                             *)

LEMMA TypeKept ==
    ASSUME LiveAssumption, Typed, PlaceInv, ErrInv, Next
    PROVE  TypeOK'
<1>1. Typed'
  BY OutsideTyped, ReaderTyped, WriterTyped, HandlerTyped DEF Next
<1>2. ErrInv'
  BY ErrKept
<1>3. Len(errCh') <= 2
  <2>1. errCh' \in Seq(Causes)
    BY <1>1 DEF Typed, ErrT
  <2>2. Len(errCh') \in Nat
    BY <2>1
  <2> QED
    BY <1>2, <2>2 DEF ErrInv, Exited
<1> QED
  BY <1>1, <1>3 DEF TypeOK, Typed, OutsideT, FramesT, EventsT, SessionT, ReaderT, WriterT, StatsT, MainT,
     ErrT, LoggedT

\* A session begins with its invariant.
LEMMA Beginning ==
    ASSUME LiveAssumption, Init
    PROVE  IInv
<1> USE DEF Init
<1>1. up = <<>> /\ toSidecar = <<>> /\ events = <<>> /\ errCh = <<>> /\ Len(<<>>) = 0
  OBVIOUS
<1>2. endpoint \in Endpoints /\ MaxEvents[endpoint] \in Nat
  BY DEF LiveAssumption
<1>3. TypeOK
  <2>1. unsent \subseteq Frame
    BY DEF Sends, Frame, Flushes
  <2>2. OutsideT
    BY <1>2, <2>1 DEF OutsideT, Turns
  <2>3. FramesT /\ EventsT /\ ErrT
    BY <1>1, ShortTyped DEF FramesT, EventsT, ErrT
  <2>4. SessionT
    <3>1. interim \in BOOLEAN
      BY Zenon
    <3> QED
      BY <3>1 DEF SessionT
  <2>5. ReaderT /\ WriterT /\ StatsT /\ MainT /\ LoggedT
    BY DEF ReaderT, WriterT, StatsT, MainT, LoggedT
  <2> QED
    BY <1>1, <2>2, <2>3, <2>4, <2>5, TypeSplits DEF Typed
<1>4. ErrInv
  BY <1>1 DEF ErrInv, Over, Exited
<1>5. PlaceInv
  BY <1>2 DEF PlaceInv, LiveAssumption
<1>6. UsageInv /\ FlushInv
  BY DEF UsageInv, FlushInv
<1>7. PassageInv
  BY <1>1 DEF PassageInv, Fresh, NotOnItsWay, OnePlace, None, LiveAssumption
<1>8. CloseInv
  BY DEF CloseInv
<1> QED
  BY <1>3, <1>4, <1>5, <1>6, <1>7, <1>8 DEF IInv

LEMMA Stutter ==
    ASSUME IInv, UNCHANGED vars
    PROVE  IInv'
<1> USE DEF vars, outside, session, handler
<1>1. UNCHANGED <<endpoint, client, unsent, sidecar, up, toSidecar, events, received, interim, item,
                  reader, writer, stats, errCh, main, logged, readError>>
  OBVIOUS
<1>2. TypeOK'
  BY <1>1 DEF IInv, TypeOK, Turns, Event
<1>3. ErrInv' /\ PlaceInv' /\ UsageInv'
  BY <1>1 DEF IInv, ErrInv, PlaceInv, UsageInv, Over, Exited, Joins, Event, Turns
<1>4. FlushInv'
  BY <1>1 DEF IInv, FlushInv, Grace, flushPending
<1>5. PassageInv'
  BY <1>1 DEF IInv, PassageInv, Fresh, NotOnItsWay, OnePlace, Behind, None, Joins
<1>6. CloseInv'
  BY <1>1 DEF IInv, CloseInv, Hopeful
<1> QED
  BY <1>2, <1>3, <1>4, <1>5, <1>6 DEF IInv

\* The inductive invariant of a session.
THEOREM Invariance == Spec => []IInv
<1>1. Init => IInv
  BY LiveAssumption, Beginning
<1>2. IInv /\ [Next]_vars => IInv'
  <2>1. ASSUME IInv, Next
        PROVE  IInv'
    <3>1. Typed /\ PlaceInv /\ ErrInv /\ PassageInv /\ CloseInv /\ UsageInv /\ FlushInv
      BY <2>1, TypeSplits DEF IInv
    <3> QED
      BY <2>1, <3>1, LiveAssumption, TypeKept, ErrKept, PlaceKept, UsageKept, FlushKept, PassageKept,
         CloseKept DEF IInv
  <2> QED
    BY <2>1, Stutter
<1> QED
  BY <1>1, <1>2, PTL DEF Spec

\* Whatever the frames and events, the goroutines and channels keep their types, and
\* no goroutine blocks on reporting its end.
THEOREM TypeCorrect == Spec => []TypeOK
<1>1. IInv => TypeOK
  BY DEF IInv
<1> QED
  BY <1>1, Invariance, PTL

\* The two Deepgram endpoints log every audio frame they read, after both of their
\* goroutines have ended.
THEOREM UsageIsExact == Spec => []UsageExact
<1>1. IInv => UsageExact
  BY DEF IInv, UsageInv, UsageExact, lingering
<1> QED
  BY <1>1, Invariance, PTL

\* A flush that is pending keeps the sidecar connection open within the grace.
THEOREM FlushIsNotCut == Spec => []FlushNotCut
<1>1. IInv => FlushNotCut
  BY DEF IInv, FlushInv, FlushNotCut, Grace, torn, Joins
<1> QED
  BY <1>1, Invariance, PTL

\* Who closes the stream as the last thing, and reads on, is answered before the end.
THEOREM CloseIsAnswered == Spec => []CloseAnswered
<1>1. ASSUME IInv
      PROVE  CloseAnswered
  <2>1. main.pc = "returned" => reader.pc = "exited" \/ writer.pc = "exited"
    BY <1>1, TypeSplits, SomeoneExited DEF IInv, Over
  <2> QED
    BY <1>1, <2>1 DEF IInv, CloseInv, Hopeful, CloseAnswered
<1> QED
  BY <1>1, Invariance, PTL
=============================================================================
