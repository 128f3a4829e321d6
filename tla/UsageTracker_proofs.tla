------------------------- MODULE UsageTracker_proofs -------------------------
(***************************************************************************)
(* Proofs about UsageTracker, for any set of requests, any capacity and any *)
(* size of a batch: its types, and MeteringSound.                           *)
(***************************************************************************)
EXTENDS UsageTracker, TLAPS, FiniteSetTheorems

\* The queues and batches hold finitely many records, each in one place.
QueueInv ==
    /\ IsFiniteSet(logCh) /\ IsFiniteSet(batch)
    /\ IsFiniteSet(failCh) /\ IsFiniteSet(failBatch)
    /\ logCh \cap batch = {}
    /\ failCh \cap failBatch = {}

InQueue(r) == r \in logCh \cup batch \cup failCh \cup failBatch

\* Nothing is recorded of a request that is still under way, nor counted; of one that
\* is queued nothing else is recorded; and what is recorded agrees with its status.
RecordInv ==
    \A r \in Requests :
        /\ ~At(r, "done") \/ r \in Unclassified => ~InQueue(r) /\ usage[r] = 0 /\ failures[r] = 0
        /\ ~At(r, "done") => counted[r] = 0
        /\ r \in logCh \cup batch => req[r].ok /\ usage[r] = 0 /\ counted[r] = 0
        /\ r \in failCh \cup failBatch => ~req[r].ok /\ failures[r] = 0
        /\ usage[r] > 0 => req[r].ok
        /\ failures[r] > 0 => ~req[r].ok
        /\ usage[r] <= counted[r] /\ counted[r] <= 1 /\ failures[r] <= 1

\* A stream that was begun was answered 200, and is left to the stream by the sentinel.
SentinelInv ==
    \A r \in Requests :
        /\ req[r].pc \in {"streaming", "metering"} => req[r].ok /\ r \in Streams
        /\ At(r, "returned") /\ req[r].ok /\ r \in Streams => req[r].override

\* What the sidecar has sent by its last frame, and what has been read of it: the
\* frame in the pipe has not.
Reported(s) ==
    LET last == upstream[s].last
        pipe == upstream[s].pipe
        told == upstream[s].told
    IN  /\ pipe \in {None, "EOF", last}
        /\ req[s].pc \in {"new", "returned"} => last = None /\ pipe = None /\ told = {}
        /\ dialect[s] = "OpenAI" => told \in {{}, Counts}
        /\ last \in {"usage", "[DONE]"} => dialect[s] = "OpenAI"
        /\ last \in {"usage", "completed"} => told = Counts
        /\ last \in {"message_start", "message_delta", "message_stop"} => dialect[s] = "Anthropic"
        /\ dialect[s] = "Anthropic" /\ last # None => "prompt" \in told
        /\ last \in {"message_delta", "message_stop"} => "completion" \in told
        /\ req[s].prompt => "prompt" \in told
        /\ req[s].completion => "completion" \in told
        /\ "prompt" \in told => req[s].prompt \/ "prompt" \in Carried(pipe)
        /\ "completion" \in told => req[s].completion \/ "completion" \in Carried(pipe)

Terminal == {"usage", "[DONE]", "completed", "failed", "message_stop"}

\* A stream has seen a terminal marker only if one was sent, and is recorded as
\* completed only when all has been read.
TokenInv ==
    \A s \in Streams :
        /\ Reported(s)
        /\ req[s].terminal \/ req[s].outcome = "completed" => upstream[s].last \in Terminal
        /\ req[s].outcome = "completed" => upstream[s].pipe = None
        /\ req[s].pc \in {"new", "returned"} => ~req[s].terminal
        /\ req[s].pc \in {"new", "returned", "streaming"} => req[s].outcome = "none"

IInv == TypeOK /\ QueueInv /\ RecordInv /\ SentinelInv /\ TokenInv

-----------------------------------------------------------------------------
\* Taking an element out of a queue leaves it finite and no larger.
LEMMA TakeKeeps ==
    ASSUME NEW ch, IsFiniteSet(ch), NEW r \in ch
    PROVE  /\ IsFiniteSet(ch \ {r}) /\ Cardinality(ch \ {r}) <= Cardinality(ch)
           /\ Cardinality(ch) \in Nat /\ Cardinality(ch \ {r}) \in Nat
<1>1. Cardinality(ch) \in Nat
  BY FS_CardinalityType
<1>2. IsFiniteSet(ch \ {r}) /\ Cardinality(ch \ {r}) = Cardinality(ch) - 1
  BY FS_RemoveElement
<1>3. Cardinality(ch \ {r}) \in Nat
  BY <1>2, FS_CardinalityType
<1> QED
  BY <1>1, <1>2, <1>3

\* Adding an element leaves a set finite and one larger at most.
LEMMA AddKeeps ==
    ASSUME NEW S, IsFiniteSet(S), NEW x
    PROVE  IsFiniteSet(S \cup {x}) /\ Cardinality(S \cup {x}) <= Cardinality(S) + 1
<1>1. Cardinality(S) \in Nat
  BY FS_CardinalityType
<1>2. /\ IsFiniteSet(S \cup {x})
      /\ Cardinality(S \cup {x}) = IF x \in S THEN Cardinality(S) ELSE Cardinality(S) + 1
  BY FS_AddElement, Zenon
<1> QED
  BY <1>1, <1>2

\* A send keeps a channel within its capacity.
LEMMA OfferKeeps ==
    ASSUME UsageAssumption, NEW ch, IsFiniteSet(ch), Cardinality(ch) <= Capacity, NEW r
    PROVE  /\ IsFiniteSet(Offer(ch, r)) /\ Cardinality(Offer(ch, r)) <= Capacity
           /\ Offer(ch, r) \in {ch, ch \cup {r}}
<1>1. Cardinality(ch) \in Nat /\ Capacity \in Nat
  BY FS_CardinalityType DEF UsageAssumption
<1>2. IsFiniteSet(ch \cup {r}) /\ Cardinality(ch \cup {r}) <= Cardinality(ch) + 1
  BY <1>1, AddKeeps
<1>3. Cardinality(ch \cup {r}) \in Nat
  BY <1>2, FS_CardinalityType
<1> QED
  BY <1>1, <1>2, <1>3 DEF Offer

\* A record added to a batch that is not full leaves room for no more than its size.
LEMMA BatchKeeps ==
    ASSUME UsageAssumption, NEW b, IsFiniteSet(b), NEW r, ~(Cardinality(b) + 1 >= BatchSize)
    PROVE  IsFiniteSet(b \cup {r}) /\ Cardinality(b \cup {r}) < BatchSize
<1>1. Cardinality(b) \in Nat /\ BatchSize \in Nat
  BY FS_CardinalityType DEF UsageAssumption
<1>2. IsFiniteSet(b \cup {r}) /\ Cardinality(b \cup {r}) <= Cardinality(b) + 1
  BY <1>1, AddKeeps
<1>3. Cardinality(b \cup {r}) \in Nat
  BY <1>2, FS_CardinalityType
<1> QED
  BY <1>1, <1>2, <1>3

\* The empty batch is within its size.
LEMMA EmptyBatch ==
    ASSUME UsageAssumption
    PROVE  IsFiniteSet({}) /\ Cardinality({}) = 0 /\ 0 < BatchSize /\ 0 <= Capacity
BY FS_EmptySet DEF UsageAssumption

-----------------------------------------------------------------------------
\* A writer either moves one record from its channel to its batch, or writes a batch
\* that holds its own and perhaps one record of the channel.
Moves(ch, b, chNext, bNext) ==
    \E r \in ch :
        /\ ~(Cardinality(b) + 1 >= BatchSize)
        /\ chNext = ch \ {r} /\ bNext = b \cup {r}
        /\ UNCHANGED tables

Writes(S, ch, b, chNext, bNext) ==
    /\ S \subseteq ch \cup b
    /\ bNext = {}
    /\ chNext = ch \/ \E r \in ch : chNext = ch \ {r}
    /\ chNext \cap S = {}
    /\ lost' \in {lost, lost \cup S}

\* processLogs does one of the two.
LEMMA LogsEffect ==
    ASSUME QueueInv, processLogs
    PROVE  /\ UNCHANGED <<server, connected, sidecar, req, failCh, failBatch, failures>>
           /\ \/ Moves(logCh, batch, logCh', batch')
              \/ \E S : /\ Writes(S, logCh, batch, logCh', batch')
                        /\ counted' = Add(counted, S) /\ usage' \in {usage, Add(usage, S)}
<1>1. ASSUME NEW S, flushUsage(S)
      PROVE  /\ counted' = Add(counted, S) /\ usage' \in {usage, Add(usage, S)}
             /\ lost' \in {lost, lost \cup S} /\ batch' = {}
             /\ UNCHANGED <<failures, failBatch>>
  BY <1>1 DEF flushUsage
<1>2. CASE \E r \in logCh :
             /\ logCh' = logCh \ {r}
             /\ IF Cardinality(batch) + 1 >= BatchSize THEN flushUsage(batch \cup {r})
                ELSE batch' = batch \cup {r} /\ UNCHANGED <<tables, failBatch>>
  <2>1. PICK r \in logCh :
             /\ logCh' = logCh \ {r}
             /\ IF Cardinality(batch) + 1 >= BatchSize THEN flushUsage(batch \cup {r})
                ELSE batch' = batch \cup {r} /\ UNCHANGED <<tables, failBatch>>
    BY <1>2
  <2>2. CASE Cardinality(batch) + 1 >= BatchSize
    <3>1. flushUsage(batch \cup {r}) /\ logCh' = logCh \ {r}
      BY <2>1, <2>2
    <3>2. Writes(batch \cup {r}, logCh, batch, logCh', batch')
      BY <1>1, <3>1 DEF Writes, QueueInv
    <3> QED
      BY <1>1, <3>1, <3>2 DEF processLogs
  <2>3. CASE ~(Cardinality(batch) + 1 >= BatchSize)
    <3>1. Moves(logCh, batch, logCh', batch') /\ UNCHANGED <<failures, failBatch>>
      BY <2>1, <2>3 DEF Moves, tables
    <3> QED
      BY <3>1 DEF processLogs
  <2> QED
    BY <2>2, <2>3
<1>3. CASE flushUsage(batch) /\ UNCHANGED logCh
  <2>1. Writes(batch, logCh, batch, logCh', batch')
    BY <1>1, <1>3 DEF Writes, QueueInv
  <2> QED
    BY <1>1, <1>3, <2>1 DEF processLogs
<1> QED
  BY <1>2, <1>3 DEF processLogs

\* So does processFailures, which counts nothing.
LEMMA FailuresEffect ==
    ASSUME QueueInv, processFailures
    PROVE  /\ UNCHANGED <<server, connected, sidecar, req, logCh, batch, usage, counted>>
           /\ \/ Moves(failCh, failBatch, failCh', failBatch')
              \/ \E S : /\ Writes(S, failCh, failBatch, failCh', failBatch')
                        /\ failures' \in {failures, Add(failures, S)}
<1>1. ASSUME NEW S, flushFailures(S)
      PROVE  /\ failures' \in {failures, Add(failures, S)}
             /\ lost' \in {lost, lost \cup S} /\ failBatch' = {}
             /\ UNCHANGED <<usage, counted, batch>>
  BY <1>1 DEF flushFailures
<1>2. CASE \E r \in failCh :
             /\ failCh' = failCh \ {r}
             /\ IF Cardinality(failBatch) + 1 >= BatchSize THEN flushFailures(failBatch \cup {r})
                ELSE failBatch' = failBatch \cup {r} /\ UNCHANGED <<tables, batch>>
  <2>1. PICK r \in failCh :
             /\ failCh' = failCh \ {r}
             /\ IF Cardinality(failBatch) + 1 >= BatchSize THEN flushFailures(failBatch \cup {r})
                ELSE failBatch' = failBatch \cup {r} /\ UNCHANGED <<tables, batch>>
    BY <1>2
  <2>2. CASE Cardinality(failBatch) + 1 >= BatchSize
    <3>1. flushFailures(failBatch \cup {r}) /\ failCh' = failCh \ {r}
      BY <2>1, <2>2
    <3>2. Writes(failBatch \cup {r}, failCh, failBatch, failCh', failBatch')
      BY <1>1, <3>1 DEF Writes, QueueInv
    <3> QED
      BY <1>1, <3>1, <3>2 DEF processFailures
  <2>3. CASE ~(Cardinality(failBatch) + 1 >= BatchSize)
    <3>1. Moves(failCh, failBatch, failCh', failBatch') /\ UNCHANGED <<usage, counted, batch>>
      BY <2>1, <2>3 DEF Moves, tables
    <3> QED
      BY <3>1 DEF processFailures
  <2> QED
    BY <2>2, <2>3
<1>3. CASE flushFailures(failBatch) /\ UNCHANGED failCh
  <2>1. Writes(failBatch, failCh, failBatch, failCh', failBatch')
    BY <1>1, <1>3 DEF Writes, QueueInv
  <2> QED
    BY <1>1, <1>3, <2>1 DEF processFailures
<1> QED
  BY <1>2, <1>3 DEF processFailures

-----------------------------------------------------------------------------
\* A step that leaves the state alone keeps the invariant.
LEMMA StutterKeeps ==
    ASSUME IInv, UNCHANGED vars
    PROVE  IInv'
<1> USE DEF vars, sidecar, queues, tables
<1>1. TypeOK'
  BY DEF IInv, TypeOK
<1>2. QueueInv'
  BY DEF IInv, QueueInv
<1>3. RecordInv'
  BY DEF IInv, RecordInv, At, InQueue
<1>4. SentinelInv'
  BY DEF IInv, SentinelInv, At
<1>5. TokenInv'
  BY DEF IInv, TokenInv, Reported
<1> QED
  BY <1>1, <1>2, <1>3, <1>4, <1>5 DEF IInv

\* So do the steps that only change who is connected, or the server's state.
LEMMA OutsideKeeps ==
    ASSUME IInv,
           UNCHANGED <<sidecar, req, queues, tables>>,
           server' \in {"up", "draining", "down"}, connected' \subseteq Requests
    PROVE  IInv'
<1> USE DEF sidecar, queues, tables
<1>1. TypeOK'
  BY DEF IInv, TypeOK
<1>2. QueueInv'
  BY DEF IInv, QueueInv
<1>3. RecordInv'
  BY DEF IInv, RecordInv, At, InQueue
<1>4. SentinelInv'
  BY DEF IInv, SentinelInv, At
<1>5. TokenInv'
  BY DEF IInv, TokenInv, Reported
<1> QED
  BY <1>1, <1>2, <1>3, <1>4, <1>5 DEF IInv

\* A handler answers a request that nothing is known of yet.
LEMMA ProxyKeeps ==
    ASSUME IInv, NEW r \in Requests, proxy(r)
    PROVE  IInv'
<1> USE DEF sidecar, queues, tables
<1>1. PICK ok \in BOOLEAN :
          req' = [req EXCEPT ![r].pc = "returned", ![r].ok = ok,
                             ![r].override = ok /\ r \in Streams,
                             ![r].prompt = ok /\ r \in Plain,
                             ![r].completion = ok /\ r \in Plain]
  BY DEF proxy
<1>2. req \in [Requests -> Request] /\ req[r] \in Request /\ req[r].pc = "new"
  BY DEF IInv, TypeOK, proxy, At
<1>3. /\ req'[r] \in Request
      /\ req'[r].pc = "returned" /\ req'[r].ok = ok /\ req'[r].override = (ok /\ r \in Streams)
      /\ req'[r].prompt = (ok /\ r \in Plain) /\ req'[r].completion = (ok /\ r \in Plain)
      /\ req'[r].terminal = req[r].terminal /\ req'[r].outcome = req[r].outcome
      /\ \A q \in Requests \ {r} : req'[q] = req[q]
  BY <1>1, <1>2 DEF Request, Steps
<1>4. UNCHANGED <<server, connected, dialect, upstream, logCh, batch, failCh, failBatch,
                  usage, failures, counted, lost>>
  BY DEF proxy
<1>5. TypeOK'
  BY <1>1, <1>2, <1>3, <1>4 DEF IInv, TypeOK
<1>6. QueueInv'
  BY <1>4 DEF IInv, QueueInv
<1>7. RecordInv'
  BY <1>2, <1>3, <1>4 DEF IInv, RecordInv, At, InQueue
<1>8. SentinelInv'
  BY <1>2, <1>3, <1>4 DEF IInv, SentinelInv, At
<1>9. TokenInv'
  <2>1. ASSUME NEW s \in Streams, s # r
        PROVE  req'[s] = req[s] /\ upstream'[s] = upstream[s] /\ dialect'[s] = dialect[s]
    BY <1>3, <1>4, <2>1 DEF Requests
  <2>2. ASSUME r \in Streams
        PROVE  /\ upstream'[r] = upstream[r] /\ dialect'[r] = dialect[r]
               /\ req'[r].pc = "returned" /\ ~req'[r].prompt /\ ~req'[r].completion
               /\ req'[r].terminal = req[r].terminal /\ req'[r].outcome = req[r].outcome
    BY <1>3, <1>4, <2>2, UsageAssumption DEF UsageAssumption
  <2>3. ASSUME r \in Streams
        PROVE  Reported(r)' /\ ~req'[r].terminal /\ req'[r].outcome = "none"
    <3>1. /\ Reported(r) /\ upstream[r].last = None /\ upstream[r].pipe = None
          /\ upstream[r].told = {} /\ ~req[r].terminal /\ req[r].outcome = "none"
      BY <1>2, <2>3 DEF IInv, TokenInv, Reported
    <3> QED
      BY <2>2, <2>3, <3>1 DEF Reported
  <2>4. ASSUME NEW s \in Streams, s # r
        PROVE  /\ Reported(s)'
               /\ req'[s].terminal \/ req'[s].outcome = "completed" => upstream'[s].last \in Terminal
               /\ req'[s].outcome = "completed" => upstream'[s].pipe = None
               /\ req'[s].pc \in {"new", "returned"} => ~req'[s].terminal
               /\ req'[s].pc \in {"new", "returned", "streaming"} => req'[s].outcome = "none"
    BY <2>1, <2>4 DEF IInv, TokenInv, Reported
  <2> QED
    BY <2>3, <2>4 DEF TokenInv
<1> QED
  BY <1>5, <1>6, <1>7, <1>8, <1>9 DEF IInv

\* The middleware sends at most one record of the request, and none of a stream
\* that was begun.
LEMMA MiddlewareKeeps ==
    ASSUME IInv, NEW r \in Requests, Middleware(r)
    PROVE  IInv'
<1> USE DEF sidecar, queues, tables
<1>1. /\ req \in [Requests -> Request] /\ req[r] \in Request /\ req[r].pc = "returned"
      /\ IsFiniteSet(logCh) /\ IsFiniteSet(failCh)
      /\ Cardinality(logCh) <= Capacity /\ Cardinality(failCh) <= Capacity
  BY DEF IInv, TypeOK, QueueInv, Middleware, At
<1>2. /\ req'[r] \in Request
      /\ req'[r].pc = IF r \in Streams /\ req[r].ok THEN "streaming" ELSE "done"
      /\ req'[r].ok = req[r].ok /\ req'[r].override = req[r].override
      /\ req'[r].prompt = req[r].prompt /\ req'[r].completion = req[r].completion
      /\ req'[r].terminal = req[r].terminal /\ req'[r].outcome = req[r].outcome
      /\ \A q \in Requests \ {r} : req'[q] = req[q]
  BY <1>1 DEF Middleware, Request, Steps
<1>3. UNCHANGED <<server, connected, dialect, upstream, batch, failBatch,
                  usage, failures, counted>>
  BY DEF Middleware
<1>4. /\ logCh' \in {logCh, logCh \cup {r}} /\ IsFiniteSet(logCh') /\ Cardinality(logCh') <= Capacity
      /\ failCh' \in {failCh, failCh \cup {r}} /\ IsFiniteSet(failCh') /\ Cardinality(failCh') <= Capacity
      /\ lost' \in {lost, lost \cup {r}}
      /\ logCh' # logCh => Classified(r) /\ req[r].ok
      /\ failCh' # failCh => Classified(r) /\ ~req[r].ok
  BY <1>1, OfferKeeps, UsageAssumption DEF Middleware, Drop
<1>5. ~InQueue(r) /\ usage[r] = 0 /\ failures[r] = 0 /\ counted[r] = 0
  BY <1>1 DEF IInv, RecordInv, At
<1>6. Classified(r) => r \notin Unclassified /\ ~(r \in Streams /\ req[r].ok)
  BY <1>1 DEF Classified, IInv, SentinelInv, At
<1>7. TypeOK'
  <2>1. req' \in [Requests -> Request]
    BY <1>1, <1>2 DEF Middleware
  <2>2. logCh' \cup failCh' \cup batch' \cup failBatch' \subseteq Requests \ Unclassified
    BY <1>3, <1>4, <1>6 DEF IInv, TypeOK
  <2> QED
    BY <1>3, <1>4, <2>1, <2>2 DEF IInv, TypeOK
<1>8. QueueInv'
  BY <1>3, <1>4, <1>5 DEF IInv, QueueInv, InQueue
<1>9. RecordInv'
  <2>1. \A q \in Requests : q # r => (InQueue(q)' <=> InQueue(q)) /\ (q \in logCh' <=> q \in logCh)
                                     /\ (q \in failCh' <=> q \in failCh)
    BY <1>3, <1>4 DEF InQueue
  <2>2. ASSUME NEW q \in Requests, q # r
        PROVE  /\ ~At(q, "done")' \/ q \in Unclassified =>
                     ~InQueue(q)' /\ usage'[q] = 0 /\ failures'[q] = 0
               /\ ~At(q, "done")' => counted'[q] = 0
               /\ q \in logCh' \cup batch' => req'[q].ok /\ usage'[q] = 0 /\ counted'[q] = 0
               /\ q \in failCh' \cup failBatch' => ~req'[q].ok /\ failures'[q] = 0
               /\ usage'[q] > 0 => req'[q].ok
               /\ failures'[q] > 0 => ~req'[q].ok
               /\ usage'[q] <= counted'[q] /\ counted'[q] <= 1 /\ failures'[q] <= 1
    BY <1>2, <1>3, <2>1, <2>2 DEF IInv, RecordInv, At
  <2>3. /\ ~At(r, "done")' \/ r \in Unclassified =>
              ~InQueue(r)' /\ usage'[r] = 0 /\ failures'[r] = 0
        /\ ~At(r, "done")' => counted'[r] = 0
        /\ r \in logCh' \cup batch' => req'[r].ok /\ usage'[r] = 0 /\ counted'[r] = 0
        /\ r \in failCh' \cup failBatch' => ~req'[r].ok /\ failures'[r] = 0
        /\ usage'[r] > 0 => req'[r].ok
        /\ failures'[r] > 0 => ~req'[r].ok
        /\ usage'[r] <= counted'[r] /\ counted'[r] <= 1 /\ failures'[r] <= 1
    BY <1>2, <1>3, <1>4, <1>5, <1>6 DEF At, InQueue
  <2> QED
    BY <2>2, <2>3 DEF RecordInv
<1>10. SentinelInv'
  BY <1>1, <1>2 DEF IInv, SentinelInv, At, Request
<1>11. TokenInv'
  BY <1>1, <1>2, <1>3 DEF IInv, TokenInv, Reported, Requests
<1> QED
  BY <1>7, <1>8, <1>9, <1>10, <1>11 DEF IInv

\* The sidecar sends the frame that follows, which nobody has read yet.
LEMMA UpstreamKeeps ==
    ASSUME IInv, NEW s \in Streams, UpstreamSends(s)
    PROVE  IInv'
<1> USE DEF sidecar, queues, tables
<1>1. PICK f \in Follow(dialect[s], upstream[s].last) :
          upstream' = [upstream EXCEPT ![s] =
                           [last |-> IF f = "EOF" THEN @.last ELSE f, pipe |-> f,
                            told |-> @.told \cup Carried(f)]]
  BY DEF UpstreamSends
<1>2. UNCHANGED <<server, connected, dialect, req, logCh, batch, failCh, failBatch,
                  usage, failures, counted, lost>>
  BY DEF UpstreamSends
<1>3. /\ upstream[s].last \in Frames \cup {None} /\ upstream[s].pipe = None
      /\ req[s].pc = "streaming" /\ dialect[s] \in Dialects /\ upstream[s].told \subseteq Counts
  BY DEF IInv, TypeOK, UpstreamSends, At
<1>4. f \in Frames \cup {"EOF"}
  BY <1>1, <1>3 DEF Follow, Frames, Dialects
<1>5. /\ upstream'[s].pipe = f
      /\ upstream'[s].last = IF f = "EOF" THEN upstream[s].last ELSE f
      /\ upstream'[s].told = upstream[s].told \cup Carried(f)
      /\ upstream' \in [Streams -> [last : Frames \cup {None}, pipe : Frames \cup {None, "EOF"},
                               told : SUBSET Counts]]
      /\ \A t \in Streams \ {s} : upstream'[t] = upstream[t]
  <2>1. Carried(f) \subseteq Counts
    BY DEF Carried
  <2> QED
    BY <1>1, <1>3, <1>4, <2>1 DEF IInv, TypeOK
<1>6. TypeOK'
  BY <1>2, <1>5 DEF IInv, TypeOK
<1>7. QueueInv'
  BY <1>2 DEF IInv, QueueInv
<1>8. RecordInv'
  BY <1>2 DEF IInv, RecordInv, At, InQueue
<1>9. SentinelInv'
  BY <1>2 DEF IInv, SentinelInv, At
<1>10. TokenInv'
  <2>1. ASSUME NEW t \in Streams, t # s
        PROVE  /\ Reported(t)'
               /\ req'[t].terminal \/ req'[t].outcome = "completed" => upstream'[t].last \in Terminal
               /\ req'[t].outcome = "completed" => upstream'[t].pipe = None
               /\ req'[t].pc \in {"new", "returned"} => ~req'[t].terminal
               /\ req'[t].pc \in {"new", "returned", "streaming"} => req'[t].outcome = "none"
    BY <1>2, <1>5, <2>1 DEF IInv, TokenInv, Reported
  <2>2. Reported(s)'
    <3> DEFINE last == upstream[s].last
               told == upstream[s].told
    <3>1. /\ Reported(s) /\ dialect'[s] = dialect[s] /\ req'[s] = req[s]
          /\ req[s].pc \notin {"new", "returned"}
      BY <1>2, <1>3 DEF IInv, TokenInv
    <3>2. \/ f = "EOF"
          \/ f = "text" /\ last \in {None, "message_start", "text"}
             /\ (last = None => dialect[s] # "Anthropic")
          \/ f = "usage" /\ last \in {None, "text"} /\ dialect[s] = "OpenAI"
          \/ f = "[DONE]" /\ last \in {"text", "usage"} /\ (last = "text" => dialect[s] = "OpenAI")
          \/ f \in {"completed", "failed"} /\ last = "text" /\ dialect[s] = "Responses"
          \/ f = "message_start" /\ last = None /\ dialect[s] = "Anthropic"
          \/ f = "message_delta" /\ last = "text" /\ dialect[s] = "Anthropic"
          \/ f = "message_stop" /\ last = "message_delta"
      BY <1>1, <1>3, UsageAssumption DEF Follow, Frames, Dialects, UsageAssumption
    <3>3. /\ Carried("usage") = Counts /\ Carried("completed") = Counts
          /\ Carried("message_start") = {"prompt"} /\ Carried("message_delta") = {"completion"}
          /\ \A g : g \notin {"usage", "completed", "message_start", "message_delta"} =>
                Carried(g) = {}
      BY DEF Carried, Counts
    <3>4. None # "EOF" /\ \A g \in Frames : g # None
      BY UsageAssumption DEF UsageAssumption
    <3>5. /\ upstream[s].pipe = None /\ Carried(None) = {}
      BY <1>3, <3>3, <3>4 DEF Frames
    <3>6. /\ req[s].prompt => "prompt" \in told
          /\ req[s].completion => "completion" \in told
          /\ "prompt" \in told => req[s].prompt
          /\ "completion" \in told => req[s].completion
          /\ dialect[s] = "OpenAI" => told \in {{}, Counts}
          /\ last = "[DONE]" => dialect[s] = "OpenAI"
          /\ last \in {"usage", "completed"} => told = Counts
          /\ last \in {"message_start", "message_delta", "message_stop"} => dialect[s] = "Anthropic"
          /\ dialect[s] = "Anthropic" /\ last # None => "prompt" \in told
          /\ last \in {"message_delta", "message_stop"} => "completion" \in told
      BY <3>1, <3>5 DEF Reported
    <3>7. CASE f = "EOF"
      BY <1>5, <3>1, <3>3, <3>6, <3>7 DEF Reported
    <3>8. CASE f \in {"text", "failed"}
      BY <1>5, <3>1, <3>2, <3>3, <3>6, <3>8 DEF Reported
    <3>9. CASE f = "[DONE]"
      <4>1. dialect[s] = "OpenAI" \/ last = "usage"
        BY <3>2, <3>9
      <4>2. last = "usage" => dialect[s] = "OpenAI"
        BY <3>1 DEF Reported
      <4> QED
        BY <1>5, <3>1, <3>3, <3>6, <3>9, <4>1, <4>2 DEF Reported
    <3>10. CASE f \in {"usage", "completed"}
      BY <1>3, <1>5, <3>1, <3>2, <3>3, <3>6, <3>10 DEF Reported
    <3>11. CASE f \in {"message_start", "message_delta", "message_stop"}
      <4>1. CASE f = "message_start"
        BY <1>5, <3>1, <3>2, <3>3, <3>6, <4>1 DEF Reported
      <4>2. CASE f = "message_delta"
        <5>1. last = "text" /\ dialect[s] = "Anthropic" /\ Carried(f) = {"completion"}
          BY <3>2, <3>3, <4>2
        <5>2. "prompt" \in told /\ req[s].prompt
          BY <3>4, <3>6, <5>1 DEF Frames
        <5>3. /\ "prompt" \in upstream'[s].told /\ "completion" \in upstream'[s].told
              /\ upstream'[s].pipe = f /\ upstream'[s].last = f
          BY <1>5, <4>2, <5>1, <5>2
        <5> QED
          BY <3>1, <4>2, <5>1, <5>2, <5>3 DEF Reported
      <4>3. CASE f = "message_stop"
        <5>1. dialect[s] = "Anthropic" /\ last = "message_delta" /\ Carried(f) = {}
          BY <3>2, <3>3, <3>6, <4>3
        <5> QED
          BY <1>5, <3>1, <3>6, <4>3, <5>1 DEF Reported
      <4> QED
        BY <3>11, <4>1, <4>2, <4>3
    <3> QED
      BY <3>2, <3>7, <3>8, <3>9, <3>10, <3>11
  <2>3. req[s].terminal => upstream'[s].last \in Terminal
    BY <1>1, <1>3, <1>4, <1>5, UsageAssumption
    DEF IInv, TokenInv, Terminal, Follow, Frames, Dialects, UsageAssumption
  <2>4. req[s].outcome = "none"
    BY <1>3 DEF IInv, TokenInv
  <2> QED
    BY <1>2, <1>3, <2>1, <2>2, <2>3, <2>4 DEF IInv, TokenInv
<1> QED
  BY <1>6, <1>7, <1>8, <1>9, <1>10 DEF IInv

\* A frame that is read adds what it reports; the stream goes on or is over.
LEMMA TeeKeeps ==
    ASSUME IInv, NEW s \in Streams, teeSSE(s)
    PROVE  IInv'
<1> USE DEF sidecar, queues, tables
<1> DEFINE f == upstream[s].pipe
           u == parseStreamUsage(req[s], f)
<1>1. /\ req \in [Requests -> Request] /\ s \in Requests /\ req[s] \in Request
      /\ req[s].pc = "streaming" /\ f # None
      /\ f \in Frames \cup {"EOF"} /\ upstream[s].last \in Frames \cup {None}
      /\ dialect[s] \in Dialects
  BY DEF IInv, TypeOK, teeSSE, At, Requests
<1>2. UNCHANGED <<server, connected, dialect, logCh, batch, failCh, failBatch,
                  usage, failures, counted, lost>>
  BY DEF teeSSE
<1>3. /\ upstream'[s].pipe = None /\ upstream'[s].last = upstream[s].last
      /\ upstream'[s].told = upstream[s].told
      /\ upstream' \in [Streams -> [last : Frames \cup {None}, pipe : Frames \cup {None, "EOF"},
                               told : SUBSET Counts]]
      /\ \A t \in Streams \ {s} : upstream'[t] = upstream[t]
  BY DEF teeSSE, IInv, TypeOK
<1>4. /\ u.prompt = (req[s].prompt \/ f \in {"usage", "completed", "message_start"})
      /\ u.completion = (req[s].completion \/ f \in {"usage", "completed", "message_delta"})
      /\ u.terminal = (req[s].terminal \/ f \in {"usage", "[DONE]", "completed", "failed", "message_stop"})
      /\ u.pc = req[s].pc /\ u.ok = req[s].ok /\ u.override = req[s].override
      /\ u.outcome = req[s].outcome /\ u \in Request
  BY <1>1 DEF parseStreamUsage, Request
<1>5. /\ req'[s] \in Request
      /\ req'[s].prompt = u.prompt /\ req'[s].completion = u.completion
      /\ req'[s].terminal = u.terminal /\ req'[s].ok = u.ok
      /\ \/ req'[s].pc = "streaming" /\ req'[s].outcome = u.outcome
         \/ req'[s].pc = "metering" /\ (req'[s].outcome = "completed" => u.terminal)
      /\ req' \in [Requests -> Request]
      /\ \A q \in Requests \ {s} : req'[q] = req[q]
  <2> DEFINE w == IF f = "EOF" THEN Over(u, IF u.terminal THEN "completed" ELSE "upstream_eof")
                  ELSE IF s \in connected THEN u
                  ELSE Over(u, "client_disconnected")
  <2>1. req' = [req EXCEPT ![s] = w]
    BY DEF teeSSE
  <2>2. /\ w \in Request
        /\ w.prompt = u.prompt /\ w.completion = u.completion
        /\ w.terminal = u.terminal /\ w.ok = u.ok
        /\ \/ w.pc = "streaming" /\ w.outcome = u.outcome
           \/ w.pc = "metering" /\ (w.outcome = "completed" => u.terminal)
    <3> HIDE DEF u
    <3> QED
      BY <1>1, <1>4 DEF Over, Request, Steps, Outcomes
  <2> HIDE DEF w
  <2> QED
    BY <1>1, <2>1, <2>2
<1>6. TypeOK'
  BY <1>2, <1>3, <1>5 DEF IInv, TypeOK
<1>7. QueueInv'
  BY <1>2 DEF IInv, QueueInv
<1>8. RecordInv'
  BY <1>1, <1>2, <1>4, <1>5 DEF IInv, RecordInv, At, InQueue
<1>9. SentinelInv'
  BY <1>1, <1>4, <1>5 DEF IInv, SentinelInv, At
<1>10. TokenInv'
  <2>1. ASSUME NEW t \in Streams, t # s
        PROVE  /\ Reported(t)'
               /\ req'[t].terminal \/ req'[t].outcome = "completed" => upstream'[t].last \in Terminal
               /\ req'[t].outcome = "completed" => upstream'[t].pipe = None
               /\ req'[t].pc \in {"new", "returned"} => ~req'[t].terminal
               /\ req'[t].pc \in {"new", "returned", "streaming"} => req'[t].outcome = "none"
    BY <1>2, <1>3, <1>5, <2>1 DEF IInv, TokenInv, Reported, Requests
  <2>2. Reported(s)'
    <3>1. /\ Reported(s) /\ upstream[s].pipe = f
          /\ upstream'[s].pipe = None /\ upstream'[s].last = upstream[s].last
          /\ upstream'[s].told = upstream[s].told /\ upstream[s].told \subseteq Counts
          /\ dialect'[s] = dialect[s] /\ req'[s].pc \notin {"new", "returned"}
      BY <1>1, <1>2, <1>3, <1>4, <1>5 DEF IInv, TokenInv, TypeOK
    <3>2. f = "EOF" \/ f = upstream[s].last
      BY <1>1, <3>1 DEF Reported
    <3>3. /\ req'[s].prompt = (req[s].prompt \/ f \in {"usage", "completed", "message_start"})
          /\ req'[s].completion =
                (req[s].completion \/ f \in {"usage", "completed", "message_delta"})
      BY <1>4, <1>5
    <3> QED
      BY <3>1, <3>2, <3>3, UsageAssumption DEF Reported, Carried, Counts, Frames, UsageAssumption
  <2>3. u.terminal => upstream[s].last \in Terminal
    BY <1>1, <1>4, UsageAssumption
    DEF IInv, TokenInv, Reported, Terminal, Frames, UsageAssumption
  <2>4. req[s].outcome = "none"
    BY <1>1 DEF IInv, TokenInv
  <2> QED
    BY <1>3, <1>4, <1>5, <2>1, <2>2, <2>3, <2>4 DEF TokenInv
<1> QED
  BY <1>6, <1>7, <1>8, <1>9, <1>10 DEF IInv

\* A stream that is over is metered once, by itself.
LEMMA LLMUsageKeeps ==
    ASSUME IInv, NEW s \in Streams, LogLLMUsage(s)
    PROVE  IInv'
<1> USE DEF sidecar, queues, tables
<1>1. /\ req \in [Requests -> Request] /\ s \in Requests /\ req[s] \in Request
      /\ req[s].pc = "metering"
      /\ ~InQueue(s) /\ usage[s] = 0 /\ failures[s] = 0 /\ counted[s] = 0 /\ req[s].ok
  BY DEF IInv, TypeOK, RecordInv, SentinelInv, LogLLMUsage, At, Requests
<1>2. UNCHANGED <<server, connected, dialect, upstream, logCh, batch, failCh, failBatch, failures>>
  BY DEF LogLLMUsage
<1>3. /\ req'[s] \in Request
      /\ req'[s].pc = "done" /\ req'[s].ok = req[s].ok /\ req'[s].override = req[s].override
      /\ req'[s].prompt = req[s].prompt /\ req'[s].completion = req[s].completion
      /\ req'[s].terminal = req[s].terminal /\ req'[s].outcome = req[s].outcome
      /\ req' \in [Requests -> Request]
      /\ \A q \in Requests \ {s} : req'[q] = req[q]
  BY <1>1 DEF LogLLMUsage, Request, Steps
<1>4. /\ counted' \in [Requests -> Nat] /\ counted'[s] = 1
      /\ usage' \in [Requests -> Nat] /\ usage'[s] \in {0, 1}
      /\ lost' \subseteq Requests
      /\ \A q \in Requests \ {s} : counted'[q] = counted[q] /\ usage'[q] = usage[q]
  BY <1>1 DEF LogLLMUsage, IInv, TypeOK
<1>5. TypeOK'
  BY <1>2, <1>3, <1>4 DEF IInv, TypeOK
<1>6. QueueInv'
  BY <1>2 DEF IInv, QueueInv
<1>7. RecordInv'
  <2>1. ASSUME NEW q \in Requests, q # s
        PROVE  /\ ~At(q, "done")' \/ q \in Unclassified =>
                     ~InQueue(q)' /\ usage'[q] = 0 /\ failures'[q] = 0
               /\ ~At(q, "done")' => counted'[q] = 0
               /\ q \in logCh' \cup batch' => req'[q].ok /\ usage'[q] = 0 /\ counted'[q] = 0
               /\ q \in failCh' \cup failBatch' => ~req'[q].ok /\ failures'[q] = 0
               /\ usage'[q] > 0 => req'[q].ok
               /\ failures'[q] > 0 => ~req'[q].ok
               /\ usage'[q] <= counted'[q] /\ counted'[q] <= 1 /\ failures'[q] <= 1
    BY <1>2, <1>3, <1>4, <2>1 DEF IInv, RecordInv, At, InQueue
  <2>2. s \notin Unclassified
    BY UsageAssumption DEF UsageAssumption
  <2>3. ~InQueue(s)' /\ failures'[s] = 0 /\ At(s, "done")' /\ req'[s].ok
    BY <1>1, <1>2, <1>3 DEF InQueue, At
  <2> QED
    BY <1>1, <1>4, <2>1, <2>2, <2>3 DEF RecordInv, InQueue
<1>8. SentinelInv'
  BY <1>1, <1>3 DEF IInv, SentinelInv, At
<1>9. TokenInv'
  BY <1>1, <1>2, <1>3 DEF IInv, TokenInv, Reported, Requests
<1> QED
  BY <1>5, <1>6, <1>7, <1>8, <1>9 DEF IInv

\* A row is added to a table for each record of the batch.
LEMMA AddEffect ==
    ASSUME NEW table \in [Requests -> Nat], NEW S
    PROVE  /\ Add(table, S) \in [Requests -> Nat]
           /\ \A q \in Requests : Add(table, S)[q] = IF q \in S THEN table[q] + 1 ELSE table[q]
BY DEF Add

\* processLogs moves usage records, or writes each of a batch once.
LEMMA LogsKeep ==
    ASSUME IInv, processLogs
    PROVE  IInv'
<1> USE DEF sidecar, queues, tables
<1>1. UNCHANGED <<server, connected, dialect, upstream, req, failCh, failBatch, failures>>
  BY LogsEffect DEF IInv
<1>2. /\ IsFiniteSet(logCh) /\ IsFiniteSet(batch) /\ logCh \cap batch = {}
      /\ logCh \cup batch \subseteq Requests \ Unclassified
      /\ Cardinality(logCh) \in Nat /\ Capacity \in Nat /\ Cardinality(logCh) <= Capacity
  BY FS_CardinalityType, UsageAssumption DEF IInv, QueueInv, TypeOK, UsageAssumption
<1>3. SentinelInv'
  BY <1>1 DEF IInv, SentinelInv, At
<1>4. TokenInv'
  BY <1>1 DEF IInv, TokenInv, Reported
<1>5. ASSUME Moves(logCh, batch, logCh', batch')
      PROVE  TypeOK' /\ QueueInv' /\ RecordInv'
  <2>1. PICK r \in logCh :
            /\ ~(Cardinality(batch) + 1 >= BatchSize)
            /\ logCh' = logCh \ {r} /\ batch' = batch \cup {r}
            /\ UNCHANGED tables
    BY <1>5 DEF Moves
  <2>2. /\ IsFiniteSet(logCh') /\ Cardinality(logCh') <= Capacity
        /\ IsFiniteSet(batch') /\ Cardinality(batch') < BatchSize
        /\ logCh' \cap batch' = {} /\ logCh' \cup batch' = logCh \cup batch
    <3>1. /\ IsFiniteSet(logCh \ {r}) /\ Cardinality(logCh \ {r}) <= Cardinality(logCh)
          /\ Cardinality(logCh \ {r}) \in Nat
      BY <1>2, TakeKeeps
    <3>2. IsFiniteSet(batch \cup {r}) /\ Cardinality(batch \cup {r}) < BatchSize
      BY <1>2, <2>1, BatchKeeps, UsageAssumption
    <3>3. Cardinality(logCh \ {r}) <= Capacity
      BY <1>2, <3>1
    <3> QED
      BY <1>2, <2>1, <3>1, <3>2, <3>3
  <2>3. TypeOK' /\ QueueInv'
    BY <1>1, <2>1, <2>2 DEF IInv, TypeOK, QueueInv
  <2>4. \A q \in Requests : InQueue(q)' <=> InQueue(q)
    BY <1>1, <2>2 DEF InQueue
  <2> QED
    BY <1>1, <2>1, <2>2, <2>3, <2>4 DEF IInv, RecordInv, At
<1>6. ASSUME NEW S, Writes(S, logCh, batch, logCh', batch'),
             counted' = Add(counted, S), usage' \in {usage, Add(usage, S)}
      PROVE  TypeOK' /\ QueueInv' /\ RecordInv'
  <2>1. /\ IsFiniteSet(logCh') /\ Cardinality(logCh') <= Capacity /\ logCh' \subseteq logCh
        /\ batch' = {} /\ logCh' \cap S = {} /\ S \subseteq logCh \cup batch
        /\ lost' \in {lost, lost \cup S}
    BY <1>2, <1>6, TakeKeeps DEF Writes
  <2>2. counted \in [Requests -> Nat] /\ usage \in [Requests -> Nat]
    BY DEF IInv, TypeOK
  <2>3. /\ counted' \in [Requests -> Nat] /\ usage' \in [Requests -> Nat]
        /\ \A q \in Requests :
              /\ counted'[q] = IF q \in S THEN counted[q] + 1 ELSE counted[q]
              /\ usage'[q] \in {usage[q], IF q \in S THEN usage[q] + 1 ELSE usage[q]}
    BY <1>6, <2>2, AddEffect
  <2>4. TypeOK' /\ QueueInv'
    BY <1>1, <1>2, <2>1, <2>3, EmptyBatch, UsageAssumption DEF IInv, TypeOK, QueueInv
  <2>5. ASSUME NEW q \in Requests
        PROVE  /\ ~At(q, "done") \/ q \in Unclassified =>
                     ~InQueue(q)' /\ usage'[q] = 0 /\ failures[q] = 0
               /\ ~At(q, "done") => counted'[q] = 0
               /\ q \in logCh' => req[q].ok /\ usage'[q] = 0 /\ counted'[q] = 0
               /\ q \in failCh \cup failBatch => ~req[q].ok /\ failures[q] = 0
               /\ usage'[q] > 0 => req[q].ok
               /\ failures[q] > 0 => ~req[q].ok
               /\ usage'[q] <= counted'[q] /\ counted'[q] <= 1 /\ failures[q] <= 1
    <3>1. /\ usage[q] \in Nat /\ counted[q] \in Nat
          /\ usage'[q] \in Nat /\ counted'[q] \in Nat /\ failures[q] \in Nat
      BY <2>2, <2>3 DEF IInv, TypeOK
    <3>2. /\ ~At(q, "done") \/ q \in Unclassified => ~InQueue(q) /\ usage[q] = 0 /\ failures[q] = 0
          /\ ~At(q, "done") => counted[q] = 0
          /\ q \in logCh \cup batch => req[q].ok /\ usage[q] = 0 /\ counted[q] = 0
          /\ q \in failCh \cup failBatch => ~req[q].ok /\ failures[q] = 0
          /\ usage[q] > 0 => req[q].ok
          /\ failures[q] > 0 => ~req[q].ok
          /\ usage[q] <= counted[q] /\ counted[q] <= 1 /\ failures[q] <= 1
      BY DEF IInv, RecordInv
    <3>3. InQueue(q)' => InQueue(q)
      BY <1>1, <2>1 DEF InQueue
    <3>4. CASE q \in S
      <4>1. q \in logCh \cup batch /\ InQueue(q) /\ q \notin logCh'
        BY <2>1, <3>4 DEF InQueue
      <4>2. counted'[q] = counted[q] + 1 /\ usage'[q] \in {usage[q], usage[q] + 1}
        BY <2>3, <3>4
      <4> QED
        BY <3>1, <3>2, <4>1, <4>2
    <3>5. CASE q \notin S
      <4>1. counted'[q] = counted[q] /\ usage'[q] = usage[q]
        BY <2>3, <3>5
      <4>2. q \in logCh' => q \in logCh
        BY <2>1
      <4> QED
        BY <3>2, <3>3, <4>1, <4>2
    <3> QED
      BY <3>4, <3>5
  <2>6. RecordInv'
    BY <1>1, <2>1, <2>5 DEF RecordInv, At
  <2> QED
    BY <2>4, <2>6
<1>7. TypeOK' /\ QueueInv' /\ RecordInv'
  <2>1. \/ Moves(logCh, batch, logCh', batch')
        \/ \E S : /\ Writes(S, logCh, batch, logCh', batch')
                  /\ counted' = Add(counted, S) /\ usage' \in {usage, Add(usage, S)}
    BY LogsEffect DEF IInv
  <2> QED
    BY <1>5, <1>6, <2>1
<1> QED
  BY <1>3, <1>4, <1>7 DEF IInv

\* processFailures does the same with the records of failures.
LEMMA FailuresKeep ==
    ASSUME IInv, processFailures
    PROVE  IInv'
<1> USE DEF sidecar, queues, tables
<1>1. UNCHANGED <<server, connected, dialect, upstream, req, logCh, batch, usage, counted>>
  BY FailuresEffect DEF IInv
<1>2. /\ IsFiniteSet(failCh) /\ IsFiniteSet(failBatch) /\ failCh \cap failBatch = {}
      /\ failCh \cup failBatch \subseteq Requests \ Unclassified
      /\ Cardinality(failCh) \in Nat /\ Capacity \in Nat /\ Cardinality(failCh) <= Capacity
  BY FS_CardinalityType, UsageAssumption DEF IInv, QueueInv, TypeOK, UsageAssumption
<1>3. SentinelInv'
  BY <1>1 DEF IInv, SentinelInv, At
<1>4. TokenInv'
  BY <1>1 DEF IInv, TokenInv, Reported
<1>5. ASSUME Moves(failCh, failBatch, failCh', failBatch')
      PROVE  TypeOK' /\ QueueInv' /\ RecordInv'
  <2>1. PICK r \in failCh :
            /\ ~(Cardinality(failBatch) + 1 >= BatchSize)
            /\ failCh' = failCh \ {r} /\ failBatch' = failBatch \cup {r}
            /\ UNCHANGED tables
    BY <1>5 DEF Moves
  <2>2. /\ IsFiniteSet(failCh') /\ Cardinality(failCh') <= Capacity
        /\ IsFiniteSet(failBatch') /\ Cardinality(failBatch') < BatchSize
        /\ failCh' \cap failBatch' = {} /\ failCh' \cup failBatch' = failCh \cup failBatch
    <3>1. /\ IsFiniteSet(failCh \ {r}) /\ Cardinality(failCh \ {r}) <= Cardinality(failCh)
          /\ Cardinality(failCh \ {r}) \in Nat
      BY <1>2, TakeKeeps
    <3>2. IsFiniteSet(failBatch \cup {r}) /\ Cardinality(failBatch \cup {r}) < BatchSize
      BY <1>2, <2>1, BatchKeeps, UsageAssumption
    <3>3. Cardinality(failCh \ {r}) <= Capacity
      BY <1>2, <3>1
    <3> QED
      BY <1>2, <2>1, <3>1, <3>2, <3>3
  <2>3. TypeOK' /\ QueueInv'
    BY <1>1, <2>1, <2>2 DEF IInv, TypeOK, QueueInv
  <2>4. \A q \in Requests : InQueue(q)' <=> InQueue(q)
    BY <1>1, <2>2 DEF InQueue
  <2> QED
    BY <1>1, <2>1, <2>2, <2>3, <2>4 DEF IInv, RecordInv, At
<1>6. ASSUME NEW S, Writes(S, failCh, failBatch, failCh', failBatch'),
             failures' \in {failures, Add(failures, S)}
      PROVE  TypeOK' /\ QueueInv' /\ RecordInv'
  <2>1. /\ IsFiniteSet(failCh') /\ Cardinality(failCh') <= Capacity /\ failCh' \subseteq failCh
        /\ failBatch' = {} /\ failCh' \cap S = {} /\ S \subseteq failCh \cup failBatch
        /\ lost' \in {lost, lost \cup S}
    BY <1>2, <1>6, TakeKeeps DEF Writes
  <2>2. failures \in [Requests -> Nat]
    BY DEF IInv, TypeOK
  <2>3. /\ failures' \in [Requests -> Nat]
        /\ \A q \in Requests :
              failures'[q] \in {failures[q], IF q \in S THEN failures[q] + 1 ELSE failures[q]}
    BY <1>6, <2>2, AddEffect
  <2>4. TypeOK' /\ QueueInv'
    BY <1>1, <1>2, <2>1, <2>3, EmptyBatch, UsageAssumption DEF IInv, TypeOK, QueueInv
  <2>5. ASSUME NEW q \in Requests
        PROVE  /\ ~At(q, "done") \/ q \in Unclassified =>
                     ~InQueue(q)' /\ usage[q] = 0 /\ failures'[q] = 0
               /\ ~At(q, "done") => counted[q] = 0
               /\ q \in logCh \cup batch => req[q].ok /\ usage[q] = 0 /\ counted[q] = 0
               /\ q \in failCh' => ~req[q].ok /\ failures'[q] = 0
               /\ usage[q] > 0 => req[q].ok
               /\ failures'[q] > 0 => ~req[q].ok
               /\ usage[q] <= counted[q] /\ counted[q] <= 1 /\ failures'[q] <= 1
    <3>1. failures[q] \in Nat /\ failures'[q] \in Nat
      BY <2>2, <2>3
    <3>2. /\ ~At(q, "done") \/ q \in Unclassified => ~InQueue(q) /\ usage[q] = 0 /\ failures[q] = 0
          /\ ~At(q, "done") => counted[q] = 0
          /\ q \in logCh \cup batch => req[q].ok /\ usage[q] = 0 /\ counted[q] = 0
          /\ q \in failCh \cup failBatch => ~req[q].ok /\ failures[q] = 0
          /\ usage[q] > 0 => req[q].ok
          /\ failures[q] > 0 => ~req[q].ok
          /\ usage[q] <= counted[q] /\ counted[q] <= 1 /\ failures[q] <= 1
      BY DEF IInv, RecordInv
    <3>3. InQueue(q)' => InQueue(q)
      BY <1>1, <2>1 DEF InQueue
    <3>4. CASE q \in S
      <4>1. q \in failCh \cup failBatch /\ InQueue(q) /\ q \notin failCh'
        BY <2>1, <3>4 DEF InQueue
      <4>2. failures'[q] \in {failures[q], failures[q] + 1}
        BY <2>3, <3>4
      <4> QED
        BY <3>1, <3>2, <4>1, <4>2
    <3>5. CASE q \notin S
      <4>1. failures'[q] = failures[q]
        BY <2>3, <3>5
      <4>2. q \in failCh' => q \in failCh
        BY <2>1
      <4> QED
        BY <3>2, <3>3, <4>1, <4>2
    <3> QED
      BY <3>4, <3>5
  <2>6. RecordInv'
    BY <1>1, <2>1, <2>5 DEF RecordInv, At
  <2> QED
    BY <2>4, <2>6
<1>7. TypeOK' /\ QueueInv' /\ RecordInv'
  <2>1. \/ Moves(failCh, failBatch, failCh', failBatch')
        \/ \E S : /\ Writes(S, failCh, failBatch, failCh', failBatch')
                  /\ failures' \in {failures, Add(failures, S)}
    BY FailuresEffect DEF IInv
  <2> QED
    BY <1>5, <1>6, <2>1
<1> QED
  BY <1>3, <1>4, <1>7 DEF IInv

-----------------------------------------------------------------------------
\* The invariant holds at first.
LEMMA InitInvariant == Init => IInv
<1> SUFFICES ASSUME Init PROVE IInv
  OBVIOUS
<1>1. Cardinality({}) = 0 /\ IsFiniteSet({}) /\ Capacity \in Nat /\ BatchSize \in Nat /\ 0 < BatchSize
  BY EmptyBatch, UsageAssumption DEF UsageAssumption
<1>2. \A r \in Requests :
        req[r] = [pc |-> "new", ok |-> FALSE, override |-> FALSE, terminal |-> FALSE,
                  prompt |-> FALSE, completion |-> FALSE, outcome |-> "none"]
  BY DEF Init
<1>3. TypeOK
  BY <1>1 DEF Init, TypeOK, Request, Steps, Outcomes
<1>4. QueueInv
  BY <1>1 DEF Init, QueueInv
<1>5. RecordInv
  BY <1>2 DEF Init, RecordInv, InQueue, At
<1>6. SentinelInv
  BY <1>2 DEF SentinelInv, At
<1>7. TokenInv
  <2>1. \A s \in Streams : upstream[s] = [last |-> None, pipe |-> None, told |-> {}]
    BY DEF Init
  <2> QED
    BY <1>2, <2>1, UsageAssumption DEF TokenInv, Reported, Requests, Frames, UsageAssumption
<1> QED
  BY <1>3, <1>4, <1>5, <1>6, <1>7 DEF IInv

\* Every step keeps it.
LEMMA NextInvariant == IInv /\ [Next]_vars => IInv'
<1> SUFFICES ASSUME IInv, [Next]_vars PROVE IInv'
  OBVIOUS
<1>1. ASSUME NEW r \in Requests, ClientLeaves(r) PROVE IInv'
  <2>1. /\ UNCHANGED <<server, sidecar, req, queues, tables>>
        /\ connected' \subseteq connected
    BY <1>1 DEF ClientLeaves
  <2>2. server' \in {"up", "draining", "down"} /\ connected' \subseteq Requests
    BY <2>1 DEF IInv, TypeOK
  <2> QED
    BY <2>1, <2>2, OutsideKeeps
<1>2. ASSUME NEW r \in Requests, Handler(r) PROVE IInv'
  BY <1>2, ProxyKeeps, MiddlewareKeeps DEF Handler
<1>3. ASSUME NEW s \in Streams, UpstreamSends(s) PROVE IInv'
  BY <1>3, UpstreamKeeps
<1>4. ASSUME NEW s \in Streams, Stream(s) PROVE IInv'
  BY <1>4, TeeKeeps, LLMUsageKeeps DEF Stream
<1>5. CASE Shutdown \/ Exit
  <2>1. /\ UNCHANGED <<connected, sidecar, req, queues, tables>>
        /\ server' \in {"draining", "down"}
    BY <1>5 DEF Shutdown, Exit
  <2>2. server' \in {"up", "draining", "down"} /\ connected' \subseteq Requests
    BY <2>1 DEF IInv, TypeOK
  <2> QED
    BY <2>1, <2>2, OutsideKeeps
<1> QED
  BY <1>1, <1>2, <1>3, <1>4, <1>5, LogsKeep, FailuresKeep, StutterKeeps DEF Next

\* Every reachable state satisfies the invariant.
THEOREM Invariance == Spec => []IInv
  BY InitInvariant, NextInvariant, PTL DEF Spec

\* Queues stay within their capacity and batches below their size, whatever the
\* requests, the order of the writers and the inserts that fail (usage.go).
THEOREM TypeCorrect == Spec => []TypeOK
<1>1. IInv => TypeOK
  BY DEF IInv
<1> QED
  BY <1>1, Invariance, PTL

\* Handler, stream and middleware record a request once at most, on the side that its
\* answer calls for; the counters agree with the rows; and a stream that is recorded
\* as completed has exactly the counts that the sidecar sent, which are both unless the
\* response failed or the stream carries no usage (usage.go, llm.go).
THEOREM MeteringIsSound == Spec => []MeteringSound
<1>1. IInv => MeteringSound
  <2> SUFFICES ASSUME IInv PROVE MeteringSound
    OBVIOUS
  <2>1. \A r \in Requests : usage[r] \in Nat /\ failures[r] \in Nat /\ counted[r] \in Nat
    BY DEF IInv, TypeOK
  <2>2. \A r \in Requests : InHand(r) = IF InQueue(r) THEN 1 ELSE 0
    BY DEF InHand, InQueue
  <2>3. MeteredOnce
    <3> SUFFICES ASSUME NEW r \in Requests
                 PROVE  /\ usage[r] + failures[r] + InHand(r) <= IF r \in Unclassified THEN 0 ELSE 1
                        /\ req[r].pc \in {"streaming", "metering"} =>
                              usage[r] + failures[r] + InHand(r) = 0
                        /\ r \in batch \/ usage[r] > 0 => req[r].ok
                        /\ r \in failBatch \/ failures[r] > 0 => ~req[r].ok
      BY DEF MeteredOnce
    <3>1. /\ ~At(r, "done") \/ r \in Unclassified => ~InQueue(r) /\ usage[r] = 0 /\ failures[r] = 0
          /\ r \in logCh \cup batch => req[r].ok /\ usage[r] = 0 /\ counted[r] = 0
          /\ r \in failCh \cup failBatch => ~req[r].ok /\ failures[r] = 0
          /\ usage[r] > 0 => req[r].ok
          /\ failures[r] > 0 => ~req[r].ok
          /\ usage[r] <= counted[r] /\ counted[r] <= 1 /\ failures[r] <= 1
      BY DEF IInv, RecordInv
    <3>2. InQueue(r) => usage[r] = 0 /\ failures[r] = 0
      BY <2>1, <3>1 DEF InQueue
    <3>3. usage[r] = 0 \/ failures[r] = 0
      BY <2>1, <3>1
    <3> QED
      BY <2>1, <2>2, <3>1, <3>2, <3>3 DEF At
  <2>4. RowsAreCounted
    BY DEF IInv, RecordInv, RowsAreCounted
  <2>5. CompletedHasTokens
    <3> SUFFICES ASSUME NEW s \in Streams, req[s].outcome = "completed"
                 PROVE  /\ req[s].prompt <=> "prompt" \in upstream[s].told
                        /\ req[s].completion <=> "completion" \in upstream[s].told
                        /\ \/ upstream[s].told = Counts
                           \/ upstream[s].told = {} /\ dialect[s] = "OpenAI"
                           \/ upstream[s].last = "failed"
      BY DEF CompletedHasTokens
    <3>1. /\ Reported(s) /\ upstream[s].pipe = None /\ upstream[s].last \in Terminal
          /\ upstream[s].told \subseteq Counts
      BY DEF IInv, TokenInv, TypeOK
    <3>2. Carried(None) = {}
      BY UsageAssumption DEF Carried, Frames, UsageAssumption
    <3>3. req[s].prompt \in BOOLEAN /\ req[s].completion \in BOOLEAN
      BY DEF IInv, TypeOK, Request, Requests
    <3>4. /\ req[s].prompt <=> "prompt" \in upstream[s].told
          /\ req[s].completion <=> "completion" \in upstream[s].told
      BY <3>1, <3>2, <3>3, Zenon DEF Reported
    <3>5. \/ upstream[s].told = Counts
          \/ upstream[s].told = {} /\ dialect[s] = "OpenAI"
          \/ upstream[s].last = "failed"
      <4>1. None \notin Terminal
        BY UsageAssumption DEF Terminal, Frames, UsageAssumption
      <4>2. CASE upstream[s].last = "[DONE]"
        BY <3>1, <4>2 DEF Reported
      <4>3. CASE upstream[s].last = "message_stop"
        BY <3>1, <4>1, <4>3 DEF Reported, Counts
      <4>4. CASE upstream[s].last \in {"usage", "completed", "failed"}
        BY <3>1, <4>4 DEF Reported
      <4> QED
        BY <3>1, <4>2, <4>3, <4>4 DEF Terminal
    <3> QED
      BY <3>4, <3>5
  <2> QED
    BY <2>3, <2>4, <2>5 DEF MeteringSound
<1> QED
  BY <1>1, Invariance, PTL
=============================================================================
