---------------------------- MODULE UsageTracker ----------------------------
(***************************************************************************)
(* How requests are metered (internal/middleware/usage.go): the middleware   *)
(* queues a record of a finished request for one of two batch writers, and   *)
(* an LLM request that is answered with an SSE stream (handlers/llm.go and   *)
(* responses.go) meters itself when the stream is over.  Of the LLM sidecar  *)
(* only the order of its frames is modelled; the database and the clients    *)
(* are external; bodies and logs are left out, and a token count is known    *)
(* only as reported by the sidecar or not.  Every request that gets here has *)
(* a user: the API key middleware runs before.                               *)
(***************************************************************************)
EXTENDS Naturals, FiniteSets

CONSTANTS
    Streams,   \* LLM requests that ask for a stream
    Plain,     \* other LLM requests
    Unclassified, \* of Plain: requests to paths that classifyEndpoint does not name
    Capacity,  \* of logCh and failCh
    BatchSize, \* records that make a writer flush
    None       \* no frame

Requests == Streams \cup Plain
Dialects == {"OpenAI", "Responses", "Anthropic"}

\* What tells frames apart; text is any other frame.
Frames == {"text", "usage", "[DONE]", "completed", "failed",
           "message_start", "message_delta", "message_stop"}

ASSUME UsageAssumption ==
    /\ Streams \cap Plain = {}
    /\ Unclassified \subseteq Plain
    /\ {Capacity, BatchSize} \subseteq Nat \ {0}
    /\ None \notin Frames \cup {"EOF"}

VARIABLES
    server,    \* up, draining, or down
    connected, \* clients that are there
    dialect,   \* per stream
    upstream,  \* per stream: the last frame sent, the frame not yet read, and (a
               \* history variable) the counts sent
    req,       \* per request: its progress, status and the streamUsage
    logCh, batch,         \* usage records queued, and in the hands of processLogs
    failCh, failBatch,    \* the same of request logs and processFailures
    usage, failures,      \* rows of the tables, by request
    counted,   \* requests in the Prometheus counters
    lost       \* records dropped at a full channel, or by a failing insert

sidecar == <<dialect, upstream>>
queues  == <<logCh, batch, failCh, failBatch>>
tables  == <<usage, failures, counted, lost>>
vars    == <<server, connected, sidecar, req, queues, tables>>

Steps == {"new", "returned", "streaming", "metering", "done"}
Outcomes == {"none", "completed", "client_disconnected", "upstream_eof"}

Counts == {"prompt", "completion"}

\* prompt and completion: that count has been reported; override: "-" is set.
Request == [pc : Steps, ok : BOOLEAN, override : BOOLEAN, terminal : BOOLEAN,
            prompt : BOOLEAN, completion : BOOLEAN, outcome : Outcomes]

\* Queues are bounded, and no batch is left to grow past its size.
TypeOK ==
    /\ server \in {"up", "draining", "down"}
    /\ connected \subseteq Requests
    /\ dialect \in [Streams -> Dialects]
    /\ upstream \in [Streams -> [last : Frames \cup {None},
                                 pipe : Frames \cup {None, "EOF"},
                                 told : SUBSET Counts]]
    /\ req \in [Requests -> Request]
    /\ logCh \cup failCh \cup batch \cup failBatch \subseteq Requests \ Unclassified
    /\ Cardinality(logCh) <= Capacity /\ Cardinality(failCh) <= Capacity
    /\ Cardinality(batch) < BatchSize /\ Cardinality(failBatch) < BatchSize
    /\ usage \in [Requests -> Nat] /\ failures \in [Requests -> Nat]
    /\ counted \in [Requests -> Nat]
    /\ lost \subseteq Requests

Init ==
    /\ server = "up"
    /\ connected = Requests
    /\ dialect \in [Streams -> Dialects]
    /\ upstream = [s \in Streams |-> [last |-> None, pipe |-> None, told |-> {}]]
    /\ req = [r \in Requests |->
                [pc |-> "new", ok |-> FALSE, override |-> FALSE, terminal |-> FALSE,
                 prompt |-> FALSE, completion |-> FALSE, outcome |-> "none"]]
    /\ logCh = {} /\ batch = {} /\ failCh = {} /\ failBatch = {}
    /\ usage = [r \in Requests |-> 0] /\ failures = [r \in Requests |-> 0]
    /\ counted = [r \in Requests |-> 0]
    /\ lost = {}

At(r, pc) == req[r].pc = pc

running == server # "down"

-----------------------------------------------------------------------------
(* The clients (external) and the LLM sidecar (sidecar-llm/Sources/App)      *)

ClientLeaves(r) ==
    /\ r \in connected /\ At(r, "streaming")
    /\ connected' = connected \ {r}
    /\ UNCHANGED <<server, sidecar, req, queues, tables>>

\* The frames that may follow frame f; a stream may break off after any.  A chat
\* stream ends with a finish chunk with the usage in it; one of the coreml-llm
\* runtime, and one of the legacy completions, with a finish chunk without (a text).
\* Only parseStreamUsage knows of a failed response; the sidecar sends none today.
Follow(d, f) ==
    {"EOF"} \cup
    CASE f = None               -> (CASE d = "OpenAI"    -> {"text", "usage"}
                                      [] d = "Responses" -> {"text"}
                                      [] d = "Anthropic" -> {"message_start"})
      [] f = "message_start"    -> {"text"}
      [] f = "text"             -> {"text"} \cup
                                   (CASE d = "OpenAI"    -> {"usage", "[DONE]"}
                                      [] d = "Responses" -> {"completed", "failed"}
                                      [] d = "Anthropic" -> {"message_delta"})
      [] f = "usage"            -> {"[DONE]"}
      [] f = "message_delta"    -> {"message_stop"}
      [] OTHER                  -> {}

\* The counts that frame f carries.
Carried(f) ==
    {c \in Counts : \/ f \in {"usage", "completed"}
                    \/ f = "message_start" /\ c = "prompt"
                    \/ f = "message_delta" /\ c = "completion"}

UpstreamSends(s) ==
    /\ At(s, "streaming") /\ upstream[s].pipe = None
    /\ \E f \in Follow(dialect[s], upstream[s].last) :
          upstream' = [upstream EXCEPT ![s] =
                           [last |-> IF f = "EOF" THEN @.last ELSE f, pipe |-> f,
                            told |-> @.told \cup Carried(f)]]
    /\ UNCHANGED <<server, connected, dialect, req, queues, tables>>

-----------------------------------------------------------------------------
(* Handlers                                                                *)

\* Mutant: a stream is left to the middleware, too.
proxyNoSentinel(r) ==
    /\ server = "up" /\ At(r, "new")
    /\ \E ok \in BOOLEAN :
          req' = [req EXCEPT ![r].pc = "returned", ![r].ok = ok,
                             ![r].prompt = ok /\ r \in Plain,
                             ![r].completion = ok /\ r \in Plain]
    /\ UNCHANGED <<server, connected, sidecar, queues, tables>>

\* The request is answered by an error (of its own, for a malformed body or no
\* model, a sidecar that is unreachable or fails, or the sidecar's own), or by its
\* body with the usage in it, or a stream is begun, which sets the sentinel "-".
proxy(r) ==
    /\ server = "up" /\ At(r, "new")
    /\ \E ok \in BOOLEAN :
          req' = [req EXCEPT ![r].pc = "returned", ![r].ok = ok,
                             ![r].override = ok /\ r \in Streams,
                             ![r].prompt = ok /\ r \in Plain,
                             ![r].completion = ok /\ r \in Plain]
    /\ UNCHANGED <<server, connected, sidecar, queues, tables>>

\* Mutant: the send is not bounded.
OfferAlways(ch, r) == ch \cup {r}

\* Non-blocking send: the record is dropped when the channel is full.
Offer(ch, r) == IF Cardinality(ch) < Capacity THEN ch \cup {r} ELSE ch

Drop(ch, r) == IF Cardinality(ch) < Capacity THEN lost ELSE lost \cup {r}

\* classifyEndpoint has a name for it, which neither "-" nor the path prevents.
Classified(r) == r \notin Unclassified /\ ~req[r].override

\* The rest of the middleware, after c.Next(); the body stream writer runs later.
Middleware(r) ==
    /\ At(r, "returned")
    /\ req' = [req EXCEPT ![r].pc = IF r \in Streams /\ req[r].ok THEN "streaming" ELSE "done"]
    /\ \/ ~Classified(r) /\ UNCHANGED <<logCh, failCh, lost>>
       \/ /\ Classified(r) /\ req[r].ok
          /\ logCh' = Offer(logCh, r) /\ lost' = Drop(logCh, r)
          /\ UNCHANGED failCh
       \/ /\ Classified(r) /\ ~req[r].ok
          /\ failCh' = Offer(failCh, r) /\ lost' = Drop(failCh, r)
          /\ UNCHANGED logCh
    /\ UNCHANGED <<server, connected, sidecar, batch, failBatch, usage, failures, counted>>

-----------------------------------------------------------------------------
(* Streams                                                                 *)

\* parseStreamUsage, sseIsDone: what a frame reports.  A failed response ends the
\* stream without counts.
parseStreamUsage(u, f) ==
    [u EXCEPT !.prompt     = @ \/ f \in {"usage", "completed", "message_start"},
              !.completion = @ \/ f \in {"usage", "completed", "message_delta"},
              !.terminal   = @ \/ f \in {"usage", "[DONE]", "completed", "failed",
                                         "message_stop"}]

Over(u, outcome) == [u EXCEPT !.pc = "metering", !.outcome = outcome]

\* Mutant: a failed write does not end the stream.
teeSSEGoesOn(s) ==
    /\ running
    /\ At(s, "streaming") /\ upstream[s].pipe # None
    /\ upstream' = [upstream EXCEPT ![s].pipe = None]
    /\ LET f == upstream[s].pipe
           u == parseStreamUsage(req[s], f)
       IN  req' = [req EXCEPT ![s] =
                     IF f = "EOF" THEN Over(u, IF u.terminal THEN "completed" ELSE "upstream_eof")
                     ELSE u]
    /\ UNCHANGED <<server, connected, dialect, queues, tables>>

\* A line is read, parsed, then written; the write or flush fails only when the
\* client has left.
teeSSE(s) ==
    /\ running
    /\ At(s, "streaming") /\ upstream[s].pipe # None
    /\ upstream' = [upstream EXCEPT ![s].pipe = None]
    /\ LET f == upstream[s].pipe
           u == parseStreamUsage(req[s], f)
       IN  req' = [req EXCEPT ![s] =
                     IF f = "EOF" THEN Over(u, IF u.terminal THEN "completed" ELSE "upstream_eof")
                     ELSE IF s \in connected THEN u
                     ELSE Over(u, "client_disconnected")]
    /\ UNCHANGED <<server, connected, dialect, queues, tables>>

\* The counters are advanced whatever becomes of the insert.
LogLLMUsage(s) ==
    /\ running
    /\ At(s, "metering")
    /\ req' = [req EXCEPT ![s].pc = "done"]
    /\ counted' = [counted EXCEPT ![s] = @ + 1]
    /\ \/ usage' = [usage EXCEPT ![s] = @ + 1] /\ UNCHANGED lost
       \/ lost' = lost \cup {s} /\ UNCHANGED usage
    /\ UNCHANGED <<server, connected, sidecar, queues, failures>>

-----------------------------------------------------------------------------
(* The batch writers                                                       *)

Add(table, S) == [r \in Requests |-> IF r \in S THEN table[r] + 1 ELSE table[r]]

\* The counters, then the rows of a whole batch, which a failing insert loses.
flushUsage(S) ==
    /\ counted' = Add(counted, S)
    /\ \/ usage' = Add(usage, S) /\ UNCHANGED lost
       \/ lost' = lost \cup S /\ UNCHANGED usage
    /\ batch' = {}
    /\ UNCHANGED <<failures, failBatch>>

flushFailures(S) ==
    /\ \/ failures' = Add(failures, S) /\ UNCHANGED lost
       \/ lost' = lost \cup S /\ UNCHANGED failures
    /\ failBatch' = {}
    /\ UNCHANGED <<usage, counted, batch>>

\* Mutant: a batch is written only when it is full.
processLogsNoTick ==
    /\ running
    /\ \E r \in logCh :
          /\ logCh' = logCh \ {r}
          /\ IF Cardinality(batch) + 1 >= BatchSize THEN flushUsage(batch \cup {r})
             ELSE batch' = batch \cup {r} /\ UNCHANGED <<tables, failBatch>>
    /\ UNCHANGED <<server, connected, sidecar, req, failCh>>

\* A record is taken, or the ticker fires.
processLogs ==
    /\ running
    /\ \/ \E r \in logCh :
             /\ logCh' = logCh \ {r}
             /\ IF Cardinality(batch) + 1 >= BatchSize THEN flushUsage(batch \cup {r})
                ELSE batch' = batch \cup {r} /\ UNCHANGED <<tables, failBatch>>
       \/ batch # {} /\ flushUsage(batch) /\ UNCHANGED logCh
    /\ UNCHANGED <<server, connected, sidecar, req, failCh>>

processFailures ==
    /\ running
    /\ \/ \E r \in failCh :
             /\ failCh' = failCh \ {r}
             /\ IF Cardinality(failBatch) + 1 >= BatchSize THEN flushFailures(failBatch \cup {r})
                ELSE failBatch' = failBatch \cup {r} /\ UNCHANGED <<tables, batch>>
       \/ failBatch # {} /\ flushFailures(failBatch) /\ UNCHANGED failCh
    /\ UNCHANGED <<server, connected, sidecar, req, logCh>>

-----------------------------------------------------------------------------
(* Shutdown: app.Shutdown() lets the connections that are open finish, then   *)
(* main returns.  Nobody tells the batch writers, and the writer of a stream  *)
(* whose client has left has no connection any more.                         *)

Shutdown ==
    /\ server = "up"
    /\ server' = "draining"
    /\ UNCHANGED <<connected, sidecar, req, queues, tables>>

Exit ==
    /\ server = "draining"
    /\ \A r \in connected : req[r].pc \in {"new", "done"}
    /\ server' = "down"
    /\ UNCHANGED <<connected, sidecar, req, queues, tables>>

-----------------------------------------------------------------------------
Handler(r) == proxy(r) \/ Middleware(r)
Stream(s)  == teeSSE(s) \/ LogLLMUsage(s)

Next ==
    \/ \E r \in Requests : ClientLeaves(r) \/ Handler(r)
    \/ \E s \in Streams : UpstreamSends(s) \/ Stream(s)
    \/ processLogs \/ processFailures \/ Shutdown \/ Exit

Spec == Init /\ [][Next]_vars

\* The goroutines and the ticker run; the sidecar may stop sending at any time.
FairSpec ==
    /\ Spec
    /\ WF_vars(processLogs) /\ WF_vars(processFailures)
    /\ \A r \in Requests : WF_vars(Middleware(r))
    /\ \A s \in Streams : WF_vars(Stream(s))

-----------------------------------------------------------------------------
(* Properties                                                              *)

InHand(r) == IF r \in logCh \cup batch \cup failCh \cup failBatch THEN 1 ELSE 0

\* Handler, stream and middleware between them record a request at most once: as
\* usage if it was answered 200, as a failure if not, and never what the paths
\* do not classify.
MeteredOnce ==
    \A r \in Requests :
       /\ usage[r] + failures[r] + InHand(r) <= IF r \in Unclassified THEN 0 ELSE 1
       /\ req[r].pc \in {"streaming", "metering"} => usage[r] + failures[r] + InHand(r) = 0
       /\ r \in batch \/ usage[r] > 0 => req[r].ok
       /\ r \in failBatch \/ failures[r] > 0 => ~req[r].ok

\* The Prometheus counters never count a request twice, and miss none that has a row.
RowsAreCounted ==
    \A r \in Requests : usage[r] <= counted[r] /\ counted[r] <= 1

\* A stream that is recorded as completed has the counts that the sidecar sent,
\* and no other; which are both, unless the response failed or the stream is one of
\* those that docs/api.md lists as known gaps, which carry no usage.
CompletedHasTokens ==
    \A s \in Streams :
       req[s].outcome = "completed" =>
          /\ req[s].prompt <=> "prompt" \in upstream[s].told
          /\ req[s].completion <=> "completion" \in upstream[s].told
          /\ \/ upstream[s].told = Counts
             \/ upstream[s].told = {} /\ dialect[s] = "OpenAI"
             \/ upstream[s].last = "failed"

\* All of it: what is billed is what was answered.
MeteringSound == MeteredOnce /\ RowsAreCounted /\ CompletedHasTokens

\* A record that was accepted into a queue is written or lost by a failing
\* insert, if the process lives on.
AcceptedIsWritten ==
    \A r \in Requests :
       r \in logCh \cup failCh ~>
          usage[r] + failures[r] > 0 \/ r \in lost \/ server # "up"

\* The sidecar does not hang in the middle of stream s: it sends a next frame, or
\* breaks off.
KeepsSending(s) == []<>(At(s, "streaming") => upstream[s].pipe # None)

\* When its client leaves a stream is ended and metered, even if the sidecar would
\* never stop sending by itself; unless the process exits first, or the sidecar hangs.
AbandonedEnds ==
    \A s \in Streams :
       KeepsSending(s) => (s \notin connected ~> At(s, "done") \/ ~running)

-----------------------------------------------------------------------------
(* Statements of comments in the code                                      *)

\* What has been queued is written before a graceful shutdown is over (main.go).
SurvivesShutdown ==
    server = "down" => logCh \cup failCh \cup batch \cup failBatch = {}
=============================================================================
