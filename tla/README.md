# Formal models of gotranscribesrv

The Go server in `src/` puts OpenAI-, Deepgram-, ElevenLabs-, Watson- and
Anthropic-compatible APIs in front of two Swift sidecars: `sidecar-audio`
(speech recognition, synthesis, voice activity) and `sidecar-llm` (local language
models). This directory holds TLA+ models of its parts, above all of those whose correctness depends
on the order of concurrent steps, the TLC configurations that check them on small
instances, and theorems about them whose proofs TLAPS checks.

- [1. The system and its parts](#1-the-system-and-its-parts)
- [2. Modules and how they correspond to the code](#2-modules-and-how-they-correspond-to-the-code)
- [3. Runs](#3-runs)
- [4. Fairness](#4-fairness)
- [5. What is proved](#5-what-is-proved)
- [6. Where the code and what is said of it differ](#6-where-the-code-and-what-is-said-of-it-differ)
- [7. What is not modelled](#7-what-is-not-modelled)
- [8. Plan](#8-plan)

`PROJECT.json` is the index: components, runs, the hazard each property is aimed
at, a plausible bug that each checked property catches (`mutants`), and for each
definition the lines of the source it stands for (`map`).

    tlc -workers 2 -config S2S_uninterrupted.cfg MCS2SSession.tla
    tlapm S2SSession_proofs.tla

## 1. The system and its parts

**Realtime speech-to-speech sessions** (`internal/handlers/openai_realtime_s2s.go`).
State: the atomics `responding` and `gen`, the stored cancel function, the ids and
the audio count of the current response, the history, the session settings, token
counters. Operations: client events (`session.update`, `response.create`,
`response.cancel`, `conversation.item.create`), recognizer events
(`speech_started`, `final`), `startResponse`, `interrupt`, the response goroutine
(LLM stream, sentence by sentence through TTS to the client, tool calls), teardown.
Hard: two readers, any number of response goroutines and the handler share all of
it without one lock; an interruption can fall between any two accesses. Correct
means: the flag is never orphaned, one response is audible, an interrupted one
falls silent, a response is announced and ended once, what is called complete is in
the history and in the bill, and sessions drain.

**Log shipping** (`internal/logging`). State: a bounded channel, the atomics
`closed` and the `quit` channel, one consumer. Senders never block and drop when the
channel is full; shutdown drains. Hard: a sender between its check and its send
while the manager closes. Correct means: a queue that keeps order and, when close
returns, has dealt with what it had accepted before.

**Model residency in the LLM sidecar** (`sidecar-llm/.../ModelManager.swift`). An
actor with statuses, runners and the order of last use; `runner(for:)`, `download`,
`unload`, eviction. Hard: an actor is reentrant at each `await`, so loads,
downloads and unloads of a model interleave. Correct means: bounded residency,
statuses that tell the truth, calls that return.

**Rate limiting** (`internal/middleware/ratelimit.go`). Windows of time stamps per
user under two levels of locks, and a periodic cleanup. Hard: counting and stamping
are two critical sections, and cleanup forgets windows that are in use.

**Streaming transcription in the audio sidecar**
(`sidecar-audio/.../StreamRoute.swift`). State: the audio buffer with its marks, the
voice-activity state, a pending end of speech, a generation for the watchdog, the
transcription gate. Operations: audio frames, partials, endpoint finals, rolling
finals, `Finalize`, `CloseStream`, the watchdog. Hard: each frame is a task of its
own, awaits in the middle, and waits for the gate by polling.

**Realtime streaming in the audio sidecar** (`RealtimeStreamRoute.swift`). State: the
queue of frames that came before the models were loaded, the buffer and the state of
voice activity, the streaming engine. Hard: as above, every message is a task, and
the loader is one more. Correct means: what was sent after `ready` is heard.

**Live sessions** (`internal/handlers/deepgram.go`, `deepgram_realtime.go`,
`openai_realtime.go`, `watson.go`, `ws.go`). Five endpoints, one shape: two goroutines
forward in either direction between the client and one of the sidecar's streams, and
the handler waits for the first to end. They differ in what they pass on and in how they
tear down: `deepgram` and `deepgram_realtime` unblock the other goroutine, join both and
write an exact record, `deepgram` also grants a pending flush a period of grace; the
other three just return. Hard: half-closed and stalled clients, a dying sidecar, results
that race flushes, counters two goroutines share.

**Responses API and conversations** (`internal/handlers/responses.go`,
`conversations.go`). State: rows in Postgres: conversations, their items, and a
record of each response. A turn loads the items of its conversation, or follows the chain
of `previous_response_id`; it asks the LLM, and stores its record and its items; other
requests post, list and delete items. All of it goes statement by statement, without a
transaction. Hard: concurrent turns, statements that fail, a streamed answer that is
stored after it ended, cursors that others delete. Correct means: items are numbered in
the order of the requests that stored them, a turn sees the turns before it, a chain has
no gap, and a client that pages misses nothing.

**Usage tracking and the LLM proxy** (`internal/middleware/usage.go`,
`internal/handlers/llm.go`). State: two bounded channels, each with a goroutine that
batches rows into the database; a count per stream. A request is recorded by the
middleware when its handler returns, except that an event stream records itself when it
is over: a tee looks for the terminal marker and the counts of three dialects while the
client reads. Hard: full channels, failing inserts, clients that leave, streams without
an end, shutdown. Correct means: every request is recorded at most once and as what it
was, what was accepted is written, and a stream does not outlive its client.

**Voice storage** (`internal/handlers/voices.go`). State: rows with an embedding as a
blob, shared by all nodes, and on each node files that cache it. Operations: clone,
load, delete, and the reconciliation that every node runs at boot. Hard: files and rows
change in separate steps, on any node, while another boots, fails or crashes, and a file
is truncated before it is written. Correct
means: names are unique, no data is lost that nobody deleted, repaired and swept files
stay that way.

**Speech synthesis** (`tts.go`, `openai_tts.go`, `elevenlabs_tts.go`; `TtsRoute.swift`,
`VoiceResolver.swift`). A request without shared state, but with rules in two processes:
the gateway maps dialects, voices, models and formats, the sidecar resolves voice and
backend again, each with a default of its own. Correct means: who asks for a voice gets
it or an error, and one answer.

**Batch transcription and redaction** (`whisper.go`, `asr.go`, `deepgram_prerecorded.go`,
`watson.go`; `internal/pii/redactor.go`). State: a bounded cache of redacted texts that
all requests share. Operations: transcribe, group words into segments (the sidecar by
pauses and speakers, the gateway by regions of speech), redact what is logged, answer. Hard: concurrent misses and evictions, an analyzer that fails, offsets in
two units. Correct means: logs show no entity, segments keep every word.

**Other model managers and engines** of the sidecars: the same reentrancy as above.
**Accounts and administration, assembly, tooling**: little or no shared state of their own.

How they interact. The Go handlers call the sidecars over HTTP and WebSockets; a live
session is a client of StreamRoute or RealtimeStreamRoute, a speech-to-speech session
also of the LLM sidecar and of TTS. Synthesis loads embeddings from voice storage. Every
handler hands log entries to the log manager, transcripts through the redactor, and rows
to the usage tracker; every request passes the rate limiter.

## 2. Modules and how they correspond to the code

One step of a model is one access to shared state, one critical section, one
database statement, or the code an actor runs between two awaits: the pieces
between which other goroutines, tasks or requests can run. A disjunct of `Next` is
named for the function or the branch it stands for; a definition called a mutant
in its comment belongs to no specification.

| Module | Models | Remarks |
|---|---|---|
| `S2SSession` | a realtime session | program counters for the two readers (`startResponse`, `interrupt`), for each response goroutine (`runResponse`, `speakSentence`, `finishToolCallTurn`) and for `handle` |
| `MCS2SSession` | instances | symmetry of responses |
| `S2SSession_proofs` | theorems | see section 5 |
| `LogQueue` | what the log manager promises | a bounded queue that opens, closes and delivers what is due |
| `LogManager` | `SendLog`, `processLogChannel`, `CloseLogManager` | implements `LogQueue` under the mapping `Queue` |
| `LogManager_proofs` | theorems | the refinement, typing |
| `ModelManager`, `MCModelManager` | the actor, cut at its awaits | downloader, compiler and runner are outcomes |
| `RateLimiter`, `MCRateLimiter` | `Middleware`, `getWindow`, `count`, `add`, `cleanup` | time is a bounded counter |
| `RateLimiter_proofs` | theorems | by how much the limit is overrun |
| `StreamRoute`, `StreamWire`, `MCStreamRoute` | frames, control messages, watchdog, finals and their gate | audio is counted in frames; VAD and recognizer results are choices; `StreamWire` is the client's side of it |
| `RealtimeStream`, `RealtimeAudio` | `RealtimeStreamRoute`: frames, the pending queue, VAD, turns, `Finalize`, `CloseStream` | engine and VAD are external; every send is a task; `RealtimeAudio` is the way of the audio |
| `Sidecar_proofs` | theorems | the runner limit and statuses of `ModelManager`, finals of `StreamRoute`, frames of `RealtimeStream` |
| `LiveSession`, `MCLiveSession` | both goroutines and the handler, at any of the five endpoints | client and sidecar are external |
| `LiveSession_proofs` | theorems | usage, flush, close |
| `UsageTracker` | the middleware, the writers' queues, `proxy`, `teeSSE`, shutdown, and the order of the LLM sidecar's frames | a token count is reported or not |
| `UsageTracker_proofs` | theorems | one record of each request |
| `VoiceStorage` | `cloneVoiceCore`, `LoadVoiceData`, `deleteVoiceCore`, `SyncVoiceStorage` on several nodes | an embedding is its size: fits, over, cut or none |
| `VoiceStorage_proofs` | theorems | listings, passes, the sweep; the voice that `Speech` speaks with |
| `Speech` | one request for speech through gateway and sidecar | a voice is the catalog it is in |
| `MCVoices` | instances of `VoiceStorage`, and `Speech` beside it | the two share no state; one is at rest while the other runs |
| `Transcription` | the endpoints that transcribe a file, and the redactor | a text is the widths of its characters in bytes |
| `Conversations` | the statements of turns, posts, deletions and listings on one conversation, and the chains of responses | the database and the LLM are outcomes; a statement is atomic and may fail |
| `Conversations_proofs` | theorems | order, histories, chains, listings |
| `MCConversations` | instances of `Conversations` by scenario, and `Transcription` beside it | as `MCVoices` |

`S2SSession`. `responding`, `gen`, `cancelResp`, `curResponseID` and
`respAudioBytes` are the fields of `s2sSession`; `reader[t]` and `resp[r]` are the
locals of the goroutines, where `r` stands for a response id, its item id and its
cancel function. A guarded send (`sendIfCurrent`) is two steps, `SendCheck` and
`SendWrite`; lists of frames sent one after the other are a queue `todo`. `sent`
counts the events the client was sent and `late` those that were written with a
stale generation; both, and `logged`, only observe. The teardown reads the counters
(`TeardownLog`, which sets `logged`) and closes the connection only after its inserts
(`TeardownClose`); responses go on in between.

`StreamRoute`. `finalizedUpTo`, `lastTranscribed`, `pendingEnd`, `generation`, `vad`
are the fields of `StreamState`; `task` holds the locals of the task of each frame,
control message and watchdog; `gate` is the holder of `TranscriptionGate`. The
actor's methods are atomic, and what a task computed before an await is in its
locals. `heard` and the `from` and `to` of wire events say which frames a
transcription covered. `wire`, and what is promised of it, is in `StreamWire`: a `close`
is its last element, put there by `HangUp` or by the client, and what is sent after it is
dropped.

`RealtimeStream`. `closed`, `ready`, `pending`, `backlog`, `vad` are the fields of
`RealtimeStreamState`; `task[f]` is the task that handles frame *f*, `task[0]` the loader
draining the queue. A send becomes an element of `out` that reaches `seen` in any order.
`pending` and `engine`, which the audio passes, are declared in `RealtimeAudio` beside what
is claimed of them; a frame stands for its audio there.

`LiveSession`. `endpoint` chooses the code that runs; an action names the endpoints it is
for in its guards, and shared ones have none. In `deepgram` a flush requested after *n*
results has `flushAt = n + 1` and is pending until `results` reaches it: the
comparison of time stamps in `flushPending` and `resultAtOrAfter`, unless two of them
are equal. `torn` stands for the closed `done` channel, the closed sidecar connection and
the past read deadline, which are set one after the other with no wait between them.

`UsageTracker`. `req[r]` holds the progress of a request and its `streamUsage`;
`upstream[s]` the last frame the sidecar sent, the one not yet read, and which counts it has
sent (`told`, which only observes); `Follow` is the order of frames in the sidecar's routes,
some of which end a stream without a usage chunk; `logCh`, `batch`
and `failCh`, `failBatch` are the channels with the batches in the hands of their
writers; `usage` and `failures` count rows by request, so that a double record shows.

`VoiceStorage`. Each step is one statement or one file operation, any of which may fail
(`Faults`); writing a file is two, `Truncate` and `Write`, and a file that is `cut` may be
read. `sync[n]` is the pass of node *n* with the rows it listed and the row in hand;
`Boot` may cut it anywhere. `asked` observes which deletions were requested, `spoilt` of
which voices a cut file took the place of the embedding, `left` what a sweep could not
look for or remove.

`Speech`. `ask` is a request, `call` what the gateway makes of it, `heard` what the
sidecar speaks with, `answers` every status written to the client. `Asks` enumerates the
combinations of endpoint, voice, model, format and reference the dialects can express.

`Transcription`. `shown` is what is logged: bytes, each known by its character, and the
marks of placeholders, so that a wrong splice shows which bytes survive. `Spans` are what
the analyzer may find; `Reference` is the redaction that was meant. `cache` and `order`
are the fields of the redactor. A word is known by its region of speech and by whether a
pause or a change of speaker sets it apart; `Segments` is the sidecar's grouping
(`buildSegmentsFromWords`, `enrichTranscript`), `splitSegmentsByVAD` the gateway's.

`Conversations`. A request is a sequence of statements. `rows` and `records` are the
tables `conversation_items` and `response_records`. `chain[t]` holds the locals of
`loadChainItems`, `page[l]` the query of a client that pages, with what it has been given.
An item is the request that made it and its place there; `first` is the id of a
request's first item, which for those in `Resent` may be that of an item the client was
given before. `follows`, `after`, `answered`, `removed` and `present` record which
requests had stored their items, or had answered, when another came, and which items were
deleted, or there when a listing began; they only observe. `MCConversations` plays one of
`Scenarios`, sets of requests, in each behaviour.

## 3. Runs

Passing runs:

| Run | Question |
|---|---|
| `S2S_interrupted` | with two responses and interruptions from both readers: `FlagHasOwner` (an orphaned flag would refuse every later turn), `OneAudible`, `LeakBounded`, and `CompletedIsRecorded` (an answer reported complete is in the history) |
| `S2S_uninterrupted` | without interruptions, whatever LLM and TTS do and whenever the client disconnects: `OneInFlight`, `DoneOnce`, `EndIsTold` (no response ends without a word to the client, wherever LLM or TTS break off), `UsageComplete` (the counters, when the teardown reads them, hold the tokens of every response reported complete by then), `TurnEnds` (a response that nothing outside holds up for ever lets go of the flag) |
| `LogManager` | `ImplementsQueue`, `CloseReturns`, `AcceptedIsShipped` (what is in the channel while the consumer lives is shipped) |
| `Models` | four overlapping calls on three models of which two may be resident: `ResidencySound` (no more than `MaxResident` runners, and a status in progress has a call behind it) |
| `RateLimiter` | by how much concurrent requests and cleanup can overrun the limit: `OverrunBounded` (beyond it, those counted before the first was added, those inside when a round of cleanup removes their window, and those inside since before the interval whose window an earlier round removed) |
| `Stream` | frames, rolling finals, `Finalize`, `CloseStream` and watchdog: `FinalsInOrder` (finals cover successive stretches), `FinalizeAnswered` (unless the connection is closed before), and `EndpointFires` for a client that falls silent |
| `Realtime` | frames before, while and after the models load: `HeardOnce` (the engine is given no frame twice, and none that is still queued) and `ReadyMeansHeard` |
| `Live` | all five endpoints, with a client and a sidecar that may stall, fail or leave at any point: `UsageExact`, `FlushNotCut`, `CloseAnswered`, `SessionEnds` |
| `Usage` | streams of each dialect, plain, failing and unclassified requests: `MeteringSound` (recorded once and as what it was, counted if it has a row, complete with the counts that the sidecar sent), `AcceptedIsWritten`, `AbandonedEnds` |
| `Voices` | two nodes clone, load, delete and boot, operations fail and files are cut short: `ListedIsUsable` (names are unique and listed voices have their data somewhere, but for those asked to be deleted and those `spoilt`), `SyncRepairs` (but for those `spoilt`), `SweptStayGone` (but for files that could not be removed); and for every request for speech `VoiceHonoured` (a voice named on its backend is spoken or refused everywhere; a chosen backend and a cloned voice are kept in the compatible dialects, where the answer is not streamed raw) |
| `Conversations` | `TurnOrder` (`seq` keeps the order of what was stored one after the other), `HistoryComplete` (a plain request that was answered is in the history of later turns), `ChainSound` (a chain of responses is a line without gaps, as long as the records allow), `ListingComplete` (a client that follows the cursors is given every item, and, if none it holds is deleted, none twice); and for requests that transcribe `LogsRedacted` and `SegmentsKeepWords` |

`Speech_answered_twice` is meant to fail; see section 6. The type invariants, where a
run checks one, also bound queues and channels; all are proved, and those of `LogManager`, `ModelManager`, `StreamRoute`, `RealtimeStream`,
`Conversations` and `RateLimiter` head supplementary configurations.

Each passing run also has a mutant per property: the definition it names, changed
as a plausible slip would change it, makes TLC report that property. The mutants stand
next to the definitions they change.

Bounds. Constants are small sets of model values and the counters named in the
modules, chosen so that every conflict the properties speak of occurs.

- Speech-to-speech: two responses suffice for every race between an old and a new one
  (only `S2S_overlap` of section 6 has three, because the flag must be cleared under the
  second to admit a third). In `S2S_interrupted` the client starts the responses
  (`MaxHistory = 0`: no user turn enters the history) and both readers interrupt them; in
  `S2S_uninterrupted` user turns race requests, and one sentence and one audio frame give
  a failure or a disconnect every place it can fall.
- Log: a buffer of two with four entries fills, drops, drains and leaves late senders.
- Models: three models of which two may be resident, with four calls, evict each other
  while they load, and also meet further calls for the same model.
- Rate limiter: a limit of one, seven requests of which two may be between the count and
  the stamp at once, an interval and a period of one tick; in two ticks there is room for
  two rounds of cleanup, so that the three terms of `OverrunBounded` come together, and
  its bound, of six, is reached.
- StreamRoute: two frames cover a speech with its end, the silence after it and the next
  segment; a Finalize and a CloseStream (`MaxMessages = 3`) compete with each other, the
  endpoint and its watchdog for the gate. RealtimeStreamRoute: with two frames one can overtake the other, and the
  loader, at each await.
- Live sessions: one audio frame, one Finalize, one CloseStream or Configure, and one
  event the sidecar emits unasked (two at `openai_realtime`, whose turns take several): an
  earlier final, or one that answers nothing, can meet the flush.
- Usage: channels of one with batches of two fill, drop and leave a batch that only the
  ticker flushes; one stream of each dialect with a classified and an unclassified
  request beside it.
- Voices: two nodes, two requests, two names, the voice of an older version and two to
  come: a clone, a load or a deletion on one node meets the pass of another that boots, or
  of one that has crashed in the middle of its pass and boots again (`MaxBoots = 1`). Of
  the requests and the nodes that boot at first there are two in each behaviour (`Two`),
  and any operation may fail but the count of the sweep (section 6).
  `Speech` needs no bound: all its requests and configurations are initial states.
- Conversations: in each of the first three scenarios a plain turn meets two others of: a
  streamed turn, a post that may repeat an item, a deletion of an item or of the
  conversation; so every pair of statements collides, and two items per request allow an
  append to be cut in the middle. A turn of the conversation with two chained ones, and
  four chained turns, one streamed, make chains longer than the cap (`MaxDepth = 2`). Two
  posts and a deletion against a client with pages of two (`Limit = 2`) make listings
  of several pages, in both orders, whose cursors are deleted; at most one
  cursor of a listing fails to be read.
- Transcription: texts of up to three characters, of one or two bytes, with up to two
  entities anywhere; transcripts of up to three words in two regions of speech. Two
  requests and two texts with a cache of one miss together, evict each other and find
  what the other entered.

`MaxHistory`, `MaxSentences`, `MaxFrames`, `MaxEvents`, `MaxMessages`, `MaxBoots`,
`MaxTime` and `MaxInFlight` bound inputs or counters and appear as guards.
`CHECK_DEADLOCK FALSE` is set throughout: a session, a shutdown and a finite set of
requests all come to an end, and a state in which everything has ended is not an error.
Progress is stated by liveness properties instead.

## 4. Fairness

No input is assumed: clients, peers and databases may stop at any time. What is
assumed is that code which can run runs.

- `S2SSession`: weak fairness of the steps of a response that does not wait for the LLM,
  the TTS or the client (`Held`), and of a reader inside `startResponse`. The code sets no
  time limit on these waits: the context of a response has no deadline, the client that
  reads streams has no timeout, and a write to the socket has none. So `TurnEnds` has as
  its premise that nothing holds a response up for ever; a response that is held keeps the
  flag, and refuses every later one, until it is interrupted or the session ends.
- `LogManager`: weak fairness of the consumer, of a sender that entered the send and
  of a caller inside `CloseLogManager`. A push to Loki ends because of its timeout.
- `StreamRoute`: weak fairness of frame, control and watchdog tasks. Tasks that need
  the gate poll it with a sleep and have no place in a queue, so a task is enabled
  only between two holders: strong fairness of each such task, that is, a poll that
  finds the gate free infinitely often succeeds once. Weak fairness would be too
  little, and `Stream_comments.cfg` (section 6) shows that no order may be assumed.
- `RealtimeStream`: weak fairness of the frames' tasks, the loader and the control
  tasks; the engine answers. Sends are not assumed to be in any order.
- `LiveSession`: weak fairness of the two goroutines and of the handler, none of
  client and sidecar. `SessionEnds` has the condition it needs as its premise: from some
  time on the client takes what is written to it, or is gone. `AlwaysEnds`, without that
  premise, does not hold (section 6).
- `UsageTracker`: weak fairness of the writers (their tickers fire), of the middleware
  and of the tee, which is scheduled when the client's connection can be written or has
  gone; none of the sidecar, which has no time limit either. `AbandonedEnds` has as its
  premise that it does not hang in the middle of the stream (`KeepsSending`): it sends a
  next frame or breaks off, but never needs to send a last one.

The other modules have no fairness: their properties are about safety.

## 5. What is proved

The theorems hold for every value of the constants that the named assumption of the
module allows: any number of requests, responses, entries, nodes, voices or frames, and any
of the bounds that the runs fix. TLC evaluates the assumptions on every run. Each proofs
module has one theorem `Invariance`, `Spec => []IInv`, whose `IInv` strengthens the
properties to something every step keeps, and takes the others from it. TLC checked each
`IInv` on the instance of a run before it was proved. `Sidecar_proofs` is about three
components that share no state: beside `ModelManager`, whose definitions it uses as they
are, it instantiates `StreamRoute` as `SR` and `RealtimeStream` as `RT`, with
`StreamInvariance` and `RealtimeInvariance` in the place of `Invariance`; there the
assumption is a hypothesis of the theorem, and no stronger than that of the module.

| Module, assumption | Theorem | States |
|---|---|---|
| `S2SSession_proofs`, `ConstantsAssumption` | `TypeCorrect` | `Spec => []TypeOK` |
| | `FlagAlwaysHasOwner` | `Spec => []FlagHasOwner` |
| | `AtMostOneAudible` | `Spec => []OneAudible` |
| | `LeakAlwaysBounded` | `Spec => []LeakBounded` |
| | `CompletedAlwaysRecorded` | `Spec => []CompletedIsRecorded` |
| | `OneAtATime` | `Spec => []OneInFlight`, if nothing is interrupted |
| | `AtMostOneDone` | `Spec => []DoneOnce`, if nothing is interrupted |
| | `UsageAlwaysComplete` | `Spec => UsageComplete`, if nothing is interrupted |
| | `EndIsAlwaysTold` | `Spec => []EndIsTold`, if nothing is interrupted and the events it is about are observed |
| `LogManager_proofs`, `LogAssumption` | `TypeCorrect` | `Spec => []TypeOK` |
| | `QueueImplemented` | `Spec => ImplementsQueue`, that is, `Queue!Spec` |
| `UsageTracker_proofs`, `UsageAssumption` | `TypeCorrect` | `Spec => []TypeOK` |
| | `MeteringIsSound` | `Spec => []MeteringSound` |
| `Sidecar_proofs`, `ModelAssumption` | `TypeCorrect` | `Spec => []TypeOK` |
| | `ResidencyIsSound` | `Spec => []ResidencySound` |
| `NoTask \notin SR!Tasks` | `StreamTypeCorrect` | `SR!Spec => []SR!TypeOK` |
| | `FinalsAreInOrder` | `SR!Spec => []FinalsInOrder` |
| `MaxFrames \in Nat` | `RealtimeTypeCorrect` | `RT!Spec => []RT!TypeOK` |
| | `FramesHeardOnce` | `RT!Spec => []HeardOnce` |
| `Conversations_proofs`, `ConversationAssumption` | `TypeCorrect` | `Spec => []TypeOK` |
| | `TurnsInOrder` | `Spec => []TurnOrder` |
| | `HistoryIsComplete` | `Spec => []HistoryComplete` |
| | `ChainIsSound` | `Spec => []ChainSound` |
| | `ListingIsComplete` | `Spec => []ListingComplete` |
| `LiveSession_proofs`, `LiveAssumption` | `TypeCorrect` | `Spec => []TypeOK` |
| | `UsageIsExact` | `Spec => []UsageExact` |
| | `FlushIsNotCut` | `Spec => []FlushNotCut` |
| | `CloseIsAnswered` | `Spec => []CloseAnswered` |
| `RateLimiter_proofs`, `LimiterAssumption` | `TypeCorrect` | `Spec => []TypeOK` |
| | `OverrunIsBounded` | `Spec => []OverrunBounded` |
| `VoiceStorage_proofs`, `VoiceAssumption` | `TypeCorrect` | `Spec => []TypeOK` |
| | `ListingIsUsable` | `Spec => []ListedIsUsable`, if the count of the sweep does not fail |
| | `PassRepairs` | `Spec => []SyncRepairs` |
| | `SweptStaysGone` | `Spec => []SweptStayGone` |
| | `VoiceIsHonoured` | `SP!Spec => []VoiceHonoured` (`SP` is `Speech`) |

**`S2SSession`.** That the flag has an owner needs to know that a reader between its
compare-and-swap and its `go` statement holds a claimed response, and that no two readers
hold the same one (`ClaimInv`); that generations differ needs that none is ahead of `gen`
(`GenInv`); that at most one event leaks needs that a response whose generation is stale
and that is not past its check has not leaked yet, and that afterwards it is on its way
out (`LeakInv`). `CompletionInv` follows an answer from its entry in the history to the
event that reports it. The proof has one step per action, grouped by reader, response and
handler, with a lemma for the effect of each helper (`Queue`, `Dealt`, `Deliver`).

Four of the properties are about sessions in which nothing is interrupted
(`Uninterrupted`: no `Interruptions`, and a client that sends no `response.cancel`), as in the run that
checks them; with interruptions the first and the third fail (`S2S_overlap`) and so does
the second (`S2S_barge_in`). There `SerialInv` says that at most one response is live, and
that the flag is set as long as one is; so the unlocked additions to the counters are in
order (`CountInv`), and one place sends the `done` of a response (`DoneInv`). `TellInv` says where a response
must be that has told a present client neither its completion nor an error: on its way to
one of them.

**`LogManager`.** Initial states map to initial states, and each step maps to a step of
`LogQueue` or to a stutter, under an invariant that relates what was accepted to what was
shipped, held and buffered, and says what the consumer still owes once `quit` is closed.
The type invariant holds the channel to its capacity.

**`UsageTracker`.** A record is in one place at a time (`QueueInv`), and nothing is queued,
written or counted of a request before it is done (`RecordInv`), which needs that a stream
that was begun is left to the stream by the middleware (`SentinelInv`). `TokenInv` reads
the counts a stream has had reported off the last frame that was sent and the one that is
not yet read: in each dialect the counts, if the stream has any, precede the terminal marker.

**`ModelManager`.** Eviction chooses by times of last use and residency is about runners;
`ReachableInv` says that what is resident has such a time. A nonempty set of models with
times has a least recently used one (`LeastRecent`), so a load that finds the budget spent
evicts one before it adds its own.

**`StreamRoute`.** Who transcribes holds the gate, and only the holder does (`GateInv`), so
the segment it read on taking the gate still begins at the mark `finalizedUpTo` when its
final is sent (`SegmentInv`), however many frames came in its awaits. Between sending a
final and moving the mark lies an await: in it the final on the wire is ahead of the mark,
and the one task that has `sent` it is still at the mark, holding the gate (`SentInv`,
`WireInv`). So the next final starts no earlier than the last ended. All the steps that
leave gate, mark, wire and segments alone are one lemma (`QuietKeeps`); what is left are
four: a task takes the gate, sends, moves the mark, or gives the gate up.

**`RealtimeStream`.** A task carries its frame until it queues it or gives it to the engine,
and the loader's task what it drained (`CarryInv`). What a task has parted with is in the
queue, with the loader or in the engine, in one of these only, and the task is over
(`PlaceInv`); so neither an append that comes late nor the drain gives a frame twice. The
types bound the VAD's buffer and state by the number of frames, which needs all of what a
chunk can be counted together: not yet buffered, queued, in the buffer, being judged, or
judged (`ChunkInv`). It also says so of the state that each task in the middle of judging
has read, since that is what it will write back, whoever wrote in between.

**`Conversations`.** `WriterInv` tells how many of its items a request has stored, `SeqInv`
how their numbers follow from the one it read: the items of a request are consecutive, and
those of the requests it follows are below the number it read. `HistoryInv` says that what
was stored is there or was removed. For chains, `RecordInv` says that a record names only
a response that had been answered, and `WalkInv` that what was found so far is a line,
which is full, cut by a failed read, or exhausted when the walk ends. `BoundInv`, that
there are finitely many rows with a greatest number, is what makes `MAX(seq)` mean
something. For listings, `PageInv` splits the rows at the cursor of each client: an item
that was there when the client began and that it was not given is beyond it (`Remaining`),
and no item it was given is (`Passed`), unless one of those is gone. Rows are numbered from
one, since the query of a first page has 0 in the place of a cursor.

**`LiveSession`.** `ErrInv` and `PlaceInv` relate the three program counters: the handler
goes on only after one goroutine has reported its end, and joins both before it writes the
record (`UsageInv`). `FlushInv`: the handler that waits waits for the last flush, and none
is requested after. For `CloseAnswered`, `PassageInv` follows the one CloseStream on its way
through socket, goroutine and connection, with nothing behind it if it was the last frame;
`CloseInv` then says that nothing else has ended the session, and the sidecar's `done` is
still to be passed on.

**`RateLimiter`.** `Entitled`, the requests counted or admitted in the present window, are
at most `Limit + MaxInFlight - 1`: the last one counted found fewer than `Limit` stamps, and
all others that were counted are in flight. Beside them only those that hold a removed
window can be admitted: those `caught` inside when the last round of cleanup removed
theirs, and those that have been inside since before the interval (`Across`), at most
`MaxInFlight` each, since a window is removed only when its stamps are two intervals old
(`StampInv`) and rounds are at least an interval apart (`Period >= Interval`; the source has
a minute and five). The bound is reached (section 3). An earlier statement of it, with two
times `MaxInFlight`, was met by a smaller instance in TLC and did not survive the proof: it
overlooked that a request can sleep through two rounds of cleanup.

**`VoiceStorage`.** What a request or a pass has read and is yet to use still holds of the
row, or was mended since (`OpInv`, `Known` in `PassInv`); a new id belongs to one request
(`NewIdInv`), and names are unique over deleted rows too (`NameInv`). A pass that listed the
voice of the older version has settled it, has it in hand or has yet to come to it
(`RepairInv`); on a node that came up after a deletion nothing holds the voice that could
write its file again, and its file is gone, about to be swept, or among those `left`
(`SweepInv`). A blob is never cut unless the voice is `spoilt` (`LegacyInv`); a file may
be, and then the blob is there, or another file is whole, or the pass that cut it has the
embedding in memory (`KeepInv`). That the data of a listed voice are somewhere
is kept only if a failing count is excluded (`"count" \notin Faults`): otherwise the sweep
takes the only copy, which `Voices_comments` shows.

**`Speech`.** The model is finite and TLC goes through it; the proof says why it holds. What
the gateway asks of the sidecar names the voice that was asked for, or the one its alias
stands for, with the backend of its dialect, or carries the embedding (`CallInv`).
`VoiceResolver` answers only with the default voice on the backend it was given or with the
voice that was named on its own, and never exchanges an explicit backend (`ResolveRight`).
So what speaks is `Right`, and nothing else is answered with 200 (`SpeechInv`).

Only model-checked:

- every liveness property (`TurnEnds`, `CloseReturns`, `AcceptedIsShipped`,
  `FinalizeAnswered`, `EndpointFires`, `SessionEnds`, `AcceptedIsWritten`, `AbandonedEnds`,
  `ReadyMeansHeard`): fairness and `ENABLED` are out of reach of the provers used;
- `LogsRedacted` and `SegmentsKeepWords`: they are about what folds over texts compute,
  which needs induction over data.

## 6. Where the code and what is said of it differ

Each of these configurations checks statements of a document, a comment or a test,
and TLC finds a behaviour of the code that contradicts each. `Speech_answered_twice` is a
run of `PROJECT.json`, which quotes the statement; the others are supplementary: they run
in seconds with the module in the second column, and the comment above the property says
where the statement is from. TLC stops at the first statement it finds violated: to see
the others of a file, leave that one out.

| Configuration | Module | Property | What happens |
|---|---|---|---|
| `Speech_answered_twice` | `Speech` | `AnsweredOnce` | in the ElevenLabs dialect a missing cloned voice is answered 404, and then synthesized and answered again |
| `Speech_comments` | `Speech` | `StoredVoiceHeard` | raw audio streaming drops the embedding of a cloned voice, and a built-in voice speaks |
| | | `ChosenBackendHeard` | raw audio streaming sends no backend: `model_id` kokoro is spoken by Pocket |
| | | `UnsupportedIsSaid` | a 501 of the sidecar becomes a 502: it is mapped before the branch that looks for it |
| `S2S_barge_in` | `MCS2SSession` | `DoneOnce` | a tool turn and an interruption both send `response.done` |
| | | `NoAudioAfterCancelled` | an audio delta that passed its check is written after `response.cancelled` |
| | | `TruncationAccurate` | `audio_end_ms` counts audio that was not sent |
| `S2S_overlap` | `MCS2SSession` | `OneInFlight` | an interrupted goroutine clears the flag of the response after it, and a third one starts |
| | | `UsageComplete` | an interrupted goroutine and the one after it add to the counters at once, and an addition is lost |
| `S2S_comments` | `MCS2SSession` | `ToolResultFollowsCall` | a tool result precedes its call in the history |
| | | `RefusedOnlyInFlight` | `response.create` right after `response.done` is dropped |
| | | `EntryIsWhole` | a tool turn is billed and reported complete after the counters were read and before the connection is closed |
| | | `SilentAfterTeardown` | a response started during teardown still writes |
| `Log_shutdown` | `LogManager` | `OnePushLeft` | the drain on shutdown may take one timeout for each buffered entry |
| `Models_comments` | `MCModelManager` | `ReadyIsResident` | `ready` without a runner |
| | | `ResidentUntilEvicted` | a failing load removes the runner of another |
| | | `DownloadedMeansUnloaded` | a resident model's status goes back to `downloaded` |
| `RateLimiter_limit` | `MCRateLimiter` | `AtMostLimit` | concurrent requests pass the limit |
| `Stream_comments` | `MCStreamRoute` | `NothingSkipped` | audio that arrives during a final is never transcribed |
| | | `EndpointConsumedOnce` | two tasks emit for one end of speech |
| | | `DoneIsLast` | a final after `done` |
| | | `FinalizeAlwaysAnswers` | a CloseStream overtakes a Finalize, whose answer is dropped since the connection is closed |
| `Realtime_comments` | `RealtimeStream` | `HeardInOrder` | frames reach the engine in another order |
| | | `VadInSequence` | a chunk is judged from a state that is not the one its predecessor left |
| | | `QueuedIsForwarded` | a frame that saw the models not ready is queued after the queue was drained |
| | | `NothingAfterFinish` | a frame's task gives audio to an engine that was finished or released |
| | | `DoneIsLast` | a message arrives after `done` |
| `Live_comments` | `MCLiveSession` | `FlushSurvivesHalfClose` | an earlier final passes for the answer to a Finalize |
| | | `EveryEndHasMetadata` | sessions that the sidecar breaks off end without Metadata |
| | | `ReadErrorIsCause` | a read error is reported for a session the client did not end |
| | | `CloseEarnsMetadata` | a Finalize after CloseStream: the session ends without the Metadata |
| `Live_proxies` | `MCLiveSession` | `NoneLingers` | the handler returns while a goroutine uses the connections and the counters |
| | | `OneWriter` | `session.updated` is written by one goroutine while the other writes an event |
| | | `ItemPerTurn` | events of two turns share an item if the sidecar emits them out of order, as `Realtime_comments` shows it does |
| `Live_stalled` | `MCLiveSession` | `AlwaysEnds` | a client that stops reading blocks teardown for ever |
| `Usage_shutdown` | `UsageTracker` | `SurvivesShutdown` | records are queued when the process ends |
| `Voices_comments` | `MCVoices` | `OversizeRepaired` | the file of a voice another node repaired stays oversize on this node |
| | | `DeleteDropsBlob` | the soft delete keeps the blob |
| | | `DeleteRemovesFile` | the pass at boot, or a load, writes the file again in the middle of a deletion |
| | | `SafeOnEveryBoot` | a pass truncates the file of a voice without a blob in place; it crashes or the write fails, or another pass stores the cut file as the embedding |
| | | `DeletionsPropagate` | a file the sweep fails to remove stays after the deletion |
| | | `DataKept` | a count that fails is taken for no row, and the sweep removes the only copy of a voice |
| `Transcription_comments` | `Transcription` | `FailClosed` | when the analyzer fails, the prompt is logged as it is |
| | | `NeverLeaks` | offsets of characters are used as offsets of bytes |
| | | `OffsetsStayValid` | entities that overlap: an offset lies beyond the shortened text, which panics |
| `Conversations_comments` | `MCConversations` | `SeqOrders` | concurrent appends share numbers |
| | | `LaterTurnsChain` | the next turn may miss a streamed response |
| | | `PreviousIsLoaded` | a read that fails at the first record of a chain leaves the turn without a history, and without an error |
| | | `TurnIsStored` | an item with an id that is stored already ends the append: the answer of the turn is lost, with nothing but a log entry |

Other behaviour that a reader of the checked properties should know of: requests to
paths that `classifyEndpoint` does not name are recorded nowhere (`MeteredOnce` says so);
a deletion removes the file before the row, so that a crash or a failing statement in
between costs a voice without a blob its data (`DataKept` exempts voices whose deletion
was asked for); `AcceptedIsShipped` exempts what a sender that had seen the manager open
puts into the channel after the consumer has gone; a name cannot be given again after its voice was deleted, since the unique
index counts deleted rows; a listing skips items that share their number with the last of
a page, begins again when the item its cursor names is gone, and goes on from the new place
of an item that was deleted and stored again under its id while it was the cursor, so that
what lies between is left out. `ListingComplete` exempts the first and the third, and for
the second promises only that nothing is missing. It had not exempted the third: the
attempt to prove it found the case, for which the instances of section 3 are too small.

## 7. What is not modelled

Payloads: audio samples, transcripts, words, prompts, formats, wording of logs and
of metrics. Access control: accounts, tokens and keys. Within the modelled
components:

- speech-to-speech: the item ids of user turns, cached voices, codecs;
- StreamRoute and RealtimeStreamRoute: diarization, word timing, normalisation of text;
- live sessions: the fields of the events each dialect makes of the sidecar's;
- Responses API: creation and metadata of conversations, reads of one item, requests with
  `store` false;
- LLM proxy: headers, timeouts and the bodies of errors; reports over the usage tables;
- voice storage: quotas, the extraction of embeddings, the fields of listings;
- synthesis: how audio is coded, catalogs of voices and models;
- batch transcription: decoding, times, the formats of answers (SRT, VTT, JSON), and the
  sidecar's routes for files but for the grouping of words.

Actors, atomics and mutexes are taken to be what their languages promise, and memory to
be sequentially consistent at those accesses. The components without a module are listed
in `PROJECT.json` with the reason.

## 8. Plan

In order; each module with its runs, mutants and hazards.

1. Done: `S2SSession`, `LogQueue` and `LogManager`, `ModelManager`, `RateLimiter`,
   `StreamRoute`, `RealtimeStream`, `LiveSession`, `UsageTracker`, `VoiceStorage`,
   `Speech`, `Transcription`, `Conversations`.
2. Done: proofs for every value of the constants, of every type invariant and of every
   safety property of a run but the two of section 5 that are only model-checked.
3. A composition of `LiveSession` with what `StreamRoute` promises in place of its
   external sidecar.
4. The other model managers, which repeat the shape of `ModelManager` without eviction.
5. Pure functions against reference definitions: the sentence splitter, truncation of
   voice embeddings, rates of audio encodings, tool-call parsers.
