----------------------------- MODULE Transcription -----------------------------
(***************************************************************************)
(* The endpoints that transcribe a file (handlers/whisper.go, asr.go,         *)
(* deepgram_prerecorded.go, watson.go) and the redactor of what they log      *)
(* (pii/redactor.go), whose cache all requests share.  A text is known by the *)
(* widths of its characters in bytes; times of words are left out: a word has *)
(* the speech region it is nearest to, and either follows the word before it  *)
(* or comes after a pause or, diarized, from another speaker.  The models of   *)
(* the audio sidecar and the analyzer (Presidio) are external; a text is       *)
(* always analyzed the same way, unless the analyzer fails.                   *)
(***************************************************************************)
EXTENDS Naturals, FiniteSets, Sequences, SequencesExt

CONSTANTS
    Requests,
    CacheSize

Texts == {"t1", "t2"}

VARIABLES
    enabled, \* redaction is configured
    texts,   \* per text: its characters and entities, its words
    cache,   \* redacted texts
    order,   \* cacheOrder
    job      \* per request: its progress and what it logs next to its text

vars  == <<enabled, texts, cache, order, job>>
fixed == <<enabled, texts>>

None == "none"

\* What is logged is a sequence of bytes, each known by the number of its character;
\* these are no characters of a text.  Some entities are longer than a placeholder.
Mark     == <<0>>
Sentinel == <<98>>
Panic    == <<99>>

\* What the analyzer may find: offsets are of characters, and some entities are not
\* sure enough to be redacted.
Spans ==
    {s \in [start : 0..2, end : 1..3, sure : BOOLEAN] :
       s.start < s.end /\ (s.sure \/ s.end = 1)}

First == [region |-> 1, apart |-> FALSE]
Words == [region : 1..2, apart : BOOLEAN]

\* What varies of a text is either what the analyzer finds, offsets beyond its end
\* included, or its words.
Found ==
    {t \in [widths : {<<1>>, <<1, 1, 1>>, <<2, 1>>},
            spans : {S \in SUBSET Spans : Cardinality(S) <= 2}, words : {<<First>>}] :
       Len(t.widths) = 1 => Cardinality(t.spans) <= 1}

Spoken ==
    {t \in [widths : {<<1>>}, spans : {{}}, words : UNION {[1..n -> Words] : n \in 0..3}] :
       t.words # <<>> => t.words[1] = First}

Fixed == [widths |-> <<1>>, spans |-> {}, words |-> <<First>>]

Idle == [pc |-> "new", endpoint |-> None, verbose |-> FALSE, what |-> None, text |-> None,
         shown |-> <<>>, segments |-> <<>>, status |-> 0]

Init ==
    /\ enabled \in BOOLEAN
    /\ texts \in {[t1 |-> t, t2 |-> Fixed] : t \in Found \cup Spoken}
    /\ ~enabled => texts.t1.widths = <<2, 1>>
    /\ cache = << >> /\ order = <<>>
    /\ job = [r \in Requests |-> Idle]

\* The same with no request.
Quiet ==
    /\ enabled = FALSE
    /\ texts = [t1 |-> Fixed, t2 |-> Fixed]
    /\ cache = << >> /\ order = <<>>
    /\ job = [r \in Requests |-> [Idle EXCEPT !.pc = "over"]]

Reply(r, status) == job' = [job EXCEPT ![r] = [Idle EXCEPT !.pc = "over", !.status = status]]

Crash(r) == job' = [job EXCEPT ![r].pc = "over", ![r].status = 500, ![r].shown = Panic]

-----------------------------------------------------------------------------
(* Redactor                                                                *)

\* The bytes of a text: every byte is known by the character it is part of.
Bytes(t) == FlattenSeq([i \in DOMAIN texts[t].widths |-> [b \in 1..texts[t].widths[i] |-> i]])

Raw(t) == IF t = None THEN <<>> ELSE Bytes(t)

\* buf[:s.start] + placeholder + buf[s.end:], which panics if the buffer, shortened
\* before, ends earlier than that.
Splice(buf, s) ==
    IF buf = Panic \/ s.end > Len(buf) THEN Panic
    ELSE SubSeq(buf, 1, s.start) \o Mark \o SubSeq(buf, s.end + 1, Len(buf))

\* Mutant: the leftmost is replaced first.
replaceFromLeft(buf, spans) ==
    LET clean  == {s \in spans : s.end <= Len(buf)}
        sorted == {q \in SetToSeqs(clean) : \A i, j \in DOMAIN q : i < j => q[i].start <= q[j].start}
    IN  {FoldLeft(Splice, buf, q) : q \in sorted}

\* From the rightmost start on; entities of one start come in any order.
replace(buf, spans) ==
    LET clean  == {s \in spans : s.end <= Len(buf)}
        sorted == {q \in SetToSeqs(clean) : \A i, j \in DOMAIN q : i < j => q[i].start >= q[j].start}
    IN  {FoldLeft(Splice, buf, q) : q \in sorted}

Sure(t) == {s \in texts[t].spans : s.sure}

\* The oldest entry makes room, unless the text is there already.
cachePut(t, redacted) ==
    LET kept == IF t \notin DOMAIN cache /\ Len(order) >= CacheSize THEN Tail(order) ELSE order
        in   == (DOMAIN cache \ (Range(order) \ Range(kept))) \cup {t}
    IN  /\ order' = IF t \in DOMAIN cache THEN order ELSE Append(kept, t)
        /\ cache' = [k \in in |-> IF k = t THEN redacted ELSE cache[k]]

\* The text is logged, and the request goes on.
Log(r, shown) ==
    job' = [job EXCEPT ![r].pc = IF job[r].what = "prompt" THEN "sidecar" ELSE "respond",
                       ![r].shown = shown]

\* RedactText up to the analyzer: disabled, empty and cached texts do not need it.
RedactText(r) ==
    /\ job[r].pc = "redact"
    /\ LET t == job[r].text
       IN  IF ~enabled \/ t = None THEN Log(r, Raw(t))
           ELSE IF t \in DOMAIN cache THEN Log(r, cache[t])
           ELSE job' = [job EXCEPT ![r].pc = "analyze"]
    /\ UNCHANGED <<fixed, cache, order>>

\* When the analyzer fails a transcript is replaced as a whole, and a prompt is not.
AnalyzerFails(r) ==
    /\ job[r].pc = "analyze"
    /\ Log(r, IF job[r].what = "prompt" THEN Raw(job[r].text) ELSE Sentinel)
    /\ UNCHANGED <<fixed, cache, order>>

\* A panic is recovered by the server.
Analyze(r) ==
    /\ job[r].pc = "analyze"
    /\ \E redacted \in replace(Bytes(job[r].text), Sure(job[r].text)) :
          IF redacted = Panic THEN Crash(r) /\ UNCHANGED <<cache, order>>
          ELSE Log(r, redacted) /\ cachePut(job[r].text, redacted)
    /\ UNCHANGED fixed

-----------------------------------------------------------------------------
(* The handlers                                                            *)

\* The audio is missing, too large or cannot be read, or the sidecar is asked.
Received(r, endpoint, rejections) ==
    /\ job[r].pc = "new"
    /\ \/ \E status \in rejections : Reply(r, status)
       \/ job' = [job EXCEPT ![r] = [Idle EXCEPT !.pc = "sidecar", !.endpoint = endpoint]]

TranscribeFile(r) == Received(r, "asr", {422, 413, 500})

\* Audio comes in the body or from a URL, which may fail like a body that is empty.
Listen(r) == Received(r, "listen", {400, 413})

Recognize(r) == Received(r, "recognize", {400, 413})

\* What the request gives as a prompt is redacted for the log first.
Transcriptions(r) ==
    /\ job[r].pc = "new"
    /\ \/ \E status \in {422, 413, 500} : Reply(r, status)
       \/ \E t \in Texts \cup {None}, verbose \in BOOLEAN :
             job' = [job EXCEPT ![r] =
               [Idle EXCEPT !.pc = IF t = None THEN "sidecar" ELSE "redact", !.verbose = verbose,
                            !.endpoint = "whisper", !.what = "prompt", !.text = t]]

Receive(r) ==
    /\ Transcriptions(r) \/ TranscribeFile(r) \/ Listen(r) \/ Recognize(r)
    /\ UNCHANGED <<fixed, cache, order>>

Outage(endpoint) == IF endpoint = "recognize" THEN 503 ELSE 502

\* Groups of consecutive words: a group is flushed before each word in splits, and the
\* last at the end.
Grouped(words, splits) ==
    LET Step(g, i) ==
          IF i \in splits
          THEN [flushed |-> Append(g.flushed, g.open), open |-> <<i>>]
          ELSE [g EXCEPT !.open = Append(@, i)]
        last == FoldLeft(Step, [flushed |-> <<>>, open |-> <<>>], [i \in DOMAIN words |-> i])
    IN  IF last.open = <<>> THEN <<>> ELSE Append(last.flushed, last.open)

\* Mutant: the last segment is not flushed.
SegmentsDropLast(words) ==
    LET all == Grouped(words, {i \in 2..Len(words) : words[i].apart})
    IN  IF all = <<>> THEN <<>> ELSE Front(all)

\* The segments of the sidecar end at a pause or, diarized, where the speaker changes.
Segments(words) == Grouped(words, {i \in 2..Len(words) : words[i].apart})

Changes(words) == {i \in 2..Len(words) : words[i].region # words[i - 1].region}

\* Mutant: the last group is not flushed.
splitDropsLast(words) ==
    LET all == Grouped(words, Changes(words))
    IN  IF all = <<>> THEN <<>> ELSE Front(all)

\* Consecutive words of one region make a segment.
splitSegmentsByVAD(words) == Grouped(words, Changes(words))

\* The number of speech regions, asked for at the same time for a verbose answer, or 0
\* if they were not, or if that failed.
Regions(r) == IF job[r].verbose THEN 0..2 ELSE {0}

TranscribeFails(r) ==
    /\ job[r].pc = "sidecar"
    /\ Reply(r, Outage(job[r].endpoint))
    /\ UNCHANGED <<fixed, cache, order>>

\* The speech regions refine a coarse segmentation.
Transcribe(r) ==
    /\ job[r].pc = "sidecar"
    /\ \E t \in Texts \cup {None}, regions \in Regions(r) :
         LET words == IF t = None THEN <<>> ELSE texts[t].words
             said  == Segments(words)
             split == splitSegmentsByVAD(words)
             fine  == regions > 1 /\ Len(said) <= 2 /\ Len(split) > Len(said)
         IN  job' = [job EXCEPT ![r] =
               [Idle EXCEPT !.pc = "redact", !.what = "transcript", !.text = t,
                            !.segments = IF fine THEN split ELSE said]]
    /\ UNCHANGED <<fixed, cache, order>>

Respond(r) ==
    /\ job[r].pc = "respond"
    /\ Reply(r, 200)
    /\ UNCHANGED <<fixed, cache, order>>

-----------------------------------------------------------------------------
Redactor(r) == RedactText(r) \/ AnalyzerFails(r) \/ Analyze(r)

Handler(r) ==
    Receive(r) \/ TranscribeFails(r) \/ Transcribe(r) \/ Redactor(r) \/ Respond(r)

Next == \E r \in Requests : Handler(r)

Spec == Init /\ [][Next]_vars

-----------------------------------------------------------------------------
(* Properties                                                              *)

Valid(t) == {s \in Sure(t) : s.end <= Len(texts[t].widths)}

Disjoint(t) == \A s, u \in Valid(t) : s = u \/ s.end <= u.start \/ u.end <= s.start

SingleByte(t) == Range(texts[t].widths) = {1}

Inside(i, s) == s.start < i /\ i <= s.end

\* A text of single bytes with a placeholder for every entity.
Reference(t) ==
    FlattenSeq([i \in DOMAIN texts[t].widths |->
      IF \E s \in Valid(t) : i = s.start + 1 THEN Mark
      ELSE IF \E s \in Valid(t) : Inside(i, s) THEN <<>> ELSE <<i>>])

Shown(r) == enabled /\ job[r].shown # <<>>

\* What is logged of a text of single bytes whose entities do not overlap is the
\* text with each entity replaced and nothing else, or, when the analyzer has failed,
\* the sentinel (a prompt: all of it), wherever the redacted text was found.
LogIsRedacted ==
    \A r \in Requests : Shown(r) /\ SingleByte(job[r].text) /\ Disjoint(job[r].text) =>
       job[r].shown \in {Reference(job[r].text),
                        IF job[r].what = "prompt" THEN Raw(job[r].text) ELSE Sentinel}

\* The cache is bounded and its order has every text in it once, although several
\* requests may have missed the same text.
CacheConsistent ==
    /\ IsInjective(order) /\ Range(order) = DOMAIN cache /\ Len(order) <= CacheSize

LogsRedacted == LogIsRedacted /\ CacheConsistent

\* Whether the segments are those of the sidecar, by pauses and speakers, or were
\* replaced by a split at the speech regions, together they are the words of the
\* transcript, each once and in order.
SegmentsKeepWords ==
    \A r \in Requests : job[r].what = "transcript" /\ job[r].text # None =>
       FlattenSeq(job[r].segments) = [i \in DOMAIN texts[job[r].text].words |-> i]

-----------------------------------------------------------------------------
(* Statements of comments in the code                                      *)

Leaks(r) ==
    \E s \in Valid(job[r].text), i \in DOMAIN texts[job[r].text].widths :
       Inside(i, s) /\ i \in Range(job[r].shown)

\* The redactor is fail-closed, for prompts too (whisper.go, Transcriptions).
FailClosed ==
    \A r \in Requests :
       Shown(r) /\ SingleByte(job[r].text) /\ Disjoint(job[r].text) => ~Leaks(r)

\* Log entries never leak unredacted entities (redactor.go), whose offsets are of
\* characters (presidio.go).
NeverLeaks ==
    \A r \in Requests :
       Shown(r) /\ job[r].what = "transcript" /\ Disjoint(job[r].text) => ~Leaks(r)

\* Offsets stay valid as the text is mutated from right to left (redactor.go).
OffsetsStayValid == \A r \in Requests : job[r].shown # Panic
=============================================================================
