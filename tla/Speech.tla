------------------------------- MODULE Speech -------------------------------
(***************************************************************************)
(* One request for speech, from the gateway's dialects (handlers/tts.go,      *)
(* openai_tts.go, elevenlabs_tts.go) through the sidecar's routes             *)
(* (TtsRoute.swift, VoiceResolver.swift) and back.  A voice is known by the   *)
(* catalog it is in; texts, audio and names are left out.  The engines and    *)
(* ffmpeg are external.                                                       *)
(***************************************************************************)
EXTENDS Naturals, Sequences

Backends == {"pocket", "kokoro"}
Batch    == {"tts", "openai", "elevenlabs"}

\* endpoint, voice, model, format, stored (voice_id is that of a cloned voice, which
\* LoadVoiceData finds or not), ref (voice_ref is there), text (it is acceptable).
Asks ==
    {a \in [endpoint : Batch \cup {"elevenlabs_stream"},
            voice : {"default", "pocket", "kokoro", "alias", "unknown"},
            model : Backends \cup {"other"},
            format : {"pcm", "wav", "coded", "bad"},
            stored : {"no", "found", "missing"},
            ref : BOOLEAN, text : BOOLEAN] :
       /\ a.endpoint = "tts" => a.model = "other" /\ a.format = "wav"
       /\ a.endpoint # "tts" => ~a.ref
       /\ a.endpoint = "openai" => a.stored = "no"
       \* In the ElevenLabs dialect the id of a cloned voice is its voice.
       /\ a.endpoint \in {"elevenlabs", "elevenlabs_stream"} /\ a.stored # "no" =>
             a.voice = "unknown"}

VARIABLES
    ask,      \* the request
    engines,  \* the sidecar's engines that loaded
    default,  \* the default backend, of gateway and sidecar
    ffmpeg,   \* it is installed on the gateway
    pc,
    call,     \* what the sidecar is asked for
    said,     \* the status of the sidecar's answer, 0 if there is none
    heard,    \* what speaks, on which backend
    answers   \* the statuses written to the client

vars   == <<ask, engines, default, ffmpeg, pc, call, said, heard, answers>>
fixed  == <<ask, engines, default, ffmpeg>>

NoCall == [voice |-> "default", data |-> FALSE, ref |-> FALSE, backend |-> ""]
Silence == [voice |-> "nothing", backend |-> "none"]

Init ==
    /\ ask \in Asks
    /\ engines \in SUBSET Backends
    /\ default \in [gateway : Backends, sidecar : Backends]
    /\ ffmpeg \in BOOLEAN
    /\ pc = "validate" /\ call = NoCall /\ said = 0 /\ heard = Silence /\ answers = <<>>

\* The same with no request.
Quiet ==
    /\ ask = CHOOSE a \in Asks : TRUE
    /\ engines = {} /\ default = [gateway |-> "pocket", sidecar |-> "pocket"] /\ ffmpeg = FALSE
    /\ pc = "over" /\ call = NoCall /\ said = 0 /\ heard = Silence /\ answers = <<>>

Answer(status) == answers' = Append(answers, status)

-----------------------------------------------------------------------------
(* The gateway's handlers                                                  *)

\* What is wrong with the request itself, or 0; 400 stands for the statuses of
\* validation, which differ from dialect to dialect.
Invalid ==
    IF ~ask.text \/ ask.format = "bad" THEN 400
    ELSE IF ask.format = "coded" /\ ~ffmpeg THEN 501
    ELSE 0

Validate ==
    /\ pc = "validate"
    /\ \/ Invalid # 0 /\ Answer(Invalid) /\ pc' = "over"
       \/ Invalid = 0 /\ pc' = "build" /\ UNCHANGED answers
    /\ UNCHANGED <<fixed, call, said, heard>>

openAIModelToBackend == IF ask.model = "other" THEN default.gateway ELSE ask.model

openAIVoiceToPocket ==
    IF ask.voice = "alias" /\ openAIModelToBackend = "pocket" THEN "pocket" ELSE ask.voice

elevenLabsModelToBackend == IF ask.model = "other" THEN "" ELSE ask.model

BuildOpenAI ==
    /\ pc = "build" /\ ask.endpoint = "openai"
    /\ call' = [NoCall EXCEPT !.voice = openAIVoiceToPocket, !.backend = openAIModelToBackend]
    /\ pc' = "synthesize"
    /\ UNCHANGED <<fixed, said, heard, answers>>

\* The stored embedding takes priority over a voice_ref; the voice name stays.
BuildNative ==
    /\ pc = "build" /\ ask.endpoint = "tts"
    /\ IF ask.stored = "missing" THEN Answer(404) /\ pc' = "over" /\ UNCHANGED call
       ELSE /\ call' = [NoCall EXCEPT !.voice = ask.voice, !.data = ask.stored = "found",
                                      !.ref = ask.ref /\ ask.stored # "found"]
            /\ pc' = "synthesize"
            /\ UNCHANGED answers
    /\ UNCHANGED <<fixed, said, heard>>

\* buildSynthRequest.  elError returns what c.JSON returns, which is nil, so the
\* caller goes on after a 404 as if the request had been built.
BuildElevenLabs ==
    /\ pc = "build" /\ ask.endpoint \in {"elevenlabs", "elevenlabs_stream"}
    /\ LET backend == elevenLabsModelToBackend
       IN  call' = IF ask.stored = "found"
                   THEN [voice |-> "default", data |-> TRUE, ref |-> FALSE,
                         backend |-> IF backend = "" THEN "pocket" ELSE backend]
                   ELSE [NoCall EXCEPT !.voice = ask.voice, !.backend = backend]
    /\ IF ask.stored = "missing" THEN Answer(404) ELSE UNCHANGED answers
    /\ pc' = "synthesize"
    /\ UNCHANGED <<fixed, said, heard>>

-----------------------------------------------------------------------------
(* The sidecar                                                             *)

Ok(backend, voice) == [status |-> 200, backend |-> backend, voice |-> voice]
Abort(status)      == [status |-> status, backend |-> "none", voice |-> "nothing"]

\* Mutant: an explicit backend is no different from the default.
ResolveAlwaysReroutes(voice, backend, explicit) ==
    IF voice = "default" THEN Ok(backend, "default")
    ELSE IF voice \notin Backends THEN Abort(422)
    ELSE Ok(voice, voice)

\* VoiceResolver.resolve: the backend to speak, and the voice.
Resolve(voice, backend, explicit) ==
    IF voice = "default" THEN Ok(backend, "default")
    ELSE IF voice \notin Backends \/ (voice # backend /\ explicit) THEN Abort(422)
    ELSE IF voice = "kokoro" /\ "kokoro" \notin engines THEN Abort(503)
    ELSE Ok(voice, voice)

\* The engine may be missing, or refuse the text, the voice asset or the embedding.
Speak(r, voice) ==
    IF r.status # 200 THEN {r}
    ELSE IF r.backend \notin engines THEN {Abort(503)}
    ELSE {Ok(r.backend, voice), Abort(422), Abort(500)}

\* handleSynthesize.
Synthesize ==
    LET backend == IF call.backend = "" THEN default.sidecar ELSE call.backend
        r == Resolve(call.voice, backend, call.backend # "")
    IN  IF (call.data \/ call.ref) /\ backend # "pocket" THEN {Abort(422)}
        ELSE Speak(r, IF r.backend = "pocket" /\ call.data THEN "embedding"
                      ELSE IF r.backend = "pocket" /\ call.ref THEN "reference"
                      ELSE r.voice)

\* handleSynthesizeStream, which is sent text and voice only.
SynthesizeStream ==
    LET r == Resolve(call.voice, "pocket", FALSE)
    IN  IF r.backend = "kokoro" THEN {Abort(501)} ELSE Speak(r, r.voice)

Streams == ask.endpoint = "elevenlabs_stream" /\ ask.format = "pcm"

\* The sidecar's rejections are forwarded; the rest is an outage.
Forward(status) == IF status \in 400..499 THEN status ELSE 502

\* The sidecar is called, unless it is down.  Compressed audio is still to be encoded.
Called(results) ==
    /\ pc = "synthesize"
    /\ \E r \in results \cup {Abort(0)} :
       /\ said' = r.status
       /\ IF r.status = 200
          THEN /\ heard' = [voice |-> r.voice, backend |-> r.backend]
               /\ IF ask.format = "coded" THEN pc' = "transcode" /\ UNCHANGED answers
                  ELSE pc' = "over" /\ Answer(200)
          ELSE Answer(Forward(r.status)) /\ pc' = "over" /\ UNCHANGED heard
    /\ UNCHANGED <<fixed, call>>

CallNative == ask.endpoint = "tts" /\ Called(Synthesize)
CallOpenAI == ask.endpoint = "openai" /\ Called(Synthesize)

\* Raw audio is streamed to a client that asks for a stream; the rest comes at once.
SynthesizeBatch ==
    ask.endpoint \in {"elevenlabs", "elevenlabs_stream"} /\ ~Streams /\ Called(Synthesize)
SynthesizeStreaming == Streams /\ Called(SynthesizeStream)

Call == CallNative \/ CallOpenAI \/ SynthesizeBatch \/ SynthesizeStreaming

Transcode ==
    /\ pc = "transcode"
    /\ \E status \in {200, 500} : Answer(status)
    /\ pc' = "over"
    /\ UNCHANGED <<fixed, call, said, heard>>

-----------------------------------------------------------------------------
Next ==
    \/ Validate \/ BuildOpenAI \/ BuildNative \/ BuildElevenLabs
    \/ Call \/ Transcode

Spec == Init /\ [][Next]_vars

-----------------------------------------------------------------------------
(* Properties                                                              *)

Answered(status) == answers # <<>> /\ answers[Len(answers)] = status

\* Speech for a voice of a catalog is spoken by that voice on its own backend,
\* whatever the backend and the defaults.  The backend a client chose by its model is
\* not exchanged for the other one, unless raw audio is streamed in the ElevenLabs
\* dialect (ChosenBackendHeard); the native endpoint takes no model.
NamedVoiceHeard ==
    Answered(200) /\ ask.stored = "no" /\ ~ask.ref =>
       /\ ask.voice \in Backends => heard.voice = ask.voice /\ heard.backend = ask.voice
       /\ ask.voice = "alias" => heard.voice = "pocket"
       /\ ask.voice # "unknown"
       /\ ~Streams /\ ask.model # "other" => heard.backend = ask.model

\* In the ElevenLabs dialect a cloned voice is spoken with its embedding or not at
\* all, unless raw audio is streamed; the native endpoint, which sends the embedding
\* beside a voice of any backend, is exempt (StoredVoiceHeard).
ClonedVoiceKept ==
    Answered(200) /\ ask.stored = "found" /\ ask.endpoint # "tts" /\ ~Streams =>
       heard.voice = "embedding"

\* Both: a named voice is heard or refused on every endpoint; a chosen backend and a
\* cloned voice are, in the answers of the two dialects that are sent whole.
VoiceHonoured == NamedVoiceHeard /\ ClonedVoiceKept

-----------------------------------------------------------------------------
(* Statements of comments in the code                                      *)

\* After buildSynthRequest has failed the response is already written
\* (elevenlabs_tts.go): nothing follows it.
AnsweredOnce == Len(answers) <= 1

\* A voice that cannot be streamed is answered as not supported, no outage
\* (elevenlabs_tts.go, handleSynthError).
UnsupportedIsSaid == said = 501 => ~Answered(502)

\* The stored embedding is sent as voice_data (elevenlabs_tts.go) and takes priority
\* (tts.go): a cloned voice is spoken with it.
StoredVoiceHeard ==
    Answered(200) /\ ask.stored = "found" => heard.voice = "embedding"

\* model_id kokoro is the kokoro backend, model_id pocket is pocket
\* (elevenlabs_tts.go, ElevenLabsHandler): a model that names a backend is heard on it.
ChosenBackendHeard ==
    Answered(200) /\ ask.endpoint # "tts" /\ ask.model \in Backends =>
       heard.backend = ask.model
=============================================================================
