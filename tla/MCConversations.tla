--------------------------- MODULE MCConversations ---------------------------
(***************************************************************************)
(* Small instances of Conversations, of which each behaviour has the requests *)
(* of one scenario, and of Transcription.  The two share no state in the code *)
(* and run apart: while there is a request for a transcript, no scenario of   *)
(* the conversation is played.                                               *)
(***************************************************************************)
EXTENDS Conversations, TLC

CONSTANTS Scenarios, Uploads, CacheSize

VARIABLES enabled, texts, cache, order, job

tvars == <<enabled, texts, cache, order, job>>

T == INSTANCE Transcription WITH Requests <- Uploads

MCInit == (T!Quiet /\ \E active \in Scenarios : Begin(active)) \/ (T!Init /\ Begin({}))

MCNext == (Next /\ UNCHANGED tvars) \/ (T!Next /\ UNCHANGED vars)

MCSpec == MCInit /\ [][MCNext]_<<vars, tvars>>

LogsRedacted      == T!LogsRedacted
SegmentsKeepWords == T!SegmentsKeepWords
FailClosed        == T!FailClosed
NeverLeaks        == T!NeverLeaks
OffsetsStayValid  == T!OffsetsStayValid
=============================================================================
