----------------------------- MODULE LogManager -----------------------------
(***************************************************************************)
(* The structured-log pipeline (internal/logging/manager.go): request       *)
(* goroutines call SendLog, one consumer goroutine ships entries to Loki,   *)
(* and CloseLogManager ends the consumer while senders may still be about.  *)
(* Every entry stands for one call of SendLog by a goroutine of its own.    *)
(***************************************************************************)
EXTENDS Naturals, Sequences

CONSTANTS
    Entries,   \* calls of SendLog
    Closers,   \* calls of CloseLogManager
    Nothing,   \* the consumer holds no entry
    Capacity   \* of LogChannel (512)

ASSUME LogAssumption ==
    /\ Nothing \notin Entries
    /\ Capacity \in Nat \ {0}

VARIABLES
    call,       \* per entry: how far its SendLog has come
    LogChannel, \* the buffered channel
    closed,     \* atomic.Bool
    quit,       \* quit has been closed
    consumer,   \* processLogChannel
    holding,    \* the entry it has received and not shipped
    shipped,    \* entries pushed (or failed to push) to Loki, in order
    closer,     \* per call of CloseLogManager: its program counter
    owed        \* history variable: length of accepted when closed was stored

vars == <<call, LogChannel, closed, quit, consumer, holding, shipped, closer, owed>>

SendSteps  == {"new", "checked", "queued", "dropped"}
LoopSteps  == {"serving", "draining", "exited"}
CloseSteps == {"new", "flagged", "waiting", "returned"}

\* Everything SendLog has put on the channel, in order.
accepted ==
    shipped \o (IF holding = Nothing THEN <<>> ELSE <<holding>>) \o LogChannel

\* The entry the consumer holds, the counts and the steps of the consumer, the
\* senders and the closers have their types, and the channel keeps its capacity.
TypeOK ==
    /\ call \in [Entries -> SendSteps]
    /\ LogChannel \in Seq(Entries) /\ Len(LogChannel) <= Capacity
    /\ closed \in BOOLEAN
    /\ quit \in BOOLEAN
    /\ consumer \in LoopSteps
    /\ holding \in Entries \cup {Nothing}
    /\ shipped \in Seq(Entries)
    /\ closer \in [Closers -> CloseSteps]
    /\ owed \in Nat

Init ==
    /\ call = [e \in Entries |-> "new"]
    /\ LogChannel = <<>>
    /\ closed = FALSE
    /\ quit = FALSE
    /\ consumer = "serving"
    /\ holding = Nothing
    /\ shipped = <<>>
    /\ closer = [c \in Closers |-> "new"]
    /\ owed = 0

-----------------------------------------------------------------------------
(* SendLog                                                                 *)

\* The closed check; sanitizing and local printing follow.
Check(e) ==
    /\ call[e] = "new"
    /\ call' = [call EXCEPT ![e] = IF closed THEN "dropped" ELSE "checked"]
    /\ UNCHANGED <<LogChannel, closed, quit, consumer, holding, shipped, closer, owed>>

\* The non-blocking send: drop when the buffer is full.
Enqueue(e) ==
    /\ call[e] = "checked"
    /\ IF Len(LogChannel) < Capacity
       THEN /\ LogChannel' = Append(LogChannel, e)
            /\ call' = [call EXCEPT ![e] = "queued"]
       ELSE /\ call' = [call EXCEPT ![e] = "dropped"]
            /\ UNCHANGED LogChannel
    /\ UNCHANGED <<closed, quit, consumer, holding, shipped, closer, owed>>

-----------------------------------------------------------------------------
(* processLogChannel                                                       *)

\* Mutant: entries are collected until the buffer is full, with no timer.
ReceiveFull ==
    /\ consumer \in {"serving", "draining"}
    /\ holding = Nothing
    /\ LogChannel # <<>>
    /\ consumer = "serving" => Len(LogChannel) = Capacity
    /\ holding' = Head(LogChannel)
    /\ LogChannel' = Tail(LogChannel)
    /\ UNCHANGED <<call, closed, quit, consumer, shipped, closer, owed>>

\* A receive, in the serving select or in the draining one.
Receive ==
    /\ consumer \in {"serving", "draining"}
    /\ holding = Nothing
    /\ LogChannel # <<>>
    /\ holding' = Head(LogChannel)
    /\ LogChannel' = Tail(LogChannel)
    /\ UNCHANGED <<call, closed, quit, consumer, shipped, closer, owed>>

\* ship returns, whether or not Loki took the entry.
Shipped ==
    /\ holding # Nothing
    /\ shipped' = Append(shipped, holding)
    /\ holding' = Nothing
    /\ UNCHANGED <<call, LogChannel, closed, quit, consumer, closer, owed>>

\* Mutant: the consumer does not drain.
SeeQuitNoDrain ==
    /\ consumer = "serving" /\ holding = Nothing
    /\ quit
    /\ consumer' = "exited"
    /\ UNCHANGED <<call, LogChannel, closed, quit, holding, shipped, closer, owed>>

\* The serving select may take quit although entries are waiting.
SeeQuit ==
    /\ consumer = "serving" /\ holding = Nothing
    /\ quit
    /\ consumer' = "draining"
    /\ UNCHANGED <<call, LogChannel, closed, quit, holding, shipped, closer, owed>>

Exit ==
    /\ consumer = "draining" /\ holding = Nothing
    /\ LogChannel = <<>>
    /\ consumer' = "exited"
    /\ UNCHANGED <<call, LogChannel, closed, quit, holding, shipped, closer, owed>>

-----------------------------------------------------------------------------
(* CloseLogManager; sync.Once lets the first caller in and makes the others *)
(* wait for it                                                             *)

Flag(c) ==
    /\ \A d \in Closers : closer[d] = "new"
    /\ closer' = [closer EXCEPT ![c] = "flagged"]
    /\ closed' = TRUE
    /\ owed' = Len(accepted)
    /\ UNCHANGED <<call, LogChannel, quit, consumer, holding, shipped>>

\* Mutant: quit is not closed.
SignalSkipped(c) ==
    /\ closer[c] = "flagged"
    /\ closer' = [closer EXCEPT ![c] = "waiting"]
    /\ UNCHANGED <<call, LogChannel, closed, quit, consumer, holding, shipped, owed>>

Signal(c) ==
    /\ closer[c] = "flagged"
    /\ closer' = [closer EXCEPT ![c] = "waiting"]
    /\ quit' = TRUE
    /\ UNCHANGED <<call, LogChannel, closed, consumer, holding, shipped, owed>>

\* wg.Wait() is over.
WaitOver(c) ==
    /\ closer[c] = "waiting"
    /\ consumer = "exited"
    /\ closer' = [closer EXCEPT ![c] = "returned"]
    /\ UNCHANGED <<call, LogChannel, closed, quit, consumer, holding, shipped, owed>>

\* Any other caller returns once the first has.
LateCloser(c) ==
    /\ closer[c] = "new"
    /\ \E d \in Closers : closer[d] = "returned"
    /\ closer' = [closer EXCEPT ![c] = "returned"]
    /\ UNCHANGED <<call, LogChannel, closed, quit, consumer, holding, shipped, owed>>

-----------------------------------------------------------------------------
Send(e)  == Check(e) \/ Enqueue(e)
Consume  == Receive \/ Shipped \/ SeeQuit \/ Exit
Close(c) == Flag(c) \/ Signal(c) \/ WaitOver(c) \/ LateCloser(c)

Next ==
    \/ \E e \in Entries : Send(e)
    \/ Consume
    \/ \E c \in Closers : Close(c)

Spec == Init /\ [][Next]_vars

\* A goroutine that entered a call goes on; whether a log is sent, or close is
\* called, is up to the program.
FairSpec ==
    /\ Spec
    /\ WF_vars(Consume)
    /\ \A e \in Entries : WF_vars(Enqueue(e))
    /\ \A c \in Closers : WF_vars(Signal(c) \/ WaitOver(c))

-----------------------------------------------------------------------------
(* Properties                                                              *)

closing  == \E c \in Closers : closer[c] # "new"
returned == \E c \in Closers : closer[c] = "returned"

\* The pipeline is a bounded queue that keeps order and, when CloseLogManager
\* returns, has dealt with every entry that was on it when closing began.
Queue == INSTANCE LogQueue WITH
    shipped <- Len(shipped),
    phase <- IF returned THEN "closed" ELSE IF closing THEN "closing" ELSE "open",
    due <- owed

\* SendLog, the consumer and close behave like the bounded queue of LogQueue.
ImplementsQueue == Queue!Spec

\* CloseLogManager returns, however many senders are still putting entries on
\* the channel while it is drained.
CloseReturns == closing ~> returned

\* An entry that is on the channel while the consumer runs is dealt with, closing
\* or not: nothing that was buffered when closing began, or was put there by a
\* sender that closing overtook during the drain, is left behind.  (What such a
\* sender puts there after the consumer has gone is.)
AcceptedIsShipped ==
    \A e \in Entries :
        call[e] = "queued" /\ consumer # "exited" ~>
            \E i \in 1..Len(shipped) : shipped[i] = e

-----------------------------------------------------------------------------
(* A statement of the documentation                                        *)

\* docs/loki.md: one push timeout bounds the shutdown; so once quit is closed
\* at most one push lies between the consumer and its exit.
OnePushLeft == quit /\ ~returned => Len(accepted) <= Len(shipped) + 1
=============================================================================
