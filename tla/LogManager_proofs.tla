-------------------------- MODULE LogManager_proofs --------------------------
(***************************************************************************)
(* For any number of senders and closers and any capacity: the log manager  *)
(* implements the queue of LogQueue.                                        *)
(***************************************************************************)
EXTENDS LogManager, TLAPS, SequenceTheorems

\* The consumer leaves its loops only after closing began, with nothing in
\* hand and everything owed dealt with; closing is over only after that.
CloseInv ==
    /\ consumer # "serving" => quit
    /\ quit => closing
    /\ consumer = "exited" => holding = Nothing /\ owed <= Len(shipped)
    /\ returned => consumer = "exited"
    /\ closing => owed <= Len(accepted)

IInv == TypeOK /\ CloseInv

\* What is on its way is the entry in hand and the channel.
LEMMA AcceptedLength ==
    ASSUME TypeOK
    PROVE  /\ accepted \in Seq(Entries)
           /\ Len(accepted) = Len(shipped) + (IF holding = Nothing THEN 0 ELSE 1) + Len(LogChannel)
<1>1. LogChannel \in Seq(Entries) /\ shipped \in Seq(Entries) /\ holding \in Entries \cup {Nothing}
  BY DEF TypeOK
<1>2. CASE holding = Nothing
  <2>1. <<>> \o LogChannel = LogChannel
    BY <1>1
  <2>2. accepted = shipped \o (<<>> \o LogChannel)
    BY <1>1, <1>2 DEF accepted
  <2> QED
    BY <1>1, <1>2, <2>1, <2>2
<1>3. CASE holding # Nothing
  <2>1. <<holding>> \in Seq(Entries) /\ Len(<<holding>>) = 1
    BY <1>1, <1>3
  <2>2. accepted = shipped \o <<holding>> \o LogChannel
    BY <1>3 DEF accepted
  <2> QED
    BY <1>1, <1>3, <2>1, <2>2
<1> QED
  BY <1>2, <1>3

\* A channel is its head followed by its tail.
LEMMA HeadAndTail ==
    ASSUME NEW S, NEW s \in Seq(S), s # <<>>
    PROVE  <<Head(s)>> \o Tail(s) = s
<1>1. /\ Head(s) \in S /\ Tail(s) \in Seq(S) /\ Len(Tail(s)) = Len(s) - 1
      /\ \A i \in 1..Len(Tail(s)) : Tail(s)[i] = s[i + 1]
  BY HeadTailProperties
<1>2. <<Head(s)>> \in Seq(S) /\ Len(<<Head(s)>>) = 1 /\ <<Head(s)>>[1] = s[1]
  BY <1>1
<1> DEFINE t == <<Head(s)>> \o Tail(s)
<1>3. t \in Seq(S) /\ Len(t) = Len(s)
  BY <1>1, <1>2, ConcatProperties, LenProperties
<1>4. \A i \in 1..Len(t) : t[i] = s[i]
  BY <1>1, <1>2, <1>3, ConcatProperties, LenProperties
<1> QED
  BY <1>3, <1>4, SeqEqual

\* Appending commutes with a prefix.
LEMMA AppendToConcat ==
    ASSUME NEW S, NEW s \in Seq(S), NEW t \in Seq(S), NEW e \in S
    PROVE  s \o Append(t, e) = Append(s \o t, e)
<1>1. <<e>> \in Seq(S)
  OBVIOUS
<1>2. Append(t, e) = t \o <<e>> /\ Append(s \o t, e) = (s \o t) \o <<e>>
  OBVIOUS
<1> QED
  BY <1>1, <1>2, ConcatAssociative

\* The entries on their way, for the entry in hand and the channel.
LEMMA InHand ==
    ASSUME TypeOK
    PROVE  /\ shipped \in Seq(Entries) /\ LogChannel \in Seq(Entries)
           /\ holding = Nothing => accepted = shipped \o LogChannel
           /\ holding # Nothing => /\ holding \in Entries
                                   /\ accepted = (shipped \o <<holding>>) \o LogChannel
BY ConcatEmptySeq DEF TypeOK, accepted

-----------------------------------------------------------------------------
(* Every step, by what it does to the entries accepted                      *)

\* Receiving an entry accepts none.
LEMMA ReceiveKeeps ==
    ASSUME TypeOK, TypeOK', LogAssumption, Receive
    PROVE  accepted' = accepted
<1>1. /\ holding' = Head(LogChannel) /\ LogChannel' = Tail(LogChannel) /\ LogChannel # <<>>
      /\ holding = Nothing /\ shipped' = shipped
  BY DEF Receive
<1>2. Head(LogChannel) \in Entries /\ Tail(LogChannel) \in Seq(Entries)
  BY <1>1, HeadTailProperties DEF TypeOK
<1>3. holding' # Nothing
  BY <1>1, <1>2 DEF LogAssumption
<1>4. accepted' = (shipped \o <<Head(LogChannel)>>) \o Tail(LogChannel)
  BY <1>1, <1>3 DEF accepted
<1>5. accepted = shipped \o LogChannel
  BY <1>1, InHand
<1>6. <<Head(LogChannel)>> \in Seq(Entries) /\ shipped \in Seq(Entries)
  BY <1>2 DEF TypeOK
<1>7. accepted' = shipped \o (<<Head(LogChannel)>> \o Tail(LogChannel))
  BY <1>2, <1>4, <1>6, ConcatAssociative
<1> QED
  BY <1>1, <1>5, <1>7, HeadAndTail, InHand

\* Shipping an entry accepts none.
LEMMA ShippedKeeps ==
    ASSUME TypeOK, Shipped
    PROVE  accepted' = accepted /\ Len(shipped') = Len(shipped) + 1
<1>1. /\ holding # Nothing /\ holding' = Nothing /\ LogChannel' = LogChannel
      /\ shipped' = Append(shipped, holding)
  BY DEF Shipped
<1>2. holding \in Entries /\ accepted = (shipped \o <<holding>>) \o LogChannel
  BY <1>1, InHand
<1>3. shipped' = shipped \o <<holding>> /\ Len(shipped') = Len(shipped) + 1
  BY <1>1, <1>2 DEF TypeOK
<1>4. accepted' = (shipped' \o <<>>) \o LogChannel
  BY <1>1 DEF accepted
<1>5. shipped' \in Seq(Entries)
  BY <1>1, <1>2 DEF TypeOK
<1> QED
  BY <1>2, <1>3, <1>4, <1>5, ConcatEmptySeq

\* An entry that is put on the channel is accepted last, within the capacity.
LEMMA EnqueueAccepts ==
    ASSUME TypeOK, LogAssumption, NEW e \in Entries, Enqueue(e)
    PROVE  \/ accepted' = accepted
           \/ /\ accepted' = Append(accepted, e)
              /\ Len(accepted) - Len(shipped) <= Capacity
<1>0. shipped' = shipped /\ holding' = holding
  BY DEF Enqueue
<1>1. CASE Len(LogChannel) < Capacity
  <2>1. LogChannel' = Append(LogChannel, e)
    BY <1>1 DEF Enqueue
  <2>2. CASE holding = Nothing
    <3>1. accepted' = (shipped \o <<>>) \o Append(LogChannel, e)
      BY <1>0, <2>1, <2>2 DEF accepted
    <3> QED
      BY <1>1, <2>2, <3>1, InHand, ConcatEmptySeq, AppendToConcat, AcceptedLength, LenProperties
         DEF LogAssumption
  <2>3. CASE holding # Nothing
    <3>1. accepted' = (shipped \o <<holding>>) \o Append(LogChannel, e)
      BY <1>0, <2>1, <2>3 DEF accepted
    <3>2. shipped \o <<holding>> \in Seq(Entries)
      BY <2>3, InHand
    <3>3. /\ LogChannel \in Seq(Entries)
          /\ accepted = (shipped \o <<holding>>) \o LogChannel
      BY <2>3, InHand
    <3> DEFINE front == shipped \o <<holding>>
    <3> HIDE DEF front
    <3>4. accepted' = Append(accepted, e)
      BY <3>1, <3>2, <3>3, AppendToConcat DEF front
    <3> QED
      BY <1>1, <2>3, <3>4, InHand, AcceptedLength, LenProperties DEF LogAssumption
  <2> QED
    BY <2>2, <2>3
<1>2. CASE ~(Len(LogChannel) < Capacity)
  BY <1>0, <1>2 DEF Enqueue, accepted
<1> QED
  BY <1>1, <1>2

-----------------------------------------------------------------------------
\* The types and the state of closing are kept by every step.
LEMMA NextInvariant ==
    ASSUME LogAssumption, IInv, [Next]_vars
    PROVE  IInv'
<1> USE DEF IInv
<1>1. TypeOK'
  <2> USE DEF TypeOK
  <2>1. ASSUME NEW e \in Entries, Send(e)
        PROVE  TypeOK'
    <3>1. CASE Check(e)
      BY <3>1 DEF Check, SendSteps
    <3>2. CASE Enqueue(e)
      <4>1. Append(LogChannel, e) \in Seq(Entries) /\ Len(Append(LogChannel, e)) = Len(LogChannel) + 1
        BY AppendProperties
      <4>2. Len(LogChannel) < Capacity => Len(Append(LogChannel, e)) <= Capacity
        BY <4>1, LenProperties DEF LogAssumption
      <4> QED
        BY <3>2, <4>1, <4>2 DEF Enqueue, SendSteps
    <3> QED
      BY <2>1, <3>1, <3>2 DEF Send
  <2>2. CASE Receive
    <3>1. /\ Head(LogChannel) \in Entries /\ Tail(LogChannel) \in Seq(Entries)
          /\ Len(Tail(LogChannel)) = Len(LogChannel) - 1 /\ Len(LogChannel) \in Nat
      BY <2>2, HeadTailProperties, LenProperties DEF Receive
    <3>2. Len(Tail(LogChannel)) <= Capacity
      BY <3>1 DEF LogAssumption
    <3> QED
      BY <2>2, <3>1, <3>2 DEF Receive
  <2>3a. CASE Shipped
    <3>1. Append(shipped, holding) \in Seq(Entries)
      BY <2>3a, AppendProperties DEF Shipped
    <3> QED
      BY <2>3a, <3>1 DEF Shipped
  <2>3. CASE SeeQuit \/ Exit
    BY <2>3 DEF SeeQuit, Exit, LoopSteps
  <2>4. ASSUME NEW c \in Closers, Close(c)
        PROVE  TypeOK'
    <3>1. CASE Flag(c)
      <4>1. Len(accepted) \in Nat
        BY AcceptedLength, LenProperties
      <4> QED
        BY <3>1, <4>1 DEF Flag, CloseSteps
    <3> QED
      BY <2>4, <3>1 DEF Close, Signal, WaitOver, LateCloser, CloseSteps
  <2>5. CASE UNCHANGED vars
    BY <2>5 DEF vars
  <2> QED
    BY <2>1, <2>2, <2>3, <2>3a, <2>4, <2>5 DEF Next, Consume
<1>2. CloseInv'
  <2> USE DEF CloseInv, closing, returned
  <2>0. /\ Len(shipped) \in Nat /\ Len(accepted) \in Nat /\ owed \in Nat
        /\ Len(accepted) >= Len(shipped)
    BY AcceptedLength, LenProperties DEF TypeOK
  <2>1. ASSUME NEW e \in Entries, Check(e)
        PROVE  CloseInv'
    BY <2>1 DEF Check, accepted
  <2>2. ASSUME NEW e \in Entries, Enqueue(e)
        PROVE  CloseInv'
    <3>1. Len(accepted') >= Len(accepted)
      BY <2>0, <2>2, EnqueueAccepts, AcceptedLength
    <3>2. UNCHANGED <<consumer, holding, quit, closer, owed, shipped>>
      BY <2>2 DEF Enqueue
    <3>3. Len(accepted') \in Nat
      BY <1>1, <2>0, <2>2, EnqueueAccepts, AcceptedLength
    <3> QED
      BY <2>0, <3>1, <3>2, <3>3
  <2>3. CASE Receive
    <3>1. accepted' = accepted
      BY <1>1, <2>3, ReceiveKeeps
    <3> QED
      BY <2>3, <3>1 DEF Receive
  <2>4. CASE Shipped
    <3>1. accepted' = accepted
      BY <2>4, ShippedKeeps
    <3> QED
      BY <2>4, <3>1 DEF Shipped
  <2>5. CASE SeeQuit
    BY <2>5 DEF SeeQuit, accepted
  <2>6. CASE Exit
    <3>1. Len(accepted) = Len(shipped)
      BY <2>6, AcceptedLength, EmptySeq, LenProperties DEF Exit
    <3>2. quit /\ closing
      BY <2>6 DEF Exit
    <3> QED
      BY <2>0, <2>6, <3>1, <3>2 DEF Exit, accepted
  <2>7. ASSUME NEW c \in Closers, Flag(c)
        PROVE  CloseInv'
    <3>1. ~closing /\ consumer = "serving" /\ ~returned
      BY <2>7 DEF Flag, TypeOK, LoopSteps
    <3>2. consumer' = "serving" /\ accepted' = accepted /\ owed' = Len(accepted) /\ quit' = quit
      BY <2>7, <3>1 DEF Flag, accepted
    <3>3. closing' /\ ~returned'
      BY <2>7 DEF Flag, TypeOK
    <3> QED
      BY <2>0, <3>1, <3>2, <3>3
  <2>8. ASSUME NEW c \in Closers, Signal(c)
        PROVE  CloseInv'
    BY <2>8 DEF Signal, accepted, TypeOK
  <2>9. ASSUME NEW c \in Closers, WaitOver(c) \/ LateCloser(c)
        PROVE  CloseInv'
    BY <2>9 DEF WaitOver, LateCloser, accepted, TypeOK
  <2>10. CASE UNCHANGED vars
    BY <2>10 DEF vars, accepted
  <2> QED
    BY <2>1, <2>2, <2>3, <2>4, <2>5, <2>6, <2>7, <2>8, <2>9, <2>10
       DEF Next, Send, Consume, Close
<1> QED
  BY <1>1, <1>2

\* The log manager starts empty and open.
LEMMA InitInvariant ==
    ASSUME LogAssumption, Init
    PROVE  IInv /\ Queue!Init
<1>1. TypeOK
  <2>1. <<>> \in Seq(Entries) /\ Len(<<>>) = 0 /\ 0 <= Capacity
    BY LogAssumption, EmptySeq
  <2> QED
    BY <2>1 DEF Init, TypeOK, SendSteps, LoopSteps, CloseSteps
<1>2. ~closing /\ ~returned
  BY DEF Init, closing, returned
<1>3. accepted = <<>> /\ Len(shipped) = 0
  BY <1>1, InHand, ConcatEmptySeq, EmptySeq DEF Init
<1> QED
  BY <1>1, <1>2, <1>3 DEF IInv, CloseInv, Init, Queue!Init

\* The invariant holds throughout.
THEOREM Invariance == Spec => []IInv
<1>1. Init => IInv
  BY LogAssumption, InitInvariant
<1>2. IInv /\ [Next]_vars => IInv'
  BY LogAssumption, NextInvariant
<1> QED
  BY <1>1, <1>2, PTL DEF Spec

\* The channel stays within its capacity and holds entries, and what is in hand, what was
\* shipped and what close owes are what the code can have, however senders, the
\* consumer and closers interleave.
THEOREM TypeCorrect == Spec => []TypeOK
  BY Invariance, PTL DEF IInv

\* The phases of the queue, for what the callers of CloseLogManager see.
LEMMA PhaseKept ==
    ASSUME UNCHANGED closer
    PROVE  closing' = closing /\ returned' = returned
BY DEF closing, returned

\* Every step of the log manager is a step of the queue, or one the queue does
\* not see.
LEMMA NextImplements ==
    ASSUME LogAssumption, IInv, [Next]_vars
    PROVE  [Queue!Next]_(Queue!vars)
<1> USE DEF Queue!Next, Queue!vars
<1>0. TypeOK /\ TypeOK' /\ CloseInv
  BY NextInvariant DEF IInv
<1>0a. Len(shipped) \in Nat /\ Len(accepted) \in Nat
  BY <1>0, AcceptedLength, LenProperties DEF TypeOK
<1>1. ASSUME NEW e \in Entries, Check(e)
      PROVE  [Queue!Next]_(Queue!vars)
  BY <1>1, PhaseKept DEF Check, accepted
<1>2. ASSUME NEW e \in Entries, Enqueue(e)
      PROVE  [Queue!Next]_(Queue!vars)
  <2>1. closing' = closing /\ returned' = returned /\ shipped' = shipped /\ owed' = owed
    BY <1>2, PhaseKept DEF Enqueue
  <2> QED
    BY <1>0, <1>2, <2>1, EnqueueAccepts DEF Queue!Accept
<1>3. CASE Receive
  <2>1. closing' = closing /\ returned' = returned /\ shipped' = shipped /\ owed' = owed
    BY <1>3, PhaseKept DEF Receive
  <2> QED
    BY <1>0, <1>3, <2>1, ReceiveKeeps
<1>4. CASE Shipped
  <2>1. closing' = closing /\ returned' = returned /\ owed' = owed
    BY <1>4, PhaseKept DEF Shipped
  <2>2. accepted' = accepted /\ Len(shipped') = Len(shipped) + 1
    BY <1>0, <1>4, ShippedKeeps
  <2>3. Len(shipped) < Len(accepted)
    BY <1>0, <1>0a, <1>4, AcceptedLength, LenProperties DEF Shipped, TypeOK
  <2>4. ~returned
    BY <1>0, <1>4 DEF Shipped, CloseInv
  <2> QED
    BY <2>1, <2>2, <2>3, <2>4 DEF Queue!Ship
<1>5. CASE SeeQuit \/ Exit
  <2>1. UNCHANGED <<closer, shipped, holding, LogChannel, owed>>
    BY <1>5 DEF SeeQuit, Exit
  <2>2. closing' = closing /\ returned' = returned
    BY <2>1, PhaseKept
  <2>3. accepted' = accepted
    BY <2>1 DEF accepted
  <2> QED
    BY <2>1, <2>2, <2>3
<1>6. ASSUME NEW c \in Closers, Flag(c)
      PROVE  [Queue!Next]_(Queue!vars)
  <2>1. ~closing /\ ~returned /\ closing' /\ ~returned'
    BY <1>0, <1>6 DEF Flag, closing, returned, TypeOK
  <2>2. accepted' = accepted /\ shipped' = shipped /\ owed' = Len(accepted)
    BY <1>6 DEF Flag, accepted
  <2> QED
    BY <2>1, <2>2 DEF Queue!BeginClose
<1>7. ASSUME NEW c \in Closers, Signal(c)
      PROVE  [Queue!Next]_(Queue!vars)
  <2>1. closing' = closing /\ returned' = returned
    BY <1>0, <1>7 DEF Signal, closing, returned, TypeOK
  <2> QED
    BY <1>7, <2>1 DEF Signal, accepted
<1>8. ASSUME NEW c \in Closers, WaitOver(c) \/ LateCloser(c)
      PROVE  [Queue!Next]_(Queue!vars)
  <2>1. closing /\ closing' /\ returned' /\ consumer = "exited"
    BY <1>0, <1>8 DEF WaitOver, LateCloser, closing, returned, TypeOK, CloseInv
  <2>2. accepted' = accepted /\ shipped' = shipped /\ owed' = owed
    BY <1>8 DEF WaitOver, LateCloser, accepted
  <2>3. owed <= Len(shipped)
    BY <1>0, <2>1 DEF CloseInv
  <2>4. owed \in Nat
    BY <1>0 DEF TypeOK
  <2> QED
    BY <1>0a, <2>1, <2>2, <2>3, <2>4 DEF Queue!EndClose
<1>9. CASE UNCHANGED vars
  BY <1>9, PhaseKept DEF vars, accepted
<1> HIDE DEF Queue!Next, Queue!vars
<1> QED
  BY <1>1, <1>2, <1>3, <1>4, <1>5, <1>6, <1>7, <1>8, <1>9 DEF Next, Send, Consume, Close

\* The log manager implements the queue: it keeps order, stays within its
\* capacity, and close returns only after everything owed has been dealt with.
THEOREM QueueImplemented == Spec => ImplementsQueue
<1>1. Init => Queue!Init
  BY LogAssumption, InitInvariant
<1>2. IInv /\ [Next]_vars => [Queue!Next]_(Queue!vars)
  BY LogAssumption, NextImplements
<1> QED
  BY <1>1, <1>2, Invariance, PTL DEF Spec, ImplementsQueue, Queue!Spec
=============================================================================
