------------------------ MODULE Conversations_proofs ------------------------
(***************************************************************************)
(* Proofs about Conversations, for any requests, any number of items and any *)
(* faults: its types, TurnOrder, HistoryComplete, ChainSound and             *)
(* ListingComplete.                                                         *)
(***************************************************************************)
EXTENDS Conversations, TLAPS, FiniteSetTheorems, SequenceTheorems

Ended == {"done", "failed"}

\* How far a writer is tells which of its items it has stored, and whether its
\* client has been answered.
WriterInv ==
    \A w \in Writers :
        /\ req[w].pc \notin {"purging", "querying"}
        /\ req[w].pc \notin Ended \cup {"inserting"} => req[w].next = 1
        /\ w \in Chained => req[w].pc \notin {"found", "storing", "inserting"} /\ req[w].next = 1
        /\ w \notin Chained => req[w].pc # "walking"
        /\ w \notin Chained /\ req[w].pc = "done" => req[w].next > Items
        /\ w \in answered \ Streamed => req[w].pc \in Ended

\* The rows of a writer are numbered from the seq it read on, its next one being due
\* after the last; and what it follows was complete and below that seq.
SeqInv ==
    /\ \A x \in rows : /\ x.n < req[x.by].next
                       /\ x.seq + req[x.by].next = req[x.by].maxSeq + x.n + 1
    /\ \A w \in Writers : \A v \in req[w].follows : req[v].next > Items
    /\ \A w \in Writers : \A x \in rows :
         x.by \in req[w].follows => x.seq + req[w].next <= req[w].maxSeq + 1

IdOf(w, n) == IF n = 1 THEN req[w].first ELSE [by |-> w, n |-> n]

\* Every item a writer has stored is there or has been removed, and a turn knows of
\* no answer that was not given.
HistoryInv ==
    /\ \A w \in Writers \ Chained : \A n \in 1..(req[w].next - 1) :
         IdOf(w, n) \in ids(rows) \cup ids(removed)
    /\ \A t \in Turns \ Chained : req[t].after \subseteq answered

\* A response has its record only when it has been generated, and names one that
\* had been answered.
RecordInv ==
    \A x \in records :
        /\ req[x.id].pc \in Ended \cup {"storing", "inserting"}
        /\ x.previous # Nothing => x.previous \in answered

\* What is before the oldest response found: nothing, or none that was recorded in time.
Exhausted(t) ==
    /\ chain[t].found # <<>>
    /\ \A z \in records : z.id = chain[t].found[1] =>
         z.previous = Nothing \/ z.previous \notin ids(records) \/ z.previous \in Streamed

\* The walk along the previous responses, from the newest to the oldest: the line
\* of those found, and what the progress of the turn tells of it.
Line(t) ==
    LET f == chain[t].found
    IN  /\ \A i \in 1..Len(f) : f[i] \in ids(records) /\ f[i] # t
        /\ \A i \in 1..(Len(f) - 1) : \E x \in records : x.id = f[i + 1] /\ x.previous = f[i]
        /\ f # <<>> => f[Len(f)] = chain[t].previous

Progress(t) ==
    LET c == chain[t]
    IN  /\ c.previous # Nothing => c.previous \in answered
        /\ Len(c.found) <= MaxDepth
        /\ req[t].pc = "new" => c.previous = Nothing /\ c.found = <<>>
        /\ req[t].pc = "walking" =>
             /\ c.previous # Nothing /\ Len(c.found) < MaxDepth
             /\ \A z \in records : c.found # <<>> /\ z.id = c.found[1] => z.previous # Nothing
        /\ PastLoading(t) /\ c.previous # Nothing =>
             Len(c.found) = MaxDepth \/ c.broken \/ Exhausted(t)

WalkInv == \A t \in Chained : Line(t) /\ Progress(t)

\* There are finitely many rows, with a greatest seq.
BoundInv == IsFiniteSet(rows) /\ \E b \in Nat : \A x \in rows : x.seq <= b

Given(l) == Range(page[l].given)

\* An item that is there and was when the client began, and that it was not given, is
\* after its cursor, will be in the page it asks for, and is none when it is done.
Remaining(l) ==
    \A x \in rows \ removed : x.id \in page[l].present \ Given(l) =>
        /\ req[l].pc \in {"new", "found"} /\ page[l].given # <<>> =>
              \A c \in rows \cup removed : c.id = page[l].after => before(c, x, page[l].desc)
        /\ At(l, "querying") => x \in beyond(l)
        /\ ~At(l, "done")

\* What it was given is not.
Passed(l) ==
    \A x \in rows : x.id \in Given(l) =>
        /\ req[l].pc \in {"new", "found"} =>
              \A c \in rows \cup removed : c.id = page[l].after => ~before(c, x, page[l].desc)
        /\ At(l, "querying") => x \notin beyond(l)

PageAt(l) ==
    /\ page[l].given = <<>> => page[l].after = Nothing
    /\ page[l].given # <<>> => page[l].after \in Given(l)
    /\ Given(l) \cup page[l].present \subseteq ids(rows) \cup ids(removed)
    /\ Distinct => Remaining(l)
    /\ Distinct /\ Given(l) \cap ids(removed) = {} /\ ~page[l].lost =>
          IsInjective(page[l].given) /\ Passed(l)

\* Rows are numbered from one, as a query without a cursor has 0.
PageInv == /\ \A x \in rows : x.seq > 0
           /\ \A l \in Lists : PageAt(l)

IInv == /\ TypeOK /\ BoundInv /\ WriterInv /\ SeqInv /\ PageInv
        /\ HistoryInv /\ HistoryComplete /\ RecordInv /\ WalkInv

-----------------------------------------------------------------------------
\* A nonempty set of natural numbers has a least one.
LEMMA LeastNumber ==
    ASSUME NEW U, U \subseteq Nat, U # {}
    PROVE  \E m \in U : \A k \in U : m <= k
<1> DEFINE Segments == {0..m : m \in U}
<1>1. Segments \subseteq FiniteSubsetsOf(Nat) /\ Segments # {}
  <2>1. \A m \in U : 0..m \in SUBSET Nat /\ IsFiniteSet(0..m)
    BY FS_Interval
  <2> QED
    BY <2>1 DEF FiniteSubsetsOf
<1>2. PICK s \in Segments : \A u \in Segments : <<u, s>> \notin StrictSubsetOrdering(Nat)
  BY <1>1, FS_StrictSubsetOrderingWellFounded, WFMin
<1>3. PICK m \in U : s = 0..m
  BY <1>2
<1>4. ASSUME NEW k \in U, k < m
      PROVE  FALSE
  <2>1. 0..k \in SUBSET Nat /\ 0..m \in SUBSET Nat /\ 0..k \subseteq 0..m /\ m \in (0..m) \ (0..k)
    BY <1>4
  <2>2. <<0..k, 0..m>> \in StrictSubsetOrdering(Nat)
    BY <2>1 DEF StrictSubsetOrdering
  <2> QED
    BY <1>2, <1>3, <2>2
<1> QED
  BY <1>4

\* So a nonempty set of natural numbers that has a bound has a greatest one.
LEMMA Greatest ==
    ASSUME NEW S, S \subseteq Nat, S # {}, NEW b \in Nat, \A k \in S : k <= b
    PROVE  Max(S) \in S /\ \A k \in S : k <= Max(S)
<1> DEFINE U == {m \in Nat : \A k \in S : k <= m}
<1>1. PICK m \in U : \A u \in U : m <= u
  <2>1. U \subseteq Nat /\ U # {}
    OBVIOUS
  <2> HIDE DEF U
  <2> QED
    BY <2>1, LeastNumber
<1>2. m \in S
  <2>1. CASE m \notin S
    <3>1. \A k \in S : k \in Nat /\ k <= m - 1
      BY <2>1, <1>1
    <3>2. PICK k \in S : TRUE
      OBVIOUS
    <3>3. m - 1 \in Nat
      BY <3>1, <3>2
    <3>4. m - 1 \in U
      BY <3>1, <3>3
    <3> QED
      BY <1>1, <3>4
  <2> QED
    BY <2>1
<1>3. \E x \in S : \A y \in S : x >= y
  BY <1>1, <1>2
<1> QED
  BY <1>3 DEF Max

-----------------------------------------------------------------------------
(* What the steps do to the progress and the locals of a request            *)

\* Only request r moves, to pc; its locals stay.
Moved(r, pc) ==
    /\ \A q \in Requests \ {r} : req'[q] = req[q]
    /\ req'[r].pc = pc /\ req'[r].maxSeq = req[r].maxSeq /\ req'[r].next = req[r].next
    /\ req'[r].first = req[r].first /\ req'[r].history = req[r].history
    /\ req'[r].after = req[r].after /\ req'[r].follows = req[r].follows

LocalsTyped == req \in [Requests -> Locals]

\* GoTo is such a step.
LEMMA GoToMoves ==
    ASSUME LocalsTyped, NEW r \in Requests, NEW pc, GoTo(r, pc)
    PROVE  Moved(r, pc)
BY DEF LocalsTyped, GoTo, Moved, Locals

\* A request that has come knows who had been answered, and may bring an item that
\* a turn has been answered with.
LEMMA FindEffect ==
    ASSUME LocalsTyped, NEW r \in Requests, FindConversation(r)
    PROVE  /\ r \notin Chained /\ req[r].pc = "new"
           /\ \A q \in Requests \ {r} : req'[q] = req[q]
           /\ req'[r].pc \in {"found", "notfound"}
           /\ req'[r].maxSeq = req[r].maxSeq /\ req'[r].next = req[r].next
           /\ req'[r].history = req[r].history /\ req'[r].follows = req[r].follows
           /\ req'[r].after = IF r \in Turns THEN answered ELSE {}
           /\ \/ req'[r].first = req[r].first
              \/ \E w \in answered \cap Turns : req'[r].first = [by |-> w, n |-> Items]
           /\ UNCHANGED <<tables, chain, page, ghosts>>
<1>1. PICK pc \in {"found", "notfound"},
            first \in {req[r].first} \cup {[by |-> w, n |-> Items] : w \in answered \cap Turns} :
          req' = [req EXCEPT ![r].pc = pc, ![r].first = first,
                             ![r].after = IF r \in Turns THEN answered ELSE {}]
  BY DEF FindConversation
<1> DEFINE after == IF r \in Turns THEN answered ELSE {}
<1>2. /\ \A q \in Requests \ {r} : req'[q] = req[q]
      /\ req'[r].pc = pc /\ req'[r].first = first /\ req'[r].after = after
      /\ req'[r].maxSeq = req[r].maxSeq /\ req'[r].next = req[r].next
      /\ req'[r].history = req[r].history /\ req'[r].follows = req[r].follows
  <2>1. req' = [req EXCEPT ![r].pc = pc, ![r].first = first, ![r].after = after]
    BY <1>1
  <2> HIDE DEF after
  <2> QED
    BY <2>1 DEF LocalsTyped, Locals
<1>3. \/ first = req[r].first
      \/ \E w \in answered \cap Turns : first = [by |-> w, n |-> Items]
  BY <1>1
<1>4. /\ r \notin Chained /\ req[r].pc = "new"
      /\ UNCHANGED <<tables, chain, page, ghosts>>
  BY DEF FindConversation, At
<1>5. pc \in {"found", "notfound"}
  BY <1>1
<1> QED
  BY <1>2, <1>3, <1>4, <1>5

\* A turn has the items that are stored when it loads them.
LEMMA LoadEffect ==
    ASSUME LocalsTyped, NEW t \in Requests, LoadItems(t)
    PROVE  /\ t \in Turns /\ req[t].pc = "found"
           /\ \A q \in Requests \ {t} : req'[q] = req[q]
           /\ req'[t].pc = "notfound" \/ (req'[t].pc = "asking" /\ req'[t].history = ids(rows))
           /\ req'[t].history \in {req[t].history, ids(rows)}
           /\ req'[t].maxSeq = req[t].maxSeq /\ req'[t].next = req[t].next
           /\ req'[t].first = req[t].first
           /\ req'[t].after = req[t].after /\ req'[t].follows = req[t].follows
           /\ UNCHANGED <<tables, chain, page, ghosts>>
<1>1. CASE GoTo(t, "notfound")
  BY <1>1, GoToMoves DEF LoadItems, At, Moved
<1>2. CASE req' = [req EXCEPT ![t].pc = "asking", ![t].history = ids(rows)]
  BY <1>2 DEF LoadItems, At, LocalsTyped, Locals
<1> QED
  BY <1>1, <1>2 DEF LoadItems

\* A writer begins to insert after the greatest seq there is.
LEMMA ReadEffect ==
    ASSUME LocalsTyped, NEW w \in Requests, ReadMaxSeq(w)
    PROVE  /\ req[w].pc = "storing"
           /\ \A q \in Requests \ {w} : req'[q] = req[q]
           /\ req'[w].pc = "inserting" /\ req'[w].maxSeq = maxSeq /\ req'[w].follows = stored
           /\ req'[w].next = req[w].next
           /\ req'[w].first = req[w].first /\ req'[w].history = req[w].history
           /\ req'[w].after = req[w].after
           /\ UNCHANGED <<tables, chain, page, ghosts>>
<1>1. req' = [req EXCEPT ![w].pc = "inserting", ![w].maxSeq = maxSeq, ![w].follows = stored]
  BY DEF ReadMaxSeq
<1> DEFINE m == maxSeq
           f == stored
<1>2. req' = [req EXCEPT ![w].pc = "inserting", ![w].maxSeq = m, ![w].follows = f]
  BY <1>1
<1> HIDE DEF m, f
<1>3. /\ \A q \in Requests \ {w} : req'[q] = req[q]
      /\ req'[w].pc = "inserting" /\ req'[w].maxSeq = m /\ req'[w].follows = f
      /\ req'[w].next = req[w].next
      /\ req'[w].first = req[w].first /\ req'[w].history = req[w].history
      /\ req'[w].after = req[w].after
  BY <1>2 DEF LocalsTyped, Locals
<1> QED
  BY <1>3 DEF m, f, ReadMaxSeq, At

\* It inserts its next item, whose id is not in use, with the next seq.
LEMMA InsertEffect ==
    ASSUME LocalsTyped, NEW w \in Requests, Insert(w)
    PROVE  /\ req[w].pc = "inserting" /\ req[w].next <= Items
           /\ IdOf(w, req[w].next) \notin ids(rows)
           /\ rows' = rows \cup {[id |-> IdOf(w, req[w].next), by |-> w, n |-> req[w].next,
                                  seq |-> req[w].maxSeq + 1]}
           /\ \A q \in Requests \ {w} : req'[q] = req[q]
           /\ req'[w].maxSeq = req[w].maxSeq + 1 /\ req'[w].next = req[w].next + 1
           /\ req'[w].pc = req[w].pc /\ req'[w].follows = req[w].follows
           /\ req'[w].first = req[w].first /\ req'[w].history = req[w].history
           /\ req'[w].after = req[w].after
           /\ UNCHANGED <<deleted, records, chain, page, ghosts>>
<1>1. /\ \A q \in Requests \ {w} : req'[q] = req[q]
      /\ req'[w].maxSeq = req[w].maxSeq + 1 /\ req'[w].next = req[w].next + 1
      /\ req'[w].pc = req[w].pc /\ req'[w].follows = req[w].follows
      /\ req'[w].first = req[w].first /\ req'[w].history = req[w].history
      /\ req'[w].after = req[w].after
  BY DEF Insert, LocalsTyped, Locals
<1> QED
  BY <1>1 DEF Insert, At, IdOf

\* Every other step moves one request.
Mover(r) ==
    \/ /\ r \in Chained /\ req[r].pc \in {"new", "walking"}
       /\ \E pc \in {"walking", "asking", "notfound"} : Moved(r, pc)
       /\ answered' = answered
    \/ /\ r \in Turns /\ req[r].pc = "asking"
       /\ \/ Moved(r, "failed") /\ answered' = answered
          \/ Moved(r, "recording") /\ answered' \in {answered, answered \cup (Streamed \cap {r})}
    \/ /\ r \in Turns /\ req[r].pc = "recording"
       /\ \/ r \in Chained /\ Moved(r, "done") /\ answered' = answered \cup {r}
          \/ r \notin Chained /\ Moved(r, "storing") /\ answered' = answered
    \/ /\ r \in Posts /\ req[r].pc = "found" /\ Moved(r, "storing") /\ answered' = answered
    \/ /\ r \in Writers /\ req[r].pc = "inserting" /\ req[r].next > Items
       /\ Moved(r, "done") /\ answered' = answered \cup {r}
    \/ /\ r \in Writers /\ req[r].pc \in {"storing", "inserting"}
       /\ Moved(r, "failed") /\ answered' \in {answered, answered \cup {r}}
    \/ /\ r \in (Lists \cup Deletes) /\ answered' = answered
       /\ \E pc \in Steps : Moved(r, pc)

\* Each step moves one request only.
LEMMA OneMoves ==
    ASSUME LocalsTyped, NEW r \in Requests,
           FindConversation(r) \/ LoadItems(r) \/ ReadMaxSeq(r) \/ Insert(r) \/ Mover(r)
    PROVE  \A q \in Requests \ {r} : req'[q] = req[q]
<1>1. CASE FindConversation(r) \/ LoadItems(r)
  BY <1>1, FindEffect, LoadEffect
<1>2. CASE ReadMaxSeq(r) \/ Insert(r)
  BY <1>2, ReadEffect, InsertEffect
<1>3. CASE Mover(r)
  BY <1>3 DEF Mover, Moved
<1> QED
  BY <1>1, <1>2, <1>3

\* No row comes or changes; one that goes is remembered.
RowsKept ==
    /\ rows' \subseteq rows
    /\ removed' = removed \cup (rows \ rows')

\* The kinds of requests differ.
LEMMA RequestKinds ==
    ASSUME ConversationAssumption
    PROVE  /\ Chained \subseteq Turns /\ Turns \subseteq Writers /\ Posts \subseteq Writers
           /\ Writers \subseteq Requests
           /\ Turns \cap Posts = {} /\ Writers \cap (Lists \cup Deletes) = {}
<1> DEFINE kinds == <<Turns, Posts, Lists, Deletes>>
<1>1. /\ kinds[1] \cap kinds[2] = {} /\ kinds[1] \cap kinds[3] = {} /\ kinds[1] \cap kinds[4] = {}
      /\ kinds[2] \cap kinds[3] = {} /\ kinds[2] \cap kinds[4] = {}
  BY DEF ConversationAssumption
<1> QED
  BY <1>1 DEF ConversationAssumption, Requests, Writers

\* A turn that looks for the record of a response moves by that.
Walks(r) == r \in Chained /\ req[r].pc \in {"new", "walking"} => loadChainItems(r)

\* The steps of the five kinds, request by request.
LEMMA StepKinds ==
    ASSUME ConversationAssumption, LocalsTyped, WriterInv, Next
    PROVE  \E r \in Requests :
              \/ FindConversation(r) \/ LoadItems(r)
              \/ (r \in Writers /\ ReadMaxSeq(r)) \/ (r \in Writers /\ Insert(r))
              \/ Mover(r) /\ Walks(r) /\ RowsKept
<1> USE DEF RowsKept, Mover, At, tables, ghosts, Answer
<1>1. ASSUME NEW t \in Chained, loadChainItems(t)
      PROVE  Mover(t) /\ RowsKept
  <2>1. t \in Requests
    BY DEF ConversationAssumption, Requests, Writers
  <2>2. CASE Follow(t)
    <3>1. PICK p : GoTo(t, IF p = Nothing THEN "asking" ELSE "walking")
      BY <2>2 DEF Follow
    <3>2. \E pc \in {"walking", "asking", "notfound"} : GoTo(t, pc)
      BY <3>1
    <3> QED
      BY <2>1, <2>2, <3>2, GoToMoves DEF Follow
  <2>3. CASE WalkChain(t) \/ ChainEnds(t)
    <3>1. \E pc \in {"walking", "asking", "notfound"} : GoTo(t, pc)
      BY <2>3 DEF WalkChain, ChainEnds
    <3> QED
      BY <2>1, <2>3, <3>1, GoToMoves DEF WalkChain, ChainEnds
  <2> QED
    BY <1>1, <2>2, <2>3 DEF loadChainItems
<1>2. ASSUME NEW t \in Turns, Generate(t) \/ persistResponse(t)
      PROVE  Mover(t) /\ RowsKept
  <2>1. t \in Requests
    BY DEF Requests, Writers
  <2> QED
    BY <1>2, <2>1, GoToMoves DEF Generate, persistResponse
<1>3. ASSUME NEW p \in Posts, CreateItems(p)
      PROVE  Mover(p) /\ RowsKept
  BY <1>3, GoToMoves DEF CreateItems, Requests, Writers
<1>4. ASSUME NEW w \in Writers, Stored(w) \/ StoreFails(w)
      PROVE  Mover(w) /\ RowsKept
  <2>1. w \in Requests
    BY DEF Requests
  <2> QED
    BY <1>4, <2>1, GoToMoves DEF Stored, StoreFails
<1>5. ASSUME NEW l \in Lists, List(l)
      PROVE  Mover(l) /\ RowsKept
  <2>1. l \in Requests /\ {"querying", "new", "done", "failed"} \subseteq Steps
    BY DEF Requests, Steps
  <2>2. \E pc \in Steps : GoTo(l, pc)
    BY <1>5, <2>1 DEF List, FindCursor, ListItems, ListFails
  <2>3. UNCHANGED <<tables, ghosts>>
    BY <1>5 DEF List, FindCursor, ListItems, ListFails
  <2> QED
    BY <2>1, <2>2, <2>3, GoToMoves
<1>6. ASSUME NEW d \in Deletes, Delete(d)
      PROVE  Mover(d) /\ RowsKept
  <2>1. d \in Requests /\ {"purging", "done", "failed", "notfound"} \subseteq Steps
    BY DEF Requests, Steps
  <2>2. \E pc \in Steps : GoTo(d, pc)
    BY <1>6, <2>1 DEF Delete, DeleteItems, DeleteConversation, DeleteFails, DeleteItem
  <2>3. answered' = answered
    BY <1>6 DEF Delete, DeleteItems, DeleteConversation, DeleteFails, DeleteItem
  <2>4. RowsKept
    BY <1>6 DEF Delete, DeleteItems, DeleteConversation, DeleteFails, DeleteItem
  <2> QED
    BY <2>1, <2>2, <2>3, <2>4, GoToMoves
<1>7. ASSUME NEW r \in Requests,
             \/ r \in Chained /\ loadChainItems(r)
             \/ r \in Turns /\ (Generate(r) \/ persistResponse(r))
             \/ r \in Posts /\ CreateItems(r)
             \/ r \in Writers /\ (Stored(r) \/ StoreFails(r))
             \/ r \in (Lists \cup Deletes)
      PROVE  Walks(r)
  BY <1>7, RequestKinds DEF Walks, Generate, persistResponse, CreateItems, Stored, StoreFails
<1> QED
  BY <1>1, <1>2, <1>3, <1>4, <1>5, <1>6, <1>7, RequestKinds DEF Next, Responses, Store, Requests, Writers

-----------------------------------------------------------------------------
(* The order of the items, and the history of a turn                        *)

\* Writers keep to their course.
LEMMA WriterKept ==
    ASSUME ConversationAssumption, LocalsTyped, WriterInv, Next
    PROVE  WriterInv'
<1> USE RequestKinds DEF WriterInv, Ended
<1>0. /\ Items \in Nat /\ \A r \in Requests : req[r].next \in 1..(Items + 1)
      /\ LocalsTyped
  BY DEF LocalsTyped, Locals, ConversationAssumption
<1>1. ASSUME NEW r \in Requests, FindConversation(r)
      PROVE  WriterInv'
  BY <1>0, <1>1, FindEffect DEF ghosts
<1>2. ASSUME NEW r \in Requests, LoadItems(r)
      PROVE  WriterInv'
  BY <1>0, <1>2, LoadEffect DEF ghosts
<1>3. ASSUME NEW r \in Writers, ReadMaxSeq(r)
      PROVE  WriterInv'
  BY <1>0, <1>3, ReadEffect DEF ghosts
<1>4. ASSUME NEW r \in Writers, Insert(r)
      PROVE  WriterInv'
  BY <1>0, <1>4, InsertEffect DEF ghosts
<1>5. ASSUME NEW r \in Requests, Mover(r)
      PROVE  WriterInv'
  BY <1>0, <1>5 DEF Mover, Moved
<1> QED
  BY <1>1, <1>2, <1>3, <1>4, <1>5, StepKinds

\* While the numbers of the rows have a bound, maxSeq is the greatest of them, or 0.
LEMMA MaxSeqBounds ==
    ASSUME TypeOK, BoundInv
    PROVE  maxSeq \in Nat /\ \A x \in rows : x.seq <= maxSeq
<1> DEFINE S == {0} \cup {x.seq : x \in rows}
<1>1. S \subseteq Nat /\ S # {}
  BY DEF TypeOK, Row
<1>2. PICK b \in Nat : \A k \in S : k <= b
  BY DEF BoundInv
<1>3. maxSeq = Max(S)
  BY DEF maxSeq
<1>4. \A x \in rows : x.seq \in S
  OBVIOUS
<1> HIDE DEF S
<1> QED
  BY <1>1, <1>2, <1>3, <1>4, Greatest

\* A step adds one row at most.
LEMMA BoundKept ==
    ASSUME ConversationAssumption, TypeOK, WriterInv, BoundInv, Next
    PROVE  BoundInv'
<1>0. LocalsTyped /\ \A x \in rows : x.seq \in Nat
  BY DEF TypeOK, LocalsTyped, Row
<1>1. CASE rows' \subseteq rows
  BY <1>1, FS_Subset DEF BoundInv
<1>2. ASSUME NEW w \in Writers, Insert(w)
      PROVE  BoundInv'
  <2> DEFINE y == [id |-> IdOf(w, req[w].next), by |-> w, n |-> req[w].next,
                   seq |-> req[w].maxSeq + 1]
  <2>1. rows' = rows \cup {y} /\ y.seq = req[w].maxSeq + 1 /\ req[w].maxSeq \in Nat
    BY <1>0, <1>2, InsertEffect, RequestKinds DEF LocalsTyped, Locals
  <2> HIDE DEF y
  <2>2. IsFiniteSet(rows')
    BY <2>1, FS_AddElement DEF BoundInv
  <2>3. PICK b \in Nat : \A x \in rows : x.seq <= b
    BY DEF BoundInv
  <2>4. b + y.seq \in Nat /\ \A x \in rows' : x.seq <= b + y.seq
    BY <1>0, <2>1, <2>3
  <2> QED
    BY <2>2, <2>4 DEF BoundInv
<1> QED
  BY <1>0, <1>1, <1>2, StepKinds DEF RowsKept, FindConversation, LoadItems, ReadMaxSeq, tables

\* The numbering of the rows goes on where it was read.
LEMMA SeqKept ==
    ASSUME ConversationAssumption, TypeOK, WriterInv, SeqInv, BoundInv, Next
    PROVE  SeqInv'
<1> USE RequestKinds, MaxSeqBounds DEF SeqInv
<1>0. /\ Items \in Nat /\ LocalsTyped
      /\ \A r \in Requests : /\ req[r].next \in 1..(Items + 1) /\ req[r].maxSeq \in Nat
                             /\ req[r].follows \subseteq Writers
      /\ \A x \in rows : x.by \in Writers /\ x.n \in Nat \ {0} /\ x.seq \in Nat
  BY DEF LocalsTyped, Locals, ConversationAssumption, TypeOK, Row
<1>1. ASSUME NEW r \in Requests, FindConversation(r)
      PROVE  SeqInv'
  <2>1. \A q \in Requests : /\ req'[q].next = req[q].next /\ req'[q].maxSeq = req[q].maxSeq
                            /\ req'[q].follows = req[q].follows
    BY <1>0, <1>1, FindEffect
  <2>2. rows' = rows
    BY <1>1 DEF FindConversation, tables
  <2> QED
    BY <1>0, <2>1, <2>2
<1>2. ASSUME NEW r \in Requests, LoadItems(r)
      PROVE  SeqInv'
  <2>1. \A q \in Requests : /\ req'[q].next = req[q].next /\ req'[q].maxSeq = req[q].maxSeq
                            /\ req'[q].follows = req[q].follows
    BY <1>0, <1>2, LoadEffect
  <2>2. rows' = rows
    BY <1>2 DEF LoadItems, tables
  <2> QED
    BY <1>0, <2>1, <2>2
<1>3. ASSUME NEW r \in Writers, ReadMaxSeq(r)
      PROVE  SeqInv'
  <2>1. /\ req[r].next = 1 /\ req'[r].next = 1 /\ req'[r].maxSeq = maxSeq
        /\ req'[r].follows = stored
        /\ \A q \in Requests \ {r} : req'[q] = req[q]
        /\ rows' = rows
    BY <1>0, <1>3, ReadEffect DEF WriterInv, Ended, tables
  <2>2. \A x \in rows : x.by # r
    BY <1>0, <2>1
  <2>3. \A v \in stored : req'[v].next > Items
    BY <1>0, <2>1 DEF stored
  <2>4. \A x \in rows : x.seq + 1 <= maxSeq + 1
    BY <1>0
  <2>5. \A w \in Writers : \A v \in req'[w].follows : req'[v].next > Items
    BY <1>0, <2>1, <2>3
  <2>6. \A w \in Writers : \A x \in rows :
           x.by \in req'[w].follows => x.seq + req'[w].next <= req'[w].maxSeq + 1
    BY <1>0, <2>1, <2>4
  <2> QED
    BY <1>0, <2>1, <2>2, <2>5, <2>6
<1>4. ASSUME NEW r \in Writers, Insert(r)
      PROVE  SeqInv'
  <2> DEFINE y == [id |-> IdOf(r, req[r].next), by |-> r, n |-> req[r].next,
                   seq |-> req[r].maxSeq + 1]
  <2>1. /\ req[r].next <= Items /\ rows' = rows \cup {y}
        /\ req'[r].next = req[r].next + 1 /\ req'[r].maxSeq = req[r].maxSeq + 1
        /\ req'[r].follows = req[r].follows
        /\ \A q \in Requests \ {r} : req'[q] = req[q]
    BY <1>0, <1>4, InsertEffect
  <2>2. y.by = r /\ y.n = req[r].next /\ y.seq = req[r].maxSeq + 1
    OBVIOUS
  <2> HIDE DEF y
  <2>3. \A w \in Writers : r \notin req[w].follows
    BY <1>0, <2>1
  <2>4. \A x \in rows' : /\ x.n < req'[x.by].next
                         /\ x.seq + req'[x.by].next = req'[x.by].maxSeq + x.n + 1
    <3>1. ASSUME NEW x \in rows, x.by = r
          PROVE  x.n < req'[x.by].next /\ x.seq + req'[x.by].next = req'[x.by].maxSeq + x.n + 1
      BY <1>0, <2>1, <3>1
    <3>2. ASSUME NEW x \in rows, x.by # r
          PROVE  x.n < req'[x.by].next /\ x.seq + req'[x.by].next = req'[x.by].maxSeq + x.n + 1
      BY <1>0, <2>1, <3>2
    <3>3. y.n < req'[y.by].next /\ y.seq + req'[y.by].next = req'[y.by].maxSeq + y.n + 1
      BY <1>0, <2>1, <2>2
    <3> QED
      BY <2>1, <3>1, <3>2, <3>3
  <2>5. \A w \in Writers : \A v \in req'[w].follows : req'[v].next > Items
    BY <1>0, <2>1, <2>3
  <2>6. \A w \in Writers : \A x \in rows' :
           x.by \in req'[w].follows => x.seq + req'[w].next <= req'[w].maxSeq + 1
    BY <1>0, <2>1, <2>2, <2>3
  <2> QED
    BY <2>4, <2>5, <2>6
<1>5. ASSUME NEW r \in Requests, Mover(r), RowsKept
      PROVE  SeqInv'
  <2>1. \A q \in Requests : /\ req'[q].next = req[q].next /\ req'[q].maxSeq = req[q].maxSeq
                            /\ req'[q].follows = req[q].follows
    BY <1>5 DEF Mover, Moved
  <2>2. rows' \subseteq rows
    BY <1>5 DEF RowsKept
  <2> QED
    BY <1>0, <2>1, <2>2
<1> QED
  BY <1>0, <1>1, <1>2, <1>3, <1>4, <1>5, StepKinds

\* Which puts the items in their order.
LEMMA SeqOrdersItems ==
    ASSUME ConversationAssumption, TypeOK, SeqInv
    PROVE  TurnOrder
<1> SUFFICES ASSUME NEW x \in rows, NEW y \in rows,
                    (x.by = y.by /\ x.n < y.n) \/ x.by \in req[y.by].follows
             PROVE  x.seq < y.seq
  BY DEF TurnOrder
<1>1. /\ x.n \in Nat /\ y.n \in Nat \ {0} /\ x.seq \in Nat /\ y.seq \in Nat
      /\ y.by \in Writers /\ y.by \in Requests
  BY RequestKinds DEF TypeOK, Row, ConversationAssumption
<1>2. req[y.by].next \in Nat /\ req[y.by].maxSeq \in Nat
  BY <1>1 DEF TypeOK, Locals, ConversationAssumption
<1>3. /\ x.seq + req[x.by].next = req[x.by].maxSeq + x.n + 1
      /\ y.seq + req[y.by].next = req[y.by].maxSeq + y.n + 1
      /\ x.by \in req[y.by].follows => x.seq + req[y.by].next <= req[y.by].maxSeq + 1
  BY <1>1 DEF SeqInv
<1> QED
  BY <1>1, <1>2, <1>3

\* What is stored stays stored or is remembered, and an answer that was not streamed
\* means that everything was stored before.
LEMMA HistoryKept ==
    ASSUME ConversationAssumption, TypeOK, WriterInv, HistoryInv, HistoryComplete, Next
    PROVE  HistoryInv' /\ HistoryComplete'
<1> USE RequestKinds
<1>0. /\ Items \in Nat /\ LocalsTyped /\ answered \subseteq Writers
      /\ \A r \in Requests : req[r].next \in 1..(Items + 1) /\ req[r].after \subseteq Writers
  BY DEF LocalsTyped, Locals, ConversationAssumption, TypeOK
<1> DEFINE known == ids(rows) \cup ids(removed)
<1>1. ASSUME NEW r \in Requests, FindConversation(r)
      PROVE  HistoryInv' /\ HistoryComplete'
  <2>1. /\ \A q \in Requests \ {r} : req'[q] = req[q]
        /\ req[r].pc = "new" /\ req'[r].pc \in {"found", "notfound"}
        /\ req'[r].next = req[r].next /\ req'[r].after \subseteq answered
        /\ UNCHANGED <<rows, removed, answered>>
    BY <1>0, <1>1, FindEffect DEF tables, ghosts
  <2>2. r \in Writers => req[r].next = 1
    BY <2>1 DEF WriterInv, Ended
  <2>3. HistoryInv'
    BY <1>0, <2>1, <2>2 DEF HistoryInv, IdOf, ids
  <2>4. HistoryComplete'
    BY <1>0, <2>1 DEF HistoryComplete, PastLoading, At, Ids, ids
  <2> QED
    BY <2>3, <2>4
<1>2. ASSUME NEW t \in Requests, LoadItems(t)
      PROVE  HistoryInv' /\ HistoryComplete'
  <2>1. /\ t \in Turns
        /\ \A q \in Requests \ {t} : req'[q] = req[q]
        /\ req[t].pc = "found"
        /\ req'[t].pc = "notfound" \/ (req'[t].pc = "asking" /\ req'[t].history = ids(rows))
        /\ \A q \in Requests : /\ req'[q].next = req[q].next /\ req'[q].first = req[q].first
                               /\ req'[q].after = req[q].after
        /\ UNCHANGED <<rows, removed, answered>>
    BY <1>0, <1>2, LoadEffect DEF tables, ghosts
  <2>2. HistoryInv'
    BY <1>0, <2>1 DEF HistoryInv, IdOf, ids
  <2>3. ASSUME t \notin Chained, PastLoading(t)',
               NEW w \in req[t].after \ (Streamed \cup Chained), At(w, "done")'
        PROVE  Ids(w)' \subseteq ids(rows) \cup ids(removed)
    <3>1. w \in Writers \ Chained /\ req[w].pc \in Ended /\ w # t
      BY <2>1, <2>3, <1>0 DEF HistoryInv, WriterInv, Ended
    <3>2. req[w].next > Items
      BY <2>1, <2>3, <3>1 DEF WriterInv, At
    <3>3. \A n \in 1..Items : IdOf(w, n) \in ids(rows) \cup ids(removed)
      BY <1>0, <3>1, <3>2 DEF HistoryInv
    <3>4. Ids(w) \subseteq ids(rows) \cup ids(removed)
      <4>1. IdOf(w, 1) = req[w].first /\ \A n \in 2..Items : IdOf(w, n) = [by |-> w, n |-> n]
        BY <1>0 DEF IdOf
      <4>2. 1 \in 1..Items
        BY DEF ConversationAssumption
      <4> QED
        BY <1>0, <3>3, <4>1, <4>2 DEF Ids
    <3> QED
      BY <2>1, <3>1, <3>4 DEF Ids
  <2>4. HistoryComplete'
    <3>1. \A u \in (Turns \ Chained) \ {t} : \A w \in req[u].after \ (Streamed \cup Chained) :
             PastLoading(u)' /\ At(w, "done")' => Ids(w)' \subseteq (req[u].history \cup ids(removed))
      BY <1>0, <2>1 DEF HistoryComplete, PastLoading, At, Ids
    <3>2. PastLoading(t)' => req'[t].history = ids(rows)
      BY <2>1 DEF PastLoading
    <3>3. ids(removed)' = ids(removed)
      BY <2>1 DEF ids
    <3> QED
      BY <2>1, <2>3, <3>1, <3>2, <3>3 DEF HistoryComplete
  <2> QED
    BY <2>2, <2>4
<1>3. ASSUME NEW r \in Writers, ReadMaxSeq(r)
      PROVE  HistoryInv' /\ HistoryComplete'
  <2>1. /\ \A q \in Requests \ {r} : req'[q] = req[q]
        /\ req[r].pc = "storing" /\ req'[r].pc = "inserting"
        /\ req'[r].next = req[r].next /\ req'[r].after = req[r].after
        /\ req'[r].first = req[r].first /\ req'[r].history = req[r].history
        /\ UNCHANGED <<rows, removed, answered>>
    BY <1>0, <1>3, ReadEffect DEF tables, ghosts
  <2>2. HistoryInv'
    BY <1>0, <2>1 DEF HistoryInv, IdOf, ids
  <2>3. HistoryComplete'
    BY <1>0, <2>1 DEF HistoryComplete, PastLoading, At, Ids, ids
  <2> QED
    BY <2>2, <2>3
<1>4. ASSUME NEW r \in Writers, Insert(r)
      PROVE  HistoryInv' /\ HistoryComplete'
  <2>1. /\ \A q \in Requests \ {r} : req'[q] = req[q]
        /\ req[r].pc = "inserting" /\ req'[r].pc = "inserting"
        /\ req'[r].next = req[r].next + 1 /\ req'[r].after = req[r].after
        /\ req'[r].first = req[r].first /\ req'[r].history = req[r].history
        /\ UNCHANGED <<removed, answered>>
    BY <1>0, <1>4, InsertEffect DEF ghosts
  <2> DEFINE y == [id |-> IdOf(r, req[r].next), by |-> r, n |-> req[r].next,
                   seq |-> req[r].maxSeq + 1]
  <2>4. rows' = rows \cup {y} /\ y.id = IdOf(r, req[r].next)
    BY <1>0, <1>4, InsertEffect
  <2> HIDE DEF y
  <2>5. ids(rows)' = ids(rows) \cup {IdOf(r, req[r].next)} /\ ids(removed)' = ids(removed)
    BY <2>1, <2>4 DEF ids
  <2>6. \A w \in Writers : \A n : IdOf(w, n)' = IdOf(w, n)
    BY <2>1 DEF IdOf
  <2>7. \A n \in 1..(req'[r].next - 1) : n = req[r].next \/ n \in 1..(req[r].next - 1)
    BY <1>0, <2>1
  <2>8. \A w \in Writers \ Chained : \A n \in 1..(req'[w].next - 1) :
            IdOf(w, n)' \in ids(rows)' \cup ids(removed)'
    BY <2>1, <2>5, <2>6, <2>7 DEF HistoryInv
  <2>2. HistoryInv'
    BY <1>0, <2>1, <2>8 DEF HistoryInv
  <2>3. HistoryComplete'
    BY <1>0, <2>1 DEF HistoryComplete, PastLoading, At, Ids, ids
  <2> QED
    BY <2>2, <2>3
<1>5. ASSUME NEW r \in Requests, Mover(r), RowsKept
      PROVE  HistoryInv' /\ HistoryComplete'
  <2>1. /\ \A q \in Requests \ {r} : req'[q] = req[q]
        /\ req'[r].next = req[r].next /\ req'[r].after = req[r].after
        /\ req'[r].first = req[r].first /\ req'[r].history = req[r].history
        /\ answered \subseteq answered'
    BY <1>5 DEF Mover, Moved
  <2>2. ids(rows') \cup ids(removed') = known /\ ids(removed) \subseteq ids(removed')
    BY <1>5 DEF RowsKept, ids
  <2>3. HistoryInv'
    BY <1>0, <2>1, <2>2 DEF HistoryInv, IdOf, ids
  <2>4. \A t \in Turns \ Chained : PastLoading(t)' => PastLoading(t)
    BY <2>1, <1>5 DEF Mover, Moved, PastLoading, WriterInv
  <2>5. \A t \in Turns \ Chained : PastLoading(t) =>
           \A w \in req[t].after \ (Streamed \cup Chained) : At(w, "done")' => At(w, "done")
    <3>1. \A w \in answered \ Streamed : req[w].pc \in Ended
      BY <1>0 DEF WriterInv
    <3>2. req[r].pc = "failed" => r \notin Writers \/ req'[r].pc = "failed"
      BY <1>5 DEF Mover, Moved
    <3> TAKE t \in Turns \ Chained
    <3> HAVE PastLoading(t)
    <3> TAKE w \in req[t].after \ (Streamed \cup Chained)
    <3>3. w \in answered \ Streamed /\ w \in Writers /\ w \in Requests
      BY <1>0 DEF HistoryInv
    <3>4. CASE w = r
      BY <3>1, <3>2, <3>3, <3>4 DEF At, Ended
    <3>5. CASE w # r
      BY <2>1, <3>3, <3>5 DEF At
    <3> QED
      BY <3>4, <3>5
  <2>6. ASSUME NEW t \in Turns \ Chained, PastLoading(t)',
               NEW w \in req'[t].after \ (Streamed \cup Chained), At(w, "done")'
        PROVE  Ids(w)' \subseteq req'[t].history \cup ids(removed')
    <3>1. /\ PastLoading(t) /\ t \in Requests
          /\ req'[t].after = req[t].after /\ req'[t].history = req[t].history
      BY <2>1, <2>4, <2>6
    <3>2. w \in req[t].after \ (Streamed \cup Chained) /\ w \in Writers /\ w \in Requests
      BY <1>0, <3>1
    <3>3. At(w, "done")
      BY <2>5, <2>6, <3>1, <3>2
    <3>4. Ids(w) \subseteq req[t].history \cup ids(removed)
      BY <3>1, <3>2, <3>3 DEF HistoryComplete
    <3>5. Ids(w)' = Ids(w)
      BY <2>1, <3>2 DEF Ids
    <3> QED
      BY <2>2, <3>1, <3>4, <3>5
  <2>7. HistoryComplete'
    BY <2>2, <2>6 DEF HistoryComplete, ids
  <2> QED
    BY <2>3, <2>7
<1> QED
  BY <1>0, <1>1, <1>2, <1>3, <1>4, <1>5, StepKinds

-----------------------------------------------------------------------------
(* The chain of previous responses                                          *)

\* A response put in front of a line of them.
LEMMA InFront ==
    ASSUME NEW S, NEW s \in Seq(S), NEW e \in S
    PROVE  /\ <<e>> \o s \in Seq(S) /\ Len(<<e>> \o s) = Len(s) + 1
           /\ (<<e>> \o s)[1] = e
           /\ \A i \in 1..Len(s) : (<<e>> \o s)[i + 1] = s[i]
OBVIOUS

\* The records of a chain are found by id, and no response has two.
LEMMA CurrentIs ==
    ASSUME TypeOK, NEW t \in Chained, chain[t].found # <<>>,
           NEW z \in records, z.id = chain[t].found[1]
    PROVE  current(t) = z.previous
<1>1. Head(chain[t].found) = chain[t].found[1]
  BY DEF TypeOK, Walk
<1>2. \A x \in records : x.id = Head(chain[t].found) => x = z
  BY <1>1 DEF TypeOK
<1>3. (CHOOSE x \in records : x.id = Head(chain[t].found)) = z
  BY <1>1, <1>2
<1> QED
  BY <1>3 DEF current

\* A step that neither walks nor records leaves the walk of a response as it is.
LEMMA WalkStays ==
    ASSUME NEW t \in Chained, Line(t), Progress(t),
           records' = records, chain'[t] = chain[t], answered \subseteq answered',
           \/ req'[t].pc = req[t].pc
           \/ /\ req'[t].pc \notin {"new", "walking"}
              /\ PastLoading(t)' => PastLoading(t)
    PROVE  Line(t)' /\ Progress(t)'
<1>1. ids(records)' = ids(records) /\ (Exhausted(t) => Exhausted(t)')
  BY DEF Exhausted, ids
<1>2. /\ PastLoading(t)' => PastLoading(t)
      /\ req'[t].pc \in {"new", "walking"} => req'[t].pc = req[t].pc
  BY DEF PastLoading
<1>3. Line(t)'
  BY <1>1 DEF Line
<1>4. Progress(t)'
  BY <1>1, <1>2 DEF Progress
<1> QED
  BY <1>3, <1>4

\* The first step names a response that has been answered, or none.
LEMMA FollowKept ==
    ASSUME ConversationAssumption, TypeOK, WalkInv, NEW t \in Chained, Follow(t)
    PROVE  WalkInv'
<1>0. t \in Requests /\ chain \in [Chained -> Walk] /\ MaxDepth \in Nat \ {0}
  BY RequestKinds DEF TypeOK, ConversationAssumption
<1>1. PICK p \in (answered \cap Turns) \cup {Nothing} :
          /\ chain' = [chain EXCEPT ![t].previous = p]
          /\ GoTo(t, IF p = Nothing THEN "asking" ELSE "walking")
  BY DEF Follow
<1>2. /\ \A q \in Requests \ {t} : req'[q] = req[q]
      /\ req'[t].pc = IF p = Nothing THEN "asking" ELSE "walking"
  BY <1>0, <1>1, GoToMoves DEF TypeOK, LocalsTyped, Moved
<1>3. /\ chain'[t].previous = p /\ chain'[t].found = chain[t].found
      /\ \A s \in Chained \ {t} : chain'[s] = chain[s]
  BY <1>0, <1>1 DEF Walk
<1>4. chain[t].found = <<>> /\ records' = records /\ answered' = answered
  BY DEF Follow, At, WalkInv, Progress, tables, ghosts
<1>5. Line(t)' /\ Progress(t)'
  <2>1. Len(<<>>) = 0 /\ chain'[t].found = <<>>
    BY <1>3, <1>4
  <2>2. Line(t)'
    BY <2>1 DEF Line
  <2>3. Progress(t)'
    BY <1>0, <1>1, <1>2, <1>3, <1>4, <2>1 DEF Progress, PastLoading
  <2> QED
    BY <2>2, <2>3
<1>6. ASSUME NEW s \in Chained \ {t}
      PROVE  Line(s)' /\ Progress(s)'
  <2>1. s \in Requests /\ Line(s) /\ Progress(s)
    BY RequestKinds DEF WalkInv
  <2> QED
    BY <1>2, <1>3, <1>4, <2>1, WalkStays
<1> QED
  BY <1>5, <1>6 DEF WalkInv

\* Each further one finds the response before, which is not the turn itself.
LEMMA WalkKept ==
    ASSUME ConversationAssumption, TypeOK, RecordInv, WalkInv,
           NEW t \in Chained, WalkChain(t) \/ ChainEnds(t)
    PROVE  WalkInv'
<1>0. /\ t \in Requests /\ chain \in [Chained -> Walk] /\ MaxDepth \in Nat \ {0}
      /\ records' = records /\ answered' = answered /\ req[t].pc = "walking"
  BY RequestKinds DEF TypeOK, ConversationAssumption, WalkChain, ChainEnds, At, tables, ghosts
<1> DEFINE f == chain[t].found
<1>1. /\ Line(t) /\ Progress(t) /\ f \in Seq(Turns) /\ Len(f) \in Nat
      /\ \A s \in Chained \ {t} : Line(s) /\ Progress(s) /\ s \in Requests
  <2>1. chain[t] \in Walk
    BY <1>0
  <2>2. f \in Seq(Turns)
    BY <2>1 DEF Walk
  <2>3. Len(f) \in Nat
    BY <2>2
  <2> QED
    BY <2>2, <2>3, RequestKinds DEF WalkInv
<1>2. ASSUME \A s \in Chained \ {t} : chain'[s] = chain[s] /\ req'[s] = req[s]
      PROVE  \A s \in Chained \ {t} : Line(s)' /\ Progress(s)'
  BY <1>0, <1>1, <1>2, WalkStays
<1>3. CASE WalkChain(t)
  <2>1. PICK x \in records :
          /\ x.id = current(t)
          /\ chain' = [chain EXCEPT ![t].found = <<x.id>> \o @]
          /\ GoTo(t, IF x.previous = Nothing \/ Len(f) + 1 = MaxDepth THEN "asking" ELSE "walking")
    BY <1>3 DEF WalkChain
  <2> DEFINE g == <<x.id>> \o f
  <2>2. /\ \A q \in Requests \ {t} : req'[q] = req[q]
        /\ req'[t].pc = IF x.previous = Nothing \/ Len(f) + 1 = MaxDepth THEN "asking" ELSE "walking"
    BY <1>0, <2>1, GoToMoves DEF TypeOK, LocalsTyped, Moved
  <2>3. /\ chain'[t].previous = chain[t].previous /\ chain'[t].found = g
        /\ chain'[t].broken = chain[t].broken
        /\ \A s \in Chained \ {t} : chain'[s] = chain[s]
    <3>1. chain' = [chain EXCEPT ![t].found = g]
      BY <2>1
    <3> HIDE DEF g
    <3> QED
      BY <1>0, <3>1 DEF Walk
  <2>4. x.id \in Turns /\ x.id # t /\ x.id \in ids(records)
    BY <1>0 DEF RecordInv, Ended, TypeOK, Record, ids
  <2>5. /\ g # <<>> /\ Len(g) = Len(f) + 1 /\ g[1] = x.id
        /\ \A i \in 1..Len(f) : g[i + 1] = f[i]
    BY <1>1, <2>4, InFront
  <2>6. \A z \in records : z.id = x.id => z = x
    BY DEF TypeOK
  <2>10. \A s \in Chained \ {t} : chain'[s] = chain[s] /\ req'[s] = req[s]
    BY <1>1, <2>2, <2>3
  <2>7. CASE f = <<>>
    <3>1. x.id = chain[t].previous /\ Len(f) = 0
      BY <2>1, <2>7 DEF current
    <3> HIDE DEF g, f
    <3>2. /\ \A i \in 1..Len(g) : g[i] = x.id
          /\ \A i \in 1..(Len(g) - 1) : FALSE
          /\ g[Len(g)] = chain[t].previous
      BY <2>5, <3>1
    <3>3. PastLoading(t)' => Len(g) = MaxDepth \/ x.previous = Nothing
      BY <2>2, <2>5 DEF PastLoading
    <3>4. x.previous = Nothing => Exhausted(t)'
      BY <1>0, <2>3, <2>5, <2>6 DEF Exhausted
    <3>5. ids(records)' = ids(records)
      BY <1>0 DEF ids
    <3>6. Line(t)'
      BY <2>3, <2>4, <3>2, <3>5 DEF Line
    <3>7. chain'[t].previous = Nothing \/ chain'[t].previous \in answered'
      BY <1>0, <1>1, <2>3 DEF Progress
    <3>8. Len(g) <= MaxDepth /\ (req'[t].pc = "walking" =>
              Len(g) < MaxDepth /\ x.previous # Nothing /\ chain[t].previous # Nothing)
      BY <1>0, <1>1, <2>2, <2>5 DEF Progress, f
    <3>9. req'[t].pc # "new"
      BY <2>2
    <3>10. Progress(t)'
      BY <1>0, <2>3, <2>5, <2>6, <3>3, <3>4, <3>7, <3>8, <3>9 DEF Progress
    <3> QED
      BY <1>2, <2>10, <3>6, <3>10 DEF WalkInv
  <2>8. CASE f # <<>>
    <3>1. f[1] \in ids(records) /\ Len(f) >= 1 /\ f[Len(f)] = chain[t].previous
      BY <1>1, <2>8 DEF Line
    <3>2. PICK z \in records : z.id = f[1] /\ z.previous = x.id
      <4>1. PICK z \in records : z.id = f[1]
        BY <3>1 DEF ids
      <4> QED
        BY <2>1, <2>8, <4>1, CurrentIs
    <3> HIDE DEF g, f
    <3>3. \A i \in 1..Len(g) : g[i] \in ids(records) /\ g[i] # t
      <4> TAKE i \in 1..Len(g)
      <4>1. CASE i = 1
        BY <2>4, <2>5, <4>1
      <4>2. CASE i # 1
        <5>1. i - 1 \in 1..Len(f) /\ g[i] = f[i - 1]
          BY <1>1, <2>5, <4>2
        <5> QED
          BY <1>1, <5>1 DEF Line, f
      <4> QED
        BY <4>1, <4>2
    <3>4. \A i \in 1..(Len(g) - 1) : \E y \in records : y.id = g[i + 1] /\ y.previous = g[i]
      <4> TAKE i \in 1..(Len(g) - 1)
      <4>1. CASE i = 1
        BY <2>5, <3>1, <3>2, <4>1
      <4>2. CASE i # 1
        <5>1. i - 1 \in 1..(Len(f) - 1) /\ g[i] = f[i - 1] /\ g[i + 1] = f[(i - 1) + 1]
          BY <1>1, <2>5, <4>2
        <5>2. \E y \in records : y.id = f[(i - 1) + 1] /\ y.previous = f[i - 1]
          BY <1>1, <5>1 DEF Line, f
        <5> QED
          BY <5>1, <5>2
      <4> QED
        BY <4>1, <4>2
    <3>5. g[Len(g)] = chain[t].previous
      BY <1>1, <2>5, <3>1
    <3>6. PastLoading(t)' => Len(g) = MaxDepth \/ x.previous = Nothing
      BY <2>2, <2>5 DEF PastLoading
    <3>7. x.previous = Nothing => Exhausted(t)'
      BY <1>0, <2>3, <2>5, <2>6 DEF Exhausted
    <3>8. ids(records)' = ids(records)
      BY <1>0 DEF ids
    <3>9. Len(g) <= MaxDepth /\ (req'[t].pc = "walking" =>
              Len(g) < MaxDepth /\ x.previous # Nothing /\ chain[t].previous # Nothing)
      BY <1>0, <1>1, <2>2, <2>5 DEF Progress, f
    <3>10. Line(t)'
      BY <1>0, <2>3, <3>3, <3>4, <3>5, <3>8 DEF Line
    <3>11. chain'[t].previous = Nothing \/ chain'[t].previous \in answered'
      BY <1>0, <1>1, <2>3 DEF Progress
    <3>12. req'[t].pc # "new"
      BY <2>2
    <3>13. Progress(t)'
      BY <1>0, <2>3, <2>5, <2>6, <3>6, <3>7, <3>9, <3>11, <3>12 DEF Progress
    <3> QED
      BY <1>2, <2>10, <3>10, <3>13 DEF WalkInv
  <2> QED
    BY <2>7, <2>8
<1>4. CASE ChainEnds(t)
  <2>2. /\ chain'[t].previous = chain[t].previous /\ chain'[t].found = f
        /\ \A s \in Chained \ {t} : chain'[s] = chain[s]
    BY <1>0, <1>4 DEF ChainEnds, Walk
  <2>3. /\ \A q \in Requests \ {t} : req'[q] = req[q]
        /\ \/ req'[t].pc = "notfound"
           \/ /\ req'[t].pc = "asking"
              /\ chain'[t].broken \/ (f # <<>> /\ current(t) \notin ids(records))
    <3>1. CASE GoTo(t, IF f = <<>> THEN "notfound" ELSE "asking") /\ current(t) \notin ids(records)
      BY <1>0, <3>1, GoToMoves DEF TypeOK, LocalsTyped, Moved
    <3>2. CASE GoTo(t, "asking") /\ chain' = [chain EXCEPT ![t].broken = TRUE]
      BY <1>0, <3>2, GoToMoves DEF TypeOK, LocalsTyped, Moved, Walk
    <3> QED
      BY <1>4, <3>1, <3>2 DEF ChainEnds
  <2>4. f # <<>> /\ current(t) \notin ids(records) => Exhausted(t)'
    <3>1. ASSUME f # <<>>, current(t) \notin ids(records), NEW z \in records, z.id = f[1]
          PROVE  z.previous \notin ids(records)
      BY <3>1, CurrentIs
    <3> QED
      BY <1>0, <2>2, <3>1 DEF Exhausted, ids
  <2>5. Line(t)' /\ Progress(t)'
    <3>0. ids(records)' = ids(records)
      BY <1>0 DEF ids
    <3>1. Line(t)'
      BY <1>0, <1>1, <2>2, <3>0 DEF Line
    <3> HIDE DEF f
    <3>2. Progress(t)'
      BY <1>0, <1>1, <2>2, <2>3, <2>4 DEF Progress, PastLoading, f
    <3> QED
      BY <3>1, <3>2
  <2>6. \A s \in Chained \ {t} : chain'[s] = chain[s] /\ req'[s] = req[s]
    BY <1>1, <2>2, <2>3
  <2> QED
    BY <1>2, <2>5, <2>6 DEF WalkInv
<1> QED
  BY <1>3, <1>4

\* A new record belongs to none of the lines, since it comes before its answer, or
\* is that of a stream.
LEMMA PersistKept ==
    ASSUME ConversationAssumption, TypeOK, WriterInv, RecordInv, WalkInv,
           NEW u \in Turns, persistResponse(u)
    PROVE  RecordInv' /\ WalkInv'
<1>0. /\ u \in Requests /\ req[u].pc = "recording" /\ chain' = chain /\ answered \subseteq answered'
      /\ Chained \subseteq Requests /\ records \subseteq Record
      /\ Nothing \notin Turns
  BY RequestKinds DEF TypeOK, persistResponse, At, Answer, ConversationAssumption
<1>1. /\ \A q \in Requests \ {u} : req'[q] = req[q]
      /\ req'[u].pc = IF u \in Chained THEN "done" ELSE "storing"
  <2>1. GoTo(u, IF u \in Chained THEN "done" ELSE "storing")
    BY DEF persistResponse
  <2> QED
    BY <1>0, <2>1, GoToMoves DEF TypeOK, LocalsTyped, Moved
<1> DEFINE p == IF u \in Chained THEN chain[u].previous ELSE Nothing
           x == [id |-> u, previous |-> p]
<1>2. records' = records \/ records' = records \cup {x}
  BY DEF persistResponse
<1>3. x.id = u /\ x.previous = p /\ (p # Nothing => p \in answered)
  BY DEF WalkInv, Progress
<1> HIDE DEF x, p
<1>4. \A z \in records : z.id # u /\ z.id \in Requests
  <2>1. \A z \in records : z.id \in Turns /\ Turns \subseteq Requests
    BY <1>0, RequestKinds DEF Record
  <2> QED
    BY <1>0, <2>1 DEF RecordInv, Ended
<1>5. RecordInv'
  <2>1. ASSUME NEW z \in records'
        PROVE  /\ req'[z.id].pc \in Ended \cup {"storing", "inserting"}
               /\ z.previous # Nothing => z.previous \in answered'
    <3>1. CASE z \in records
      BY <1>0, <1>1, <1>4, <3>1 DEF RecordInv
    <3>2. CASE z \notin records
      BY <1>0, <1>1, <1>2, <1>3, <3>2 DEF Ended
    <3> QED
      BY <3>1, <3>2
  <2> QED
    BY <2>1 DEF RecordInv, Ended
<1>6. ASSUME NEW t \in Chained
      PROVE  Line(t)' /\ Progress(t)'
  <2>1. Line(t) /\ Progress(t) /\ t \in Requests
    BY <1>0 DEF WalkInv
  <2>2. ids(records) \subseteq ids(records)' /\ records \subseteq records'
    BY <1>2 DEF ids
  <2>3. ids(records)' \subseteq ids(records) \cup {u}
    BY <1>2, <1>3 DEF ids
  <2>4. chain[t].found # <<>> => chain[t].found[1] \in ids(records) /\ chain[t].found[1] # u
    <3>1. chain[t] \in Walk
      BY DEF TypeOK
    <3>2. chain[t].found # <<>> => 1 \in 1..Len(chain[t].found)
      BY <3>1 DEF Walk
    <3> QED
      BY <1>4, <2>1, <3>2 DEF Line, ids
  <2>5. \A z \in records' : chain[t].found # <<>> /\ z.id = chain[t].found[1] => z \in records
    BY <1>2, <1>3, <2>4
  <2>6. Exhausted(t) => Exhausted(t)'
    <3>1. ASSUME Exhausted(t), NEW z \in records, z.id = chain[t].found[1]
          PROVE  z.previous = Nothing \/ z.previous \notin ids(records)' \/ z.previous \in Streamed
      <4>1. z.previous = u => u \in answered
        BY <1>0 DEF RecordInv
      <4>2. u \in answered => u \in Streamed
        BY <1>0, RequestKinds DEF WriterInv, Ended
      <4> QED
        BY <2>3, <3>1, <4>1, <4>2 DEF Exhausted
    <3> QED
      BY <1>0, <2>5, <3>1 DEF Exhausted
  <2>7. Line(t)'
    BY <1>0, <2>1, <2>2 DEF Line
  <2>8. /\ PastLoading(t)' => PastLoading(t)
        /\ req'[t].pc \in {"new", "walking"} => req'[t].pc = req[t].pc
    BY <1>0, <1>1, <2>1 DEF PastLoading
  <2>9. Progress(t)'
    BY <1>0, <2>1, <2>5, <2>6, <2>8 DEF Progress
  <2> QED
    BY <2>7, <2>9
<1> QED
  BY <1>5, <1>6 DEF WalkInv

\* The records and the walks along them, whatever the step.
LEMMA ChainKept ==
    ASSUME ConversationAssumption, TypeOK, WriterInv, RecordInv, WalkInv, Next
    PROVE  RecordInv' /\ WalkInv'
<1>0. LocalsTyped /\ \A x \in records : x.id \in Writers
  BY RequestKinds DEF TypeOK, LocalsTyped, Record
<1>1. ASSUME NEW u \in Turns, persistResponse(u)
      PROVE  RecordInv' /\ WalkInv'
  BY <1>1, PersistKept
<1>2. ASSUME records' = records,
             NEW r \in Requests,
             \/ FindConversation(r) \/ LoadItems(r)
             \/ (r \in Writers /\ ReadMaxSeq(r)) \/ (r \in Writers /\ Insert(r))
             \/ Mover(r)
      PROVE  RecordInv' /\ answered \subseteq answered'
  <2>1. \A q \in Requests \ {r} : req'[q] = req[q]
    BY <1>0, <1>2, OneMoves
  <2>2. answered \subseteq answered'
    BY <1>2 DEF Mover, FindConversation, LoadItems, ReadMaxSeq, Insert, ghosts
  <2>3. r \in Writers /\ req[r].pc \in Ended \cup {"storing", "inserting"} =>
            req'[r].pc \in Ended \cup {"storing", "inserting"}
    BY <1>0, <1>2, FindEffect, LoadEffect, ReadEffect, InsertEffect, RequestKinds
       DEF Mover, Moved, Ended
  <2> QED
    BY <1>0, <1>2, <2>1, <2>2, <2>3, RequestKinds DEF RecordInv
<1>3. ASSUME records' = records, chain' = chain, NEW r \in Requests,
             \/ FindConversation(r) \/ LoadItems(r)
             \/ (r \in Writers /\ ReadMaxSeq(r)) \/ (r \in Writers /\ Insert(r))
             \/ (Mover(r) /\ (r \in Chained => req[r].pc \notin {"new", "walking"}))
      PROVE  WalkInv'
  <2>1. answered \subseteq answered'
    BY <1>2, <1>3
  <2>2. ASSUME NEW t \in Chained
        PROVE  \/ req'[t].pc = req[t].pc
               \/ /\ req'[t].pc \notin {"new", "walking"}
                  /\ PastLoading(t)' => PastLoading(t)
    <3>1. t \in Requests /\ t \in Turns /\ t \notin Posts /\ t \in Writers
      BY RequestKinds
    <3>2. CASE t # r
      <4>1. \A q \in Requests \ {r} : req'[q] = req[q]
        BY <1>0, <1>3, OneMoves
      <4> QED
        BY <3>1, <3>2, <4>1
    <3>3. CASE t = r /\ Mover(r)
      <4>1. r \in Turns /\ r \in Requests /\ r \notin Posts /\ r \notin Lists \cup Deletes
        BY <3>1, <3>3, RequestKinds
      <4>2. ASSUME NEW pc, Moved(r, pc)
            PROVE  req'[r].pc = pc
        BY <4>2 DEF Moved
      <4>3. CASE req[r].pc \notin {"new", "walking"}
        <5>1. /\ req'[r].pc \in {"failed", "recording", "done", "storing"}
              /\ req[r].pc \in {"asking", "recording", "storing", "inserting"}
          BY <3>3, <4>1, <4>2, <4>3 DEF Mover
        <5> QED
          BY <3>3, <5>1 DEF PastLoading
      <4>4. CASE req[r].pc \in {"new", "walking"}
        BY <1>0, <1>3, <3>3, <4>4, FindEffect, LoadEffect, ReadEffect, InsertEffect
      <4> QED
        BY <4>3, <4>4
    <3>4. CASE t = r /\ ~Mover(r)
      BY <1>0, <1>3, <3>1, <3>4, FindEffect, LoadEffect, ReadEffect, InsertEffect
         DEF WriterInv, PastLoading
    <3> QED
      BY <3>2, <3>3, <3>4
  <2> QED
    BY <1>3, <2>1, <2>2, WalkStays DEF WalkInv
<1>4. ASSUME NEW t \in Chained, loadChainItems(t)
      PROVE  RecordInv' /\ WalkInv'
  <2>1. records' = records /\ answered' = answered
    BY <1>4 DEF loadChainItems, Follow, WalkChain, ChainEnds, tables, ghosts
  <2>2. WalkInv'
    BY <1>4, FollowKept, WalkKept DEF loadChainItems
  <2>3. t \in Requests /\ req[t].pc \notin Ended \cup {"storing", "inserting"}
        /\ \A q \in Requests \ {t} : req'[q] = req[q]
    <3>1. t \in Requests /\ req[t].pc \in {"new", "walking"} /\ \E pc : GoTo(t, pc)
      BY <1>4, RequestKinds DEF loadChainItems, Follow, WalkChain, ChainEnds, At
    <3> QED
      BY <1>0, <3>1, GoToMoves DEF Moved, Ended
  <2>4. RecordInv'
    BY <1>0, <2>1, <2>3, RequestKinds DEF RecordInv
  <2> QED
    BY <2>2, <2>4
<1>5. CASE /\ ~ \E u \in Turns : persistResponse(u)
           /\ ~ \E t \in Chained : loadChainItems(t)
  <2>1. records' = records /\ chain' = chain
    BY <1>5 DEF Next, Responses, LoadItems, Generate, CreateItems, Store, ReadMaxSeq, Insert, Stored,
       StoreFails, List, FindCursor, ListItems, ListFails, Delete, DeleteItems,
       DeleteConversation, DeleteFails, DeleteItem, FindConversation, tables
  <2>2. PICK r \in Requests :
              \/ FindConversation(r) \/ LoadItems(r)
              \/ (r \in Writers /\ ReadMaxSeq(r)) \/ (r \in Writers /\ Insert(r))
              \/ Mover(r) /\ Walks(r)
    BY <1>0, StepKinds
  <2>3. RecordInv'
    BY <1>2, <2>1, <2>2
  <2>4. WalkInv'
    BY <1>3, <1>5, <2>1, <2>2 DEF Walks
  <2> QED
    BY <2>3, <2>4
<1> QED
  BY <1>1, <1>4, <1>5

\* So the turn is given a line of responses, as far back as it goes.
LEMMA WalkGivesLine ==
    ASSUME ConversationAssumption, TypeOK, WalkInv
    PROVE  ChainSound
<1> SUFFICES ASSUME NEW t \in Chained, PastLoading(t), chain[t].previous # Nothing
             PROVE  LET line == Append(chain[t].found, t)
                        link(u, v) == \/ v = t /\ u = chain[t].previous
                                      \/ \E x \in records : x.id = v /\ x.previous = u
                    IN  /\ \A i \in 1..(Len(line) - 1) : link(line[i], line[i + 1])
                        /\ Len(chain[t].found) <= MaxDepth
                        /\ \/ Len(chain[t].found) = MaxDepth \/ chain[t].broken
                           \/ \A x \in records : ~link(x.id, Head(line)) \/ x.id \in Streamed
  BY DEF ChainSound
<1> DEFINE f == chain[t].found
           line == Append(f, t)
           link(u, v) == \/ v = t /\ u = chain[t].previous
                         \/ \E x \in records : x.id = v /\ x.previous = u
<1>1. /\ Line(t) /\ Progress(t) /\ t \in Turns /\ f \in Seq(Turns) /\ Len(f) \in Nat
      /\ Nothing \notin Turns /\ \A x \in records : x.id \in Turns
  <2>1. chain[t] \in Walk
    BY DEF TypeOK
  <2>2. f \in Seq(Turns)
    BY <2>1 DEF Walk
  <2> QED
    BY <2>2, RequestKinds DEF TypeOK, Record, WalkInv, ConversationAssumption
<1>2. /\ Len(line) = Len(f) + 1 /\ line[Len(f) + 1] = t
      /\ \A i \in 1..Len(f) : line[i] = f[i]
  BY <1>1
<1>3. ASSUME NEW i \in 1..Len(f)
      PROVE  link(line[i], line[i + 1])
  <2>1. CASE i = Len(f)
    BY <1>1, <1>2, <2>1 DEF Line
  <2>2. CASE i # Len(f)
    <3>1. i \in 1..(Len(f) - 1) /\ line[i] = f[i] /\ line[i + 1] = f[i + 1]
      BY <1>1, <1>2, <2>2
    <3> QED
      BY <1>1, <3>1 DEF Line
  <2> QED
    BY <2>1, <2>2
<1>4. ASSUME Exhausted(t), NEW x \in records, link(x.id, Head(line))
      PROVE  x.id \in Streamed
  <2>1. Head(line) = f[1] /\ f[1] # t
    <3>1. 1 \in 1..Len(f) /\ Head(line) = line[1]
      BY <1>1, <1>2, <1>4 DEF Exhausted
    <3> QED
      BY <1>1, <1>2, <3>1 DEF Line
  <2>2. PICK z \in records : z.id = f[1] /\ z.previous = x.id
    BY <1>4, <2>1
  <2>3. x.id \in ids(records) /\ x.id # Nothing
    BY <1>1 DEF ids
  <2> QED
    BY <1>4, <2>2, <2>3 DEF Exhausted
<1>5. Len(f) <= MaxDepth /\ (Len(f) = MaxDepth \/ chain[t].broken \/ Exhausted(t))
  BY <1>1 DEF Progress
<1>6. \A i \in 1..(Len(line) - 1) : link(line[i], line[i + 1])
  <2>1. Len(line) - 1 = Len(f)
    BY <1>1, <1>2
  <2> HIDE DEF link, line
  <2> QED
    BY <1>3, <2>1
<1>7. \/ Len(f) = MaxDepth \/ chain[t].broken
      \/ \A x \in records : ~link(x.id, Head(line)) \/ x.id \in Streamed
  BY <1>4, <1>5
<1> QED
  BY <1>5, <1>6, <1>7

-----------------------------------------------------------------------------
(* Types                                                                    *)

\* A step of a request keeps the form of its locals, if its new place is one.
LEMMA GoToTyped ==
    ASSUME LocalsTyped, NEW r \in Requests, NEW pc \in Steps, GoTo(r, pc)
    PROVE  LocalsTyped'
<1>1. [req[r] EXCEPT !.pc = pc] \in Locals
  BY DEF LocalsTyped, Locals
<1>2. req' = [req EXCEPT ![r] = [req[r] EXCEPT !.pc = pc]]
  BY DEF GoTo, LocalsTyped
<1> QED
  BY <1>1, <1>2 DEF LocalsTyped

\* A field that gets a value of its own type keeps the form of the locals.
LEMMA FieldTyped ==
    ASSUME NEW l \in Locals
    PROVE  /\ \A v \in Steps : [l EXCEPT !.pc = v] \in Locals
           /\ \A v \in Nat : [l EXCEPT !.maxSeq = v] \in Locals
           /\ \A v \in [by : Requests, n : 1..Items] : [l EXCEPT !.first = v] \in Locals
           /\ \A v \in SUBSET Writers : [l EXCEPT !.after = v] \in Locals
           /\ \A v \in SUBSET Writers : [l EXCEPT !.follows = v] \in Locals
<1>1. \A v \in Steps : [l EXCEPT !.pc = v] \in Locals
  BY DEF Locals
<1>2. \A v \in Nat : [l EXCEPT !.maxSeq = v] \in Locals
  BY DEF Locals
<1>3. \A v \in [by : Requests, n : 1..Items] : [l EXCEPT !.first = v] \in Locals
  BY DEF Locals
<1>4. \A v \in SUBSET Writers : [l EXCEPT !.after = v] \in Locals
  BY DEF Locals
<1>5. \A v \in SUBSET Writers : [l EXCEPT !.follows = v] \in Locals
  BY DEF Locals
<1> QED
  BY <1>1, <1>2, <1>3, <1>4, <1>5

\* The ids of well formed rows are items.
LEMMA IdsAreItems ==
    ASSUME TypeOK
    PROVE  /\ ids(rows) \subseteq Item /\ ids(removed) \subseteq Item
           /\ \A S \in SUBSET rows : ids(S) \subseteq Item
BY DEF TypeOK, ids, Row

\* The locals of every request.
LEMMA LocalsKept ==
    ASSUME ConversationAssumption, TypeOK, BoundInv, Next
    PROVE  LocalsTyped'
<1> USE RequestKinds
<1>0. /\ LocalsTyped /\ answered \subseteq Writers /\ Items \in Nat \ {0}
      /\ {"new", "found", "walking", "asking", "recording", "storing", "inserting", "purging",
          "querying", "done", "notfound", "failed"} = Steps
  BY DEF TypeOK, LocalsTyped, ConversationAssumption, Steps
<1>1. ASSUME NEW r \in Requests, NEW pc \in Steps, GoTo(r, pc)
      PROVE  LocalsTyped'
  BY <1>0, <1>1, GoToTyped
<1>2. ASSUME NEW r \in Requests, FindConversation(r)
      PROVE  LocalsTyped'
  <2>1. PICK pc \in {IF deleted THEN "notfound" ELSE "found"} \cup
                 (IF "read" \in Faults THEN {"notfound"} ELSE {}),
             first \in {req[r].first} \cup
                    (IF r \in Resent THEN {[by |-> w, n |-> Items] : w \in answered \cap Turns}
                     ELSE {}) :
            req' = [req EXCEPT ![r].pc = pc, ![r].first = first,
                               ![r].after = IF r \in Turns THEN answered ELSE {}]
    BY <1>2 DEF FindConversation
  <2>6. pc \in Steps /\ first \in [by : Requests, n : 1..Items] /\ req[r] \in Locals
    <3>1. req[r].first \in [by : Requests, n : 1..Items] /\ req[r] \in Locals
      BY <1>0 DEF LocalsTyped, Locals
    <3>2. \A w \in answered \cap Turns : [by |-> w, n |-> Items] \in [by : Requests, n : 1..Items]
      BY <1>0
    <3> QED
      BY <1>0, <3>1, <3>2
  <2> DEFINE after == IF r \in Turns THEN answered ELSE {}
  <2>2. req' = [req EXCEPT ![r].pc = pc, ![r].first = first, ![r].after = after]
    BY <2>1
  <2>3. after \subseteq Writers
    BY <1>0
  <2> HIDE DEF after
  <2>4. [[[req[r] EXCEPT !.pc = pc] EXCEPT !.first = first] EXCEPT !.after = after] \in Locals
    BY <2>3, <2>6, FieldTyped
  <2>5. req' = [req EXCEPT ![r] = [[[req[r] EXCEPT !.pc = pc] EXCEPT !.first = first]
                                       EXCEPT !.after = after]]
    BY <1>0, <2>2 DEF LocalsTyped
  <2> QED
    BY <1>0, <2>4, <2>5 DEF LocalsTyped
<1>3. ASSUME NEW t \in Turns, LoadItems(t)
      PROVE  LocalsTyped'
  <2>1. ASSUME req' = [req EXCEPT ![t].pc = "asking", ![t].history = ids(rows)]
        PROVE  LocalsTyped'
    <3> DEFINE h == ids(rows)
    <3>1. req' = [req EXCEPT ![t].pc = "asking", ![t].history = h] /\ h \subseteq Item
      BY <2>1, IdsAreItems
    <3> HIDE DEF h
    <3> QED
      BY <1>0, <3>1 DEF LocalsTyped, Locals
  <2> QED
    BY <1>0, <1>1, <1>3, <2>1 DEF LoadItems
<1>4. ASSUME NEW w \in Writers, ReadMaxSeq(w)
      PROVE  LocalsTyped'
  <2> DEFINE m == maxSeq
             f == stored
  <2>1. /\ req' = [req EXCEPT ![w].pc = "inserting", ![w].maxSeq = m, ![w].follows = f]
        /\ m \in Nat /\ f \subseteq Writers
    BY <1>4, MaxSeqBounds DEF ReadMaxSeq, stored
  <2> HIDE DEF m, f
  <2>2. [[[req[w] EXCEPT !.pc = "inserting"] EXCEPT !.maxSeq = m] EXCEPT !.follows = f] \in Locals
    BY <1>0, <2>1, FieldTyped DEF LocalsTyped
  <2>3. req' = [req EXCEPT ![w] = [[[req[w] EXCEPT !.pc = "inserting"] EXCEPT !.maxSeq = m]
                                       EXCEPT !.follows = f]]
    BY <1>0, <2>1 DEF LocalsTyped
  <2> QED
    BY <1>0, <2>2, <2>3 DEF LocalsTyped
<1>5. ASSUME NEW w \in Writers, Insert(w)
      PROVE  LocalsTyped'
  <2>1. /\ req' = [req EXCEPT ![w].maxSeq = @ + 1, ![w].next = @ + 1]
        /\ req[w].maxSeq + 1 \in Nat /\ req[w].next + 1 \in 1..(Items + 1)
    BY <1>0, <1>5 DEF Insert, LocalsTyped, Locals
  <2> QED
    BY <1>0, <2>1 DEF LocalsTyped, Locals
<1>6. ASSUME NEW t \in Chained, loadChainItems(t)
      PROVE  LocalsTyped'
  <2>1. \E pc \in {"asking", "walking", "notfound"} : GoTo(t, pc)
    <3>1. CASE Follow(t)
      <4>1. PICK p : GoTo(t, IF p = Nothing THEN "asking" ELSE "walking")
        BY <3>1 DEF Follow
      <4> QED
        BY <4>1
    <3>2. CASE WalkChain(t) \/ ChainEnds(t)
      BY <3>2 DEF WalkChain, ChainEnds
    <3> QED
      BY <1>6, <3>1, <3>2 DEF loadChainItems
  <2> QED
    BY <1>0, <1>1, <2>1
<1>7. ASSUME NEW t \in Turns, Generate(t) \/ persistResponse(t)
      PROVE  LocalsTyped'
  BY <1>0, <1>1, <1>7 DEF Generate, persistResponse
<1>8. ASSUME NEW p \in Posts, CreateItems(p)
      PROVE  LocalsTyped'
  BY <1>0, <1>1, <1>8 DEF CreateItems
<1>9. ASSUME NEW w \in Writers, Stored(w) \/ StoreFails(w)
      PROVE  LocalsTyped'
  BY <1>0, <1>1, <1>9 DEF Stored, StoreFails
<1>10. ASSUME NEW r \in Lists \cup Deletes, List(r) \/ Delete(r)
       PROVE  LocalsTyped'
  <2>1. \E pc \in Steps : GoTo(r, pc)
    BY <1>0, <1>10 DEF List, FindCursor, ListItems, ListFails, Delete, DeleteItems,
       DeleteConversation, DeleteFails, DeleteItem
  <2> QED
    BY <1>1, <2>1 DEF Requests
<1> QED
  BY <1>2, <1>3, <1>4, <1>5, <1>6, <1>7, <1>8, <1>9, <1>10 DEF Next, Responses, Store

\* A chain is extended by responses.
LEMMA ChainTyped ==
    ASSUME ConversationAssumption, TypeOK, Next
    PROVE  chain' \in [Chained -> Walk]
<1>0. chain \in [Chained -> Walk] /\ records \subseteq Record
  BY DEF TypeOK
<1>1. ASSUME NEW t \in Chained, Follow(t)
      PROVE  chain' \in [Chained -> Walk]
  <2>1. PICK p \in Turns \cup {Nothing} : chain' = [chain EXCEPT ![t].previous = p]
    BY <1>1 DEF Follow
  <2> QED
    BY <1>0, <2>1 DEF Walk
<1>2. ASSUME NEW t \in Chained, WalkChain(t)
      PROVE  chain' \in [Chained -> Walk]
  <2>1. PICK x \in records : chain' = [chain EXCEPT ![t].found = <<x.id>> \o @]
    BY <1>2 DEF WalkChain
  <2> DEFINE g == <<x.id>> \o chain[t].found
  <2>2. chain[t].found \in Seq(Turns) /\ x.id \in Turns
    BY <1>0 DEF Walk, Record
  <2>3. g \in Seq(Turns) /\ chain' = [chain EXCEPT ![t].found = g]
    BY <2>1, <2>2, InFront
  <2> HIDE DEF g
  <2> QED
    BY <1>0, <2>3 DEF Walk
<1>3. ASSUME NEW t \in Chained, ChainEnds(t)
      PROVE  chain' \in [Chained -> Walk]
  <2>1. [chain[t] EXCEPT !.broken = TRUE] \in Walk
    BY <1>0 DEF Walk
  <2>2. chain' = chain \/ chain' = [chain EXCEPT ![t] = [chain[t] EXCEPT !.broken = TRUE]]
    BY <1>0, <1>3 DEF ChainEnds
  <2> QED
    BY <1>0, <2>1, <2>2
<1>4. CASE chain' = chain
  BY <1>0, <1>4
<1> QED
  BY <1>1, <1>2, <1>3, <1>4 DEF Next, loadChainItems, Responses, LoadItems, Generate, persistResponse,
     CreateItems, Store, ReadMaxSeq, Insert, Stored, StoreFails, List, FindCursor, ListItems,
     ListFails, Delete, DeleteItems, DeleteConversation, DeleteFails, DeleteItem, FindConversation

\* A page continues the items given with those of rows beyond the cursor.
LEMMA PageTyped ==
    ASSUME ConversationAssumption, TypeOK, BoundInv, Next
    PROVE  page' \in [Lists -> Paging]
<1>0. /\ page \in [Lists -> Paging] /\ rows \subseteq Row /\ IsFiniteSet(rows) /\ Limit \in Nat
      /\ \A x \in rows : x.id \in Item /\ x.seq \in Nat
  BY DEF TypeOK, BoundInv, ConversationAssumption, Row
<1>1. ASSUME NEW l \in Lists, FindCursor(l)
      PROVE  page' \in [Lists -> Paging]
  <2>0. page[l].desc \in BOOLEAN
    BY <1>0 DEF Paging
  <2>1. PICK desc \in IF page[l].given = <<>> THEN BOOLEAN ELSE {page[l].desc},
             lost \in IF "read" \in Faults /\ page[l].after # Nothing THEN BOOLEAN ELSE {FALSE} :
          LET cursor == IF lost THEN {} ELSE {x \in rows : x.id = page[l].after}
          IN  /\ lost => ~page[l].lost
              /\ page' = [page EXCEPT ![l].desc = desc, ![l].lost = @ \/ lost,
                             ![l].from = IF cursor = {} THEN 0 ELSE Max({x.seq : x \in cursor}),
                             ![l].present = IF page[l].given = <<>> THEN ids(rows) ELSE @]
    BY <1>1 DEF FindCursor
  <2> DEFINE cursor  == IF lost THEN {} ELSE {x \in rows : x.id = page[l].after}
             from    == IF cursor = {} THEN 0 ELSE Max({x.seq : x \in cursor})
             present == IF page[l].given = <<>> THEN ids(rows) ELSE page[l].present
             gone    == page[l].lost \/ lost
  <2>2. page' = [page EXCEPT ![l].desc = desc, ![l].lost = gone,
                             ![l].from = from, ![l].present = present]
    BY <1>0, <2>1
  <2>3. from \in Nat
    <3>1. CASE cursor # {}
      <4> DEFINE S == {x.seq : x \in cursor}
      <4>1. S \subseteq Nat /\ S # {}
        BY <1>0, <3>1
      <4>2. PICK b \in Nat : \A k \in S : k <= b
        BY DEF BoundInv
      <4>3. Max(S) \in S
        <5> HIDE DEF S
        <5> QED
          BY <4>1, <4>2, Greatest
      <4> QED
        BY <3>1, <4>1, <4>3
    <3> QED
      BY <3>1
  <2>4. present \subseteq Item /\ gone \in BOOLEAN
    BY <1>0, IdsAreItems DEF Paging
  <2> HIDE DEF from, present, gone
  <2> DEFINE p == [[[[page[l] EXCEPT !.desc = desc] EXCEPT !.lost = gone] EXCEPT !.from = from]
                      EXCEPT !.present = present]
  <2>5. p \in Paging
    <3>1. /\ \A y \in Paging : [y EXCEPT !.desc = desc] \in Paging
          /\ \A y \in Paging : [y EXCEPT !.lost = gone] \in Paging
      BY <2>0, <2>4 DEF Paging
    <3>2. /\ \A y \in Paging : [y EXCEPT !.from = from] \in Paging
          /\ \A y \in Paging : [y EXCEPT !.present = present] \in Paging
      BY <2>3, <2>4 DEF Paging
    <3> QED
      BY <1>0, <3>1, <3>2
  <2>6. page' = [page EXCEPT ![l] = p]
    BY <1>0, <2>2
  <2> HIDE DEF p
  <2> QED
    BY <1>0, <2>5, <2>6
<1>2. ASSUME NEW l \in Lists, ListItems(l)
      PROVE  page' \in [Lists -> Paging]
  <2> DEFINE k == Min({Limit, Cardinality(beyond(l))})
  <2>1. k \in Nat
    <3>1. Cardinality(beyond(l)) \in Nat
      <4>1. beyond(l) \subseteq rows
        BY DEF beyond
      <4> QED
        BY <1>0, <4>1, FS_Subset, FS_CardinalityType
    <3>2. \A m, n \in Nat : Min({m, n}) \in Nat
      <4> TAKE m, n \in Nat
      <4>1. \E x \in {m, n} : \A y \in {m, n} : x <= y
        OBVIOUS
      <4> QED
        BY <4>1 DEF Min
    <3> QED
      BY <1>0, <3>1, <3>2
  <2>2. PICK q \in FirstOf(beyond(l), k, page[l].desc) :
            page' = [page EXCEPT ![l].given = @ \o [i \in 1..k |-> q[i].id],
                                 ![l].after = IF k = 0 THEN @ ELSE q[k].id]
    BY <1>2 DEF ListItems
  <2>3. q \in [1..k -> rows]
    BY <2>2 DEF FirstOf, beyond
  <2> DEFINE more  == [i \in 1..k |-> q[i].id]
             given == page[l].given \o more
             after == IF k = 0 THEN page[l].after ELSE q[k].id
  <2>4. page' = [page EXCEPT ![l].given = given, ![l].after = after]
    BY <1>0, <2>2
  <2> HIDE DEF k
  <2>5. more \in Seq(Item)
    <3>1. more \in [1..k -> Item]
      BY <1>0, <2>3
    <3> HIDE DEF more
    <3> QED
      BY <2>1, <3>1
  <2>6. given \in Seq(Item)
    <3>1. page[l].given \in Seq(Item)
      BY <1>0 DEF Paging
    <3> HIDE DEF more
    <3> QED
      BY <2>5, <3>1
  <2>7. after \in Item \cup {Nothing}
    <3>1. page[l].after \in Item \cup {Nothing}
      BY <1>0 DEF Paging
    <3> QED
      BY <1>0, <2>1, <2>3, <3>1
  <2> HIDE DEF given, after
  <2> DEFINE p == [[page[l] EXCEPT !.given = given] EXCEPT !.after = after]
  <2>8. p \in Paging
    <3>1. \A y \in Paging : [y EXCEPT !.given = given] \in Paging
      BY <2>6 DEF Paging
    <3>2. \A y \in Paging : [y EXCEPT !.after = after] \in Paging
      BY <2>7 DEF Paging
    <3> QED
      BY <1>0, <3>1, <3>2
  <2>9. page' = [page EXCEPT ![l] = p]
    BY <1>0, <2>4
  <2> HIDE DEF p
  <2> QED
    BY <1>0, <2>8, <2>9
<1>3. CASE page' = page
  BY <1>0, <1>3
<1> QED
  BY <1>1, <1>2, <1>3 DEF Next, loadChainItems, Follow, WalkChain, ChainEnds, Responses, LoadItems,
     Generate, persistResponse, CreateItems, Store, ReadMaxSeq, Insert, Stored, StoreFails, List,
     ListFails, Delete, DeleteItems, DeleteConversation, DeleteFails, DeleteItem, FindConversation

\* The item a writer begins with is that of a writer.
LEMMA FirstTyped ==
    ASSUME ConversationAssumption, TypeOK, WriterInv, Next
    PROVE  \A w \in Writers : req'[w].first \in Item
<1>0. /\ LocalsTyped /\ Items \in Nat \ {0} /\ answered \subseteq Writers
      /\ \A w \in Writers : req[w].first \in Item /\ w \in Requests
  BY RequestKinds DEF TypeOK, LocalsTyped, ConversationAssumption
<1>1. \A w \in answered : [by |-> w, n |-> Items] \in Item
  BY <1>0 DEF Item
<1>2. ASSUME NEW r \in Requests, FindConversation(r)
      PROVE  \A w \in Writers : req'[w].first \in Item
  <2>1. /\ \A q \in Requests \ {r} : req'[q] = req[q]
        /\ \/ req'[r].first = req[r].first
           \/ \E w \in answered \cap Turns : req'[r].first = [by |-> w, n |-> Items]
    BY <1>0, <1>2, FindEffect
  <2>2. r \in Writers => req'[r].first \in Item
    BY <1>0, <1>1, <2>1
  <2> QED
    BY <1>0, <2>1, <2>2
<1>3. ASSUME NEW r \in Requests, LoadItems(r)
      PROVE  \A w \in Writers : req'[w].first \in Item
  BY <1>0, <1>3, LoadEffect
<1>4. ASSUME NEW r \in Writers, ReadMaxSeq(r) \/ Insert(r)
      PROVE  \A w \in Writers : req'[w].first \in Item
  BY <1>0, <1>4, ReadEffect, InsertEffect
<1>5. ASSUME NEW r \in Requests, Mover(r)
      PROVE  \A w \in Writers : req'[w].first \in Item
  BY <1>0, <1>5 DEF Mover, Moved
<1> QED
  BY <1>0, <1>2, <1>3, <1>4, <1>5, StepKinds

\* Rows and answers are of writers, and an id is stored once.
LEMMA TablesTyped ==
    ASSUME ConversationAssumption, TypeOK, WriterInv, Next
    PROVE  /\ rows' \subseteq Row /\ removed' \subseteq Row /\ answered' \subseteq Writers
           /\ \A x, y \in rows' : x.id = y.id => x = y
<1>0. /\ LocalsTyped /\ rows \subseteq Row /\ removed \subseteq Row /\ answered \subseteq Writers
      /\ \A x, y \in rows : x.id = y.id => x = y
  BY DEF TypeOK, LocalsTyped
<1>1. ASSUME NEW r \in Requests, FindConversation(r) \/ LoadItems(r) \/ ReadMaxSeq(r)
      PROVE  rows' = rows /\ removed' = removed /\ answered' = answered
  BY <1>1 DEF FindConversation, LoadItems, ReadMaxSeq, tables, ghosts
<1>2. ASSUME NEW w \in Writers, Insert(w)
      PROVE  /\ rows' \subseteq Row /\ removed' = removed /\ answered' = answered
             /\ \A x, y \in rows' : x.id = y.id => x = y
  <2> DEFINE z == [id |-> IdOf(w, req[w].next), by |-> w, n |-> req[w].next,
                   seq |-> req[w].maxSeq + 1]
  <2>1. /\ rows' = rows \cup {z} /\ IdOf(w, req[w].next) \notin ids(rows)
        /\ req[w].next <= Items /\ removed' = removed /\ answered' = answered
    BY <1>0, <1>2, InsertEffect, RequestKinds DEF ghosts
  <2>2. /\ w \in Requests /\ Items \in Nat \ {0}
        /\ req[w].next \in 1..(Items + 1) /\ req[w].maxSeq \in Nat /\ req[w].first \in Item
    BY <1>0, RequestKinds DEF TypeOK, LocalsTyped, Locals, ConversationAssumption
  <2>3. req[w].next \in 1..Items /\ IdOf(w, req[w].next) \in Item
    BY <2>1, <2>2 DEF IdOf, Item
  <2>4. z \in Row
    BY <2>2, <2>3 DEF Row
  <2>5. \A x \in rows : x.id # z.id
    BY <2>1 DEF ids
  <2> HIDE DEF z
  <2> QED
    BY <1>0, <2>1, <2>4, <2>5
<1>3. ASSUME NEW r \in Requests, Mover(r), RowsKept
      PROVE  /\ rows' \subseteq rows /\ removed' \subseteq removed \cup rows
             /\ answered' \subseteq Writers
  <2>1. answered' = answered \/ (answered' \subseteq answered \cup {r} /\ r \in Writers)
    BY <1>3, RequestKinds DEF Mover
  <2> QED
    BY <1>0, <1>3, <2>1 DEF RowsKept
<1> QED
  BY <1>0, <1>1, <1>2, <1>3, StepKinds, RequestKinds

\* A response is recorded once.
LEMMA RecordsTyped ==
    ASSUME ConversationAssumption, TypeOK, RecordInv, Next
    PROVE  /\ records' \subseteq Record
           /\ \A x, y \in records' : x.id = y.id => x = y
<1>0. records \subseteq Record /\ \A x, y \in records : x.id = y.id => x = y
  BY DEF TypeOK
<1>1. ASSUME NEW u \in Turns, persistResponse(u)
      PROVE  /\ records' \subseteq Record
             /\ \A x, y \in records' : x.id = y.id => x = y
  <2> DEFINE p == IF u \in Chained THEN chain[u].previous ELSE Nothing
             z == [id |-> u, previous |-> p]
  <2>1. records' = records \/ records' = records \cup {z}
    BY <1>1 DEF persistResponse
  <2>2. z \in Record /\ z.id = u
    BY DEF TypeOK, Walk, Record
  <2>3. \A x \in records : x.id # u
    BY <1>1 DEF persistResponse, At, RecordInv, Ended
  <2> HIDE DEF z
  <2> QED
    BY <1>0, <2>1, <2>2, <2>3
<1>2. CASE records' = records
  BY <1>0, <1>2
<1> QED
  BY <1>1, <1>2 DEF Next, loadChainItems, Follow, WalkChain, ChainEnds, Responses, LoadItems,
     Generate, CreateItems, Store, ReadMaxSeq, Insert, Stored, StoreFails, List, FindCursor,
     ListItems, ListFails, Delete, DeleteItems, DeleteConversation, DeleteFails, DeleteItem,
     FindConversation, tables

\* Every step keeps the types.
LEMMA TypeKept ==
    ASSUME ConversationAssumption, TypeOK, BoundInv, WriterInv, RecordInv, Next
    PROVE  TypeOK'
<1>1. deleted' \in BOOLEAN
  BY DEF TypeOK, Next, loadChainItems, Follow, WalkChain, ChainEnds, Responses, LoadItems, Generate,
     persistResponse, CreateItems, Store, ReadMaxSeq, Insert, Stored, StoreFails, List, FindCursor,
     ListItems, ListFails, Delete, DeleteItems, DeleteConversation, DeleteFails, DeleteItem,
     FindConversation, tables
<1>2. LocalsTyped' /\ \A w \in Writers : req'[w].first \in Item
  BY LocalsKept, FirstTyped
<1> QED
  BY <1>1, <1>2, ChainTyped, PageTyped, TablesTyped, RecordsTyped DEF TypeOK, LocalsTyped

-----------------------------------------------------------------------------
(* The pages of a client that lists the items                               *)

\* A set with one element has it for its greatest.
LEMMA MaxOfOne ==
    ASSUME NEW n \in Nat
    PROVE  Max({n}) = n
BY DEF Max

\* A cursor that is found gives its seq; one that is not gives none.
LEMMA CursorEffect ==
    ASSUME ConversationAssumption, TypeOK, NEW l \in Lists, FindCursor(l)
    PROVE  /\ req[l].pc = "found" /\ Moved(l, "querying")
           /\ \A m \in Lists \ {l} : page'[m] = page[m]
           /\ page'[l].given = page[l].given /\ page'[l].after = page[l].after
           /\ page'[l].present = IF page[l].given = <<>> THEN ids(rows) ELSE page[l].present
           /\ page[l].given # <<>> => page'[l].desc = page[l].desc
           /\ page'[l].desc \in BOOLEAN
           /\ page[l].lost => page'[l].lost
           /\ \/ page'[l].from = 0 /\ (page'[l].lost \/ \A x \in rows : x.id # page[l].after)
              \/ \E c \in rows : c.id = page[l].after /\ page'[l].from = c.seq
           /\ UNCHANGED <<tables, chain, ghosts>>
<1>1. PICK desc \in IF page[l].given = <<>> THEN BOOLEAN ELSE {page[l].desc},
           lost \in IF "read" \in Faults /\ page[l].after # Nothing THEN BOOLEAN ELSE {FALSE} :
          LET cursor == IF lost THEN {} ELSE {x \in rows : x.id = page[l].after}
          IN  /\ lost => ~page[l].lost
              /\ page' = [page EXCEPT ![l].desc = desc, ![l].lost = @ \/ lost,
                             ![l].from = IF cursor = {} THEN 0 ELSE Max({x.seq : x \in cursor}),
                             ![l].present = IF page[l].given = <<>> THEN ids(rows) ELSE @]
  BY DEF FindCursor
<1> DEFINE cursor  == IF lost THEN {} ELSE {x \in rows : x.id = page[l].after}
           from    == IF cursor = {} THEN 0 ELSE Max({x.seq : x \in cursor})
           present == IF page[l].given = <<>> THEN ids(rows) ELSE page[l].present
           gone    == page[l].lost \/ lost
<1>2. page' = [page EXCEPT ![l].desc = desc, ![l].lost = gone,
                           ![l].from = from, ![l].present = present]
  BY <1>1 DEF TypeOK
<1>3. \/ from = 0 /\ (gone \/ \A x \in rows : x.id # page[l].after)
      \/ \E c \in rows : c.id = page[l].after /\ from = c.seq
  <2>1. CASE cursor = {}
    BY <2>1
  <2>2. CASE cursor # {}
    <3>1. PICK c \in rows : c.id = page[l].after
      BY <2>2
    <3>2. cursor = {c}
      BY <2>2, <3>1 DEF TypeOK
    <3>3. {x.seq : x \in cursor} = {c.seq} /\ c.seq \in Nat
      BY <3>2 DEF TypeOK, Row
    <3>4. from = c.seq
      BY <2>2, <3>3, MaxOfOne
    <3> QED
      BY <3>1, <3>4
  <2> QED
    BY <2>1, <2>2
<1>4. desc \in BOOLEAN /\ (page[l].given # <<>> => desc = page[l].desc)
  BY DEF TypeOK, Paging
<1> HIDE DEF from, present, gone
<1>5. /\ \A m \in Lists \ {l} : page'[m] = page[m]
      /\ page'[l].given = page[l].given /\ page'[l].after = page[l].after
      /\ page'[l].present = present /\ page'[l].desc = desc
      /\ page'[l].lost = gone /\ page'[l].from = from
  BY <1>2 DEF TypeOK, Paging
<1>6. Moved(l, "querying")
  BY GoToMoves DEF FindCursor, TypeOK, LocalsTyped, Requests
<1> QED
  BY <1>3, <1>4, <1>5, <1>6 DEF FindCursor, At, gone, present

\* The smaller of two numbers.
LEMMA MinOfTwo ==
    ASSUME NEW m \in Nat, NEW n \in Nat
    PROVE  Min({m, n}) = IF m <= n THEN m ELSE n
<1>1. \E x \in {m, n} : \A y \in {m, n} : x <= y
  OBVIOUS
<1> QED
  BY <1>1 DEF Min

\* What a page adds to the items given before.
LEMMA PageGiven ==
    ASSUME NEW S, NEW s \in Seq(S), NEW k \in Nat, NEW q \in [1..k -> S]
    PROVE  /\ Range(s \o q) = Range(s) \cup {q[i] : i \in 1..k}
           /\ s \o q = <<>> <=> s = <<>> /\ k = 0
           /\ IsInjective(s) /\ IsInjective(q) /\ (\A i \in 1..k : q[i] \notin Range(s)) =>
                 IsInjective(s \o q)
<1>1. q \in Seq(S) /\ Len(q) = k /\ Len(s) \in Nat /\ DOMAIN q = 1..k /\ DOMAIN s = 1..Len(s)
  OBVIOUS
<1> DEFINE t == s \o q
<1>2. /\ t \in Seq(S) /\ Len(t) = Len(s) + k
      /\ DOMAIN t = 1..(Len(s) + k)
      /\ \A i \in 1..Len(s) : t[i] = s[i]
      /\ \A i \in (Len(s) + 1)..(Len(s) + k) : t[i] = q[i - Len(s)] /\ i - Len(s) \in 1..k
      /\ \A i \in 1..k : t[Len(s) + i] = q[i] /\ Len(s) + i \in DOMAIN t
  BY <1>1
<1> HIDE DEF t
<1>3. \A i \in DOMAIN t : i \in 1..Len(s) \/ i \in (Len(s) + 1)..(Len(s) + k)
  BY <1>1, <1>2
<1>4. \A i \in 1..Len(s) : i \in DOMAIN t
  BY <1>1, <1>2
<1>5. Range(t) = Range(s) \cup {q[i] : i \in 1..k}
  <2>1. ASSUME NEW e \in Range(t)
        PROVE  e \in Range(s) \cup {q[i] : i \in 1..k}
    <3>1. PICK j \in DOMAIN t : e = t[j]
      BY DEF Range
    <3>2. CASE j \in 1..Len(s)
      BY <1>1, <1>2, <3>1, <3>2 DEF Range
    <3>3. CASE j \in (Len(s) + 1)..(Len(s) + k)
      BY <1>1, <1>2, <3>1, <3>3
    <3> QED
      BY <1>3, <3>1, <3>2, <3>3
  <2>2. ASSUME NEW e \in Range(s)
        PROVE  e \in Range(t)
    BY <1>1, <1>2, <1>4 DEF Range
  <2>3. ASSUME NEW i \in 1..k
        PROVE  q[i] \in Range(t)
    BY <1>2 DEF Range
  <2> QED
    BY <2>1, <2>2, <2>3
<1>6. t = <<>> <=> s = <<>> /\ k = 0
  <2>1. t = <<>> <=> Len(t) = 0
    BY <1>2
  <2>2. s = <<>> <=> Len(s) = 0
    OBVIOUS
  <2> QED
    BY <1>1, <1>2, <2>1, <2>2
<1>7. ASSUME IsInjective(s), IsInjective(q), \A i \in 1..k : q[i] \notin Range(s)
      PROVE  IsInjective(t)
  <2> SUFFICES ASSUME NEW i \in DOMAIN t, NEW j \in DOMAIN t, t[i] = t[j]
               PROVE  i = j
    BY DEF IsInjective
  <2>1. CASE i \in 1..Len(s) /\ j \in 1..Len(s)
    BY <1>1, <1>2, <1>7, <2>1 DEF IsInjective
  <2>2. CASE i \notin 1..Len(s) /\ j \notin 1..Len(s)
    <3>1. /\ i - Len(s) \in 1..k /\ j - Len(s) \in 1..k
          /\ q[i - Len(s)] = q[j - Len(s)]
      BY <1>2, <1>3, <2>2
    <3>2. i - Len(s) = j - Len(s)
      BY <1>1, <1>7, <3>1 DEF IsInjective
    <3> QED
      BY <1>1, <1>2, <3>2
  <2>3. CASE i \in 1..Len(s) /\ j \notin 1..Len(s)
    BY <1>1, <1>2, <1>3, <1>7, <2>3 DEF Range
  <2>4. CASE i \notin 1..Len(s) /\ j \in 1..Len(s)
    BY <1>1, <1>2, <1>3, <1>7, <2>4 DEF Range
  <2> QED
    BY <2>1, <2>2, <2>3, <2>4
<1> QED
  BY <1>5, <1>6, <1>7 DEF t

\* A page of all that there is leaves nothing out.
LEMMA WholePage ==
    ASSUME NEW S, IsFiniteSet(S), NEW q \in [1..Cardinality(S) -> S], IsInjective(q)
    PROVE  \A x \in S : \E i \in 1..Cardinality(S) : q[i] = x
<1>1. Cardinality(S) \in Nat
  BY FS_CardinalityType
<1> DEFINE T == 1..Cardinality(S)
<1>2. q \in Injection(T, S)
  BY DEF Injection, IsInjective
<1>3. IsFiniteSet(T) /\ Cardinality(T) = Cardinality(S)
  BY <1>1, FS_Interval
<1>4. q \in Surjection(T, S)
  BY <1>2, <1>3, FS_Injection
<1> QED
  BY <1>4 DEF Surjection

\* The k rows q are the first beyond the cursor and are given to the client; the last
\* of them is its next cursor, unless they are all there is.
Served(l, k, q) ==
    /\ IsInjective(q)
    /\ \A i \in 1..k : \A x \in beyond(l) :
         before(x, q[i], page[l].desc) => \E j \in 1..(i - 1) : q[j] = x
    /\ Given(l)' = Given(l) \cup {q[i].id : i \in 1..k}
    /\ page'[l].given = <<>> <=> page[l].given = <<>> /\ k = 0
    /\ IsInjective(page[l].given) /\ (\A i \in 1..k : q[i].id \notin Given(l)) =>
          IsInjective(page'[l].given)
    /\ page'[l].after = IF k = 0 THEN page[l].after ELSE q[k].id
    /\ \/ req'[l].pc = "new" /\ k > 0
       \/ req'[l].pc = "done" /\ \A x \in beyond(l) : \E i \in 1..k : q[i] = x

\* Each page is served so.
LEMMA ListEffect ==
    ASSUME ConversationAssumption, TypeOK, BoundInv, NEW l \in Lists, ListItems(l)
    PROVE  /\ req[l].pc = "querying" /\ \A r \in Requests \ {l} : req'[r] = req[r]
           /\ \A m \in Lists \ {l} : page'[m] = page[m]
           /\ page'[l].desc = page[l].desc /\ page'[l].from = page[l].from
           /\ page'[l].present = page[l].present /\ page'[l].lost = page[l].lost
           /\ \E k \in Nat : \E q \in [1..k -> beyond(l)] : Served(l, k, q)
           /\ UNCHANGED <<tables, chain, ghosts>>
<1> DEFINE n == Cardinality(beyond(l))
           k == Min({Limit, n})
<1>0. /\ page \in [Lists -> Paging] /\ rows \subseteq Row /\ Limit \in Nat \ {0}
      /\ \A x \in rows : x.id \in Item
      /\ \A x, y \in rows : x.id = y.id => x = y
      /\ l \in Requests
  BY DEF TypeOK, ConversationAssumption, Row, Requests
<1>1. beyond(l) \subseteq rows /\ IsFiniteSet(beyond(l)) /\ n \in Nat
  <2>1. beyond(l) \subseteq rows
    BY DEF beyond
  <2> QED
    BY <2>1, FS_Subset, FS_CardinalityType DEF BoundInv
<1>2. k = (IF Limit <= n THEN Limit ELSE n) /\ k \in Nat
  BY <1>0, <1>1, MinOfTwo
<1>3. PICK q \in FirstOf(beyond(l), k, page[l].desc) :
          page' = [page EXCEPT ![l].given = @ \o [i \in 1..k |-> q[i].id],
                               ![l].after = IF k = 0 THEN @ ELSE q[k].id]
  BY DEF ListItems
<1> HIDE DEF k
<1>4. /\ q \in [1..k -> beyond(l)] /\ IsInjective(q)
      /\ \A i \in 1..k : \A x \in beyond(l) : before(x, q[i], page[l].desc) =>
            \E j \in 1..(i - 1) : q[j] = x
  BY <1>3 DEF FirstOf
<1> DEFINE more  == [i \in 1..k |-> q[i].id]
           given == page[l].given \o more
           after == IF k = 0 THEN page[l].after ELSE q[k].id
<1>5. more \in [1..k -> Item] /\ page[l].given \in Seq(Item)
  BY <1>0, <1>1, <1>4 DEF Paging
<1>6. IsInjective(more)
  BY <1>0, <1>1, <1>4 DEF IsInjective
<1>7. \A i \in 1..k : more[i] = q[i].id
  OBVIOUS
<1>8. page' = [page EXCEPT ![l].given = given, ![l].after = after]
  BY <1>0, <1>3
<1>9. /\ Range(given) = Range(page[l].given) \cup {more[i] : i \in 1..k}
      /\ given = <<>> <=> page[l].given = <<>> /\ k = 0
      /\ IsInjective(page[l].given) /\ (\A i \in 1..k : more[i] \notin Range(page[l].given)) =>
            IsInjective(given)
  <2> HIDE DEF more
  <2> QED
    BY <1>2, <1>5, <1>6, PageGiven
<1>10. {more[i] : i \in 1..k} = {q[i].id : i \in 1..k}
  BY <1>7
<1> HIDE DEF given, after
<1>11. /\ \A m \in Lists \ {l} : page'[m] = page[m]
       /\ page'[l].desc = page[l].desc /\ page'[l].from = page[l].from
       /\ page'[l].present = page[l].present /\ page'[l].lost = page[l].lost
       /\ page'[l].given = given /\ page'[l].after = after
  BY <1>0, <1>8 DEF Paging
<1>12. /\ \A r \in Requests \ {l} : req'[r] = req[r]
       /\ req'[l].pc = IF n > Limit THEN "new" ELSE "done"
  BY <1>0, GoToMoves DEF ListItems, Moved, TypeOK, LocalsTyped
<1>13. \/ req'[l].pc = "new" /\ k > 0
       \/ req'[l].pc = "done" /\ \A x \in beyond(l) : \E i \in 1..k : q[i] = x
  <2>1. CASE n > Limit
    BY <1>0, <1>1, <1>2, <1>12, <2>1
  <2>2. CASE ~(n > Limit)
    <3>1. k = Cardinality(beyond(l)) /\ req'[l].pc = "done"
      BY <1>0, <1>1, <1>2, <1>12, <2>2
    <3> QED
      BY <1>1, <1>4, <3>1, WholePage
  <2> QED
    BY <2>1, <2>2
<1>14. /\ Range(page'[l].given) = Range(page[l].given) \cup {q[i].id : i \in 1..k}
       /\ page'[l].given = <<>> <=> page[l].given = <<>> /\ k = 0
       /\ /\ IsInjective(page[l].given)
          /\ \A i \in 1..k : q[i].id \notin Range(page[l].given)
          => IsInjective(page'[l].given)
       /\ page'[l].after = IF k = 0 THEN page[l].after ELSE q[k].id
  BY <1>7, <1>9, <1>10, <1>11 DEF after
<1>15. req[l].pc = "querying" /\ UNCHANGED <<tables, chain, ghosts>>
  BY DEF ListItems, At
<1> HIDE DEF more
<1>16. \E j \in Nat : \E p \in [1..j -> beyond(l)] : Served(l, j, p)
  <2>1. Served(l, k, q)
    BY <1>4, <1>13, <1>14 DEF Served, Given
  <2> QED
    BY <1>2, <1>4, <2>1
<1> QED
  BY <1>11, <1>12, <1>15, <1>16

\* A step that is not of a client that lists changes no page and moves no such client,
\* but that it may look for the conversation; it stores at most one row.
LEMMA ListingSteps ==
    ASSUME ConversationAssumption, LocalsTyped, Next
    PROVE  \/ \E l \in Lists : List(l)
           \/ /\ page' = page
              /\ \A l \in Lists : \/ req'[l].pc = req[l].pc
                                  \/ req[l].pc = "new" /\ req'[l].pc \in {"found", "notfound"}
              /\ RowsKept \/ \E w \in Writers : Insert(w)
<1> DEFINE Apart == \A l \in Lists : req'[l].pc = req[l].pc
<1>0. Lists \subseteq Requests /\ Deletes \subseteq Requests /\ Lists \cap Deletes = {}
      /\ Lists \cap Writers = {}
  <2> DEFINE kinds == <<Turns, Posts, Lists, Deletes>>
  <2>1. kinds[3] \cap kinds[4] = {}
    BY DEF ConversationAssumption
  <2> QED
    BY <2>1, RequestKinds DEF Requests
<1>1. ASSUME NEW r \in Requests \ Lists, NEW pc, GoTo(r, pc)
      PROVE  Apart
  BY <1>0, <1>1, GoToMoves DEF Moved
<1>2. ASSUME NEW r \in Requests, FindConversation(r)
      PROVE  /\ page' = page /\ RowsKept
             /\ \A l \in Lists : \/ req'[l].pc = req[l].pc
                                 \/ req[l].pc = "new" /\ req'[l].pc \in {"found", "notfound"}
  <2>1. \A l \in Lists : \/ req'[l].pc = req[l].pc
                         \/ req[l].pc = "new" /\ req'[l].pc \in {"found", "notfound"}
    BY <1>0, <1>2, FindEffect
  <2> QED
    BY <1>2, <2>1 DEF FindConversation, RowsKept, tables, ghosts
<1>3. ASSUME NEW t \in Chained, loadChainItems(t)
      PROVE  page' = page /\ RowsKept /\ Apart
  <2>1. t \in Requests \ Lists
    BY <1>0, RequestKinds
  <2>2. \E pc : GoTo(t, pc)
    BY <1>3 DEF loadChainItems, Follow, WalkChain, ChainEnds
  <2> QED
    BY <1>1, <1>3, <2>1, <2>2 DEF loadChainItems, Follow, WalkChain, ChainEnds, RowsKept, tables, ghosts
<1>4. ASSUME NEW t \in Turns, Responses(t)
      PROVE  page' = page /\ RowsKept /\ Apart
  <2>1. t \in Requests \ Lists
    BY <1>0, RequestKinds
  <2>2. CASE LoadItems(t)
    BY <1>0, <2>1, <2>2, LoadEffect DEF RowsKept, tables, ghosts
  <2>3. CASE Generate(t) \/ persistResponse(t)
    <3>1. \E pc : GoTo(t, pc)
      BY <2>3 DEF Generate, persistResponse
    <3> QED
      BY <1>1, <2>1, <2>3, <3>1 DEF Generate, persistResponse, RowsKept, tables
  <2> QED
    BY <1>4, <2>2, <2>3 DEF Responses
<1>5. ASSUME NEW p \in Posts, CreateItems(p)
      PROVE  page' = page /\ RowsKept /\ Apart
  <2>1. p \in Requests \ Lists
    BY <1>0, RequestKinds
  <2> QED
    BY <1>1, <1>5, <2>1 DEF CreateItems, RowsKept, tables, ghosts
<1>6. ASSUME NEW w \in Writers, Store(w)
      PROVE  page' = page /\ (RowsKept \/ Insert(w)) /\ Apart
  <2>1. w \in Requests \ Lists
    BY <1>0, RequestKinds
  <2>2. CASE ReadMaxSeq(w)
    BY <1>0, <2>1, <2>2, ReadEffect DEF RowsKept, tables, ghosts
  <2>3. CASE Insert(w)
    BY <1>0, <2>1, <2>3, InsertEffect
  <2>4. CASE Stored(w) \/ StoreFails(w)
    <3>1. \E pc : GoTo(w, pc)
      BY <2>4 DEF Stored, StoreFails
    <3> QED
      BY <1>1, <2>1, <2>4, <3>1 DEF Stored, StoreFails, RowsKept, tables
  <2> QED
    BY <1>6, <2>2, <2>3, <2>4 DEF Store
<1>7. ASSUME NEW d \in Deletes, Delete(d)
      PROVE  page' = page /\ RowsKept /\ Apart
  <2>1. d \in Requests \ Lists
    BY <1>0
  <2>2. \E pc : GoTo(d, pc)
    BY <1>7 DEF Delete, DeleteItems, DeleteConversation, DeleteFails, DeleteItem
  <2>3. page' = page
    BY <1>7 DEF Delete, DeleteItems, DeleteConversation, DeleteFails, DeleteItem
  <2>4. RowsKept
    BY <1>7 DEF Delete, DeleteItems, DeleteConversation, DeleteFails, DeleteItem, RowsKept,
       tables, ghosts
  <2> QED
    BY <1>1, <2>1, <2>2, <2>3, <2>4
<1> QED
  BY <1>2, <1>3, <1>4, <1>5, <1>6, <1>7 DEF Next

\* Reads, answers and deletions leave a page as sound as it was.
LEMMA RemovalKept ==
    ASSUME NEW l \in Lists, PageAt(l), page'[l] = page[l], RowsKept,
           \/ req'[l].pc = req[l].pc
           \/ req[l].pc = "new" /\ req'[l].pc \in {"found", "notfound"}
    PROVE  PageAt(l)'
<1>1. /\ rows' \subseteq rows /\ removed \subseteq removed'
      /\ rows' \cup removed' = rows \cup removed
      /\ rows' \ removed' \subseteq rows \ removed
  BY DEF RowsKept
<1>2. (ids(rows) \cup ids(removed))' = ids(rows) \cup ids(removed)
  BY <1>1 DEF ids
<1>3. ids(removed) \subseteq ids(removed)'
  BY <1>1 DEF ids
<1>4. (Distinct' => Distinct) /\ Given(l)' = Given(l)
  BY <1>1 DEF Distinct, Given
<1>5. \A x \in rows' : x \in beyond(l)' <=> x \in beyond(l)
  BY <1>1 DEF beyond
<1>6. Distinct' => Remaining(l)'
  BY <1>1, <1>4, <1>5 DEF PageAt, Remaining, At
<1>7. Passed(l) => Passed(l)'
  BY <1>1, <1>4, <1>5 DEF Passed, At
<1> QED
  BY <1>2, <1>3, <1>4, <1>6, <1>7 DEF PageAt

\* A row that is stored is not one the client misses, since it has a new id.
LEMMA InsertionKept ==
    ASSUME NEW l \in Lists, PageAt(l), page'[l] = page[l], req'[l].pc = req[l].pc,
           NEW z, rows' = rows \cup {z}, z.id \notin ids(rows), removed' = removed
    PROVE  PageAt(l)'
<1>1. /\ ids(rows)' = ids(rows) \cup {z.id} /\ ids(removed)' = ids(removed)
      /\ Given(l)' = Given(l) /\ (Distinct' => Distinct)
  BY DEF ids, Given, Distinct
<1>2. \A x \in rows : x \in beyond(l)' <=> x \in beyond(l)
  BY DEF beyond
<1>3. Given(l) \cup page[l].present \subseteq ids(rows) \cup ids(removed)
  BY DEF PageAt
<1>4. Distinct' /\ z.id \in ids(removed) => z \in removed
  BY DEF Distinct, ids
<1>5. z.id \in Given(l) \cup page[l].present => z.id \in ids(removed)
  BY <1>3
<1>6. page[l].given # <<>> => page[l].after \in Given(l)
  BY DEF PageAt
<1>7. ASSUME Distinct'
      PROVE  Remaining(l)'
  <2> SUFFICES ASSUME NEW x \in rows' \ removed', x.id \in page[l].present \ Given(l)
               PROVE  /\ req[l].pc \in {"new", "found"} /\ page[l].given # <<>> =>
                            \A c \in rows' \cup removed' :
                               c.id = page[l].after => before(c, x, page[l].desc)
                      /\ req[l].pc = "querying" => x \in beyond(l)'
                      /\ req[l].pc # "done"
    BY <1>1 DEF Remaining, At
  <2>1. x \in rows \ removed
    BY <1>4, <1>5, <1>7
  <2>2. Remaining(l)
    BY <1>1, <1>7 DEF PageAt
  <2>3. ASSUME NEW c \in rows' \cup removed', page[l].given # <<>>, c.id = page[l].after
        PROVE  c \in rows \cup removed
    BY <1>4, <1>5, <1>6, <1>7, <2>3
  <2> QED
    BY <1>2, <2>1, <2>2, <2>3 DEF Remaining, At
<1>8. ASSUME Distinct', Given(l) \cap ids(removed) = {}, ~page[l].lost
      PROVE  IsInjective(page[l].given) /\ Passed(l)'
  <2>1. IsInjective(page[l].given) /\ Passed(l)
    BY <1>1, <1>8 DEF PageAt
  <2>2. z.id \notin Given(l)
    BY <1>5, <1>8
  <2> SUFFICES ASSUME NEW x \in rows', x.id \in Given(l)
               PROVE  /\ req[l].pc \in {"new", "found"} =>
                            \A c \in rows' \cup removed' :
                               c.id = page[l].after => ~before(c, x, page[l].desc)
                      /\ req[l].pc = "querying" => x \notin beyond(l)'
    BY <1>1, <2>1 DEF Passed, At
  <2>3. x \in rows /\ page[l].given # <<>>
    BY <2>2 DEF Given, Range
  <2>4. ASSUME NEW c \in rows' \cup removed', c.id = page[l].after
        PROVE  c \in rows \cup removed
    BY <1>6, <2>2, <2>3, <2>4
  <2> QED
    BY <1>2, <2>1, <2>3, <2>4 DEF Passed, At
<1> QED
  BY <1>1, <1>3, <1>7, <1>8 DEF PageAt

\* No item is the cursor of a client that has been given none.
LEMMA NoCursorYet ==
    ASSUME ConversationAssumption, TypeOK
    PROVE  Nothing \notin Item /\ \A x \in rows : x.id \in Item /\ x.seq \in Nat
BY DEF ConversationAssumption, TypeOK, Row, Item, Writers

\* The cursor tells what is still to be given, and if it is found, what has been.
LEMMA CursorKept ==
    ASSUME ConversationAssumption, TypeOK, \A x \in rows : x.seq > 0,
           NEW l \in Lists, PageAt(l), FindCursor(l)
    PROVE  PageAt(l)'
<1>1. /\ req[l].pc = "found" /\ req'[l].pc = "querying"
      /\ page'[l].given = page[l].given /\ page'[l].after = page[l].after
      /\ page'[l].present = IF page[l].given = <<>> THEN ids(rows) ELSE page[l].present
      /\ page[l].given # <<>> => page'[l].desc = page[l].desc
      /\ page[l].lost => page'[l].lost
      /\ \/ page'[l].from = 0 /\ (page'[l].lost \/ \A x \in rows : x.id # page[l].after)
         \/ \E c \in rows : c.id = page[l].after /\ page'[l].from = c.seq
      /\ rows' = rows /\ removed' = removed
  BY CursorEffect DEF Moved, tables, ghosts
<1>2. /\ Given(l)' = Given(l) /\ ids(rows)' = ids(rows) /\ ids(removed)' = ids(removed)
      /\ Distinct' <=> Distinct
  BY <1>1 DEF Given, ids, Distinct
<1>3. /\ page[l].given = <<>> => page[l].after = Nothing
      /\ page[l].given # <<>> => page[l].after \in Given(l)
      /\ Given(l) \cup page[l].present \subseteq ids(rows) \cup ids(removed)
  BY DEF PageAt
<1>4. ASSUME Distinct
      PROVE  Remaining(l)'
  <2> SUFFICES ASSUME NEW x \in rows \ removed, x.id \in page'[l].present \ Given(l)
               PROVE  x \in beyond(l)'
    BY <1>1, <1>2 DEF Remaining, At
  <2>1. CASE page'[l].from = 0
    BY <1>1, <2>1 DEF beyond
  <2>2. CASE page'[l].from # 0
    <3>1. PICK c \in rows : c.id = page[l].after /\ page'[l].from = c.seq
      BY <1>1, <2>2
    <3>2. page[l].given # <<>>
      BY <1>3, <3>1, NoCursorYet
    <3>3. before(c, x, page[l].desc)
      BY <1>1, <1>4, <3>1, <3>2 DEF PageAt, Remaining
    <3>4. before([seq |-> page'[l].from], x, page'[l].desc)
      BY <1>1, <3>1, <3>2, <3>3 DEF before
    <3> QED
      BY <1>1, <3>4 DEF beyond
  <2> QED
    BY <2>1, <2>2
<1>5. ASSUME Distinct, Given(l) \cap ids(removed) = {}, ~page'[l].lost
      PROVE  IsInjective(page[l].given) /\ Passed(l)'
  <2>1. IsInjective(page[l].given) /\ Passed(l)
    BY <1>1, <1>5 DEF PageAt
  <2> SUFFICES ASSUME NEW x \in rows, x.id \in Given(l)
               PROVE  x \notin beyond(l)'
    BY <1>1, <1>2, <2>1 DEF Passed, At
  <2>2. page[l].given # <<>>
    BY DEF Given, Range
  <2>3. page[l].after \in ids(rows)
    BY <1>3, <1>5, <2>2
  <2>4. PICK c \in rows : c.id = page[l].after /\ page'[l].from = c.seq
    BY <1>1, <1>5, <2>3 DEF ids
  <2>5. page'[l].from # 0
    BY <2>4, NoCursorYet
  <2>6. ~before(c, x, page[l].desc)
    BY <1>1, <2>1, <2>4 DEF Passed
  <2>7. ~before([seq |-> page'[l].from], x, page'[l].desc)
    BY <1>1, <2>2, <2>4, <2>6 DEF before
  <2> QED
    BY <2>5, <2>7 DEF beyond
<1> QED
  BY <1>1, <1>2, <1>3, <1>4, <1>5 DEF PageAt

\* A page goes on from the cursor, to the last item it gives.
LEMMA ServedKept ==
    ASSUME ConversationAssumption, TypeOK, NEW l \in Lists, PageAt(l), req[l].pc = "querying",
           page'[l].desc = page[l].desc, page'[l].present = page[l].present,
           page'[l].lost = page[l].lost, rows' = rows, removed' = removed,
           NEW k \in Nat, NEW q \in [1..k -> beyond(l)], Served(l, k, q)
    PROVE  PageAt(l)'
<1>1. /\ ids(rows)' = ids(rows) /\ ids(removed)' = ids(removed) /\ (Distinct' <=> Distinct)
      /\ beyond(l) \subseteq rows
  BY DEF ids, Distinct, beyond
<1>2. \A i \in 1..k : q[i] \in beyond(l) /\ q[i] \in rows /\ q[i].id \in Given(l)'
  BY <1>1 DEF Served
<1>3. k > 0 => /\ k \in 1..k /\ page'[l].given # <<>> /\ page'[l].after = q[k].id
  BY DEF Served
<1>4. /\ page'[l].given = <<>> => page'[l].after = Nothing
      /\ page'[l].given # <<>> => page'[l].after \in Given(l)'
  BY <1>2, <1>3 DEF PageAt, Served
<1>5. Given(l)' \cup page[l].present \subseteq ids(rows) \cup ids(removed)
  <2>1. \A i \in 1..k : q[i].id \in ids(rows)
    BY <1>2 DEF ids
  <2> QED
    BY <2>1 DEF PageAt, Served
<1>6. ASSUME Distinct, NEW c \in rows \cup removed, k > 0, c.id = page'[l].after
      PROVE  c = q[k]
  BY <1>2, <1>3, <1>6 DEF Distinct
<1>7. ASSUME Distinct
      PROVE  Remaining(l)'
  <2> SUFFICES ASSUME NEW x \in rows \ removed, x.id \in page[l].present \ Given(l)'
               PROVE  /\ k > 0 => before(q[k], x, page[l].desc)
                      /\ req'[l].pc = "new"
    <3>1. req'[l].pc = "new" => k > 0
      BY DEF Served
    <3> QED
      BY <1>6, <1>7, <3>1 DEF Remaining, At
  <2>1. x \in beyond(l)
    BY <1>7 DEF PageAt, Remaining, At, Served
  <2>2. \A i \in 1..k : q[i] # x
    BY <1>2
  <2>3. req'[l].pc = "new"
    BY <2>1, <2>2 DEF Served
  <2>4. ASSUME k > 0
        PROVE  before(q[k], x, page[l].desc)
    <3>1. k \in 1..k /\ \A j \in 1..(k - 1) : j \in 1..k
      BY <2>4
    <3>2. ~before(x, q[k], page[l].desc)
      BY <2>1, <2>2, <3>1 DEF Served
    <3>3. q[k].seq # x.seq
      BY <1>2, <1>7, <2>2, <3>1 DEF Distinct
    <3>4. q[k].seq \in Nat /\ x.seq \in Nat
      BY <1>2, <3>1, NoCursorYet
    <3> QED
      BY <3>2, <3>3, <3>4 DEF before
  <2> QED
    BY <2>3, <2>4
<1>8. ASSUME Distinct, Given(l)' \cap ids(removed) = {}, ~page[l].lost
      PROVE  IsInjective(page'[l].given) /\ Passed(l)'
  <2>1. IsInjective(page[l].given) /\ Passed(l)
    BY <1>8 DEF PageAt, Served
  <2>2. \A x \in beyond(l) : x.id \notin Given(l)
    BY <1>1, <2>1 DEF Passed, At
  <2>3. IsInjective(page'[l].given)
    BY <1>2, <2>1, <2>2 DEF Served
  <2>4. ASSUME NEW x \in rows, x.id \in Given(l)', k > 0
        PROVE  ~before(q[k], x, page[l].desc)
    <3>1. CASE x.id \in Given(l)
      <4>1. /\ page[l].from # 0
            /\ ~before([seq |-> page[l].from], x, page[l].desc)
        BY <2>2, <3>1 DEF beyond
      <4>2. before([seq |-> page[l].from], q[k], page[l].desc)
        BY <1>2, <1>3, <2>4, <4>1 DEF beyond
      <4>3. x.seq \in Nat /\ q[k].seq \in Nat /\ page[l].from \in Nat
        BY <1>2, <1>3, <2>4, NoCursorYet DEF TypeOK, Paging
      <4> QED
        BY <4>1, <4>2, <4>3 DEF before
    <3>2. CASE x.id \notin Given(l)
      <4>1. PICK i \in 1..k : x.id = q[i].id
        BY <2>4, <3>2 DEF Served
      <4>2. x = q[i]
        BY <1>2, <4>1 DEF TypeOK
      <4>3. k \in 1..k /\ \A j \in 1..(i - 1) : j \in 1..k /\ j # k
        BY <2>4
      <4>4. \A j \in 1..(i - 1) : q[j] # q[k]
        BY <4>3 DEF Served, IsInjective
      <4> QED
        BY <1>2, <4>2, <4>3, <4>4 DEF Served
    <3> QED
      BY <3>1, <3>2
  <2>5. req'[l].pc \in {"new", "done"} /\ (req'[l].pc = "new" => k > 0)
    BY DEF Served
  <2> QED
    BY <1>6, <1>8, <2>3, <2>4, <2>5 DEF Passed, At
<1> QED
  BY <1>1, <1>4, <1>5, <1>7, <1>8 DEF PageAt

\* Whatever a client or another request does, it keeps what the pages say.
LEMMA PageKept ==
    ASSUME ConversationAssumption, TypeOK, BoundInv, PageInv, Next
    PROVE  PageInv'
<1>0. /\ LocalsTyped /\ \A x \in rows : x.seq > 0
      /\ Lists \subseteq Requests
  BY DEF TypeOK, LocalsTyped, PageInv, Requests
<1>1. ASSUME NEW l \in Lists, List(l)
      PROVE  PageInv'
  <2>1. /\ rows' = rows /\ removed' = removed
        /\ \A m \in Lists \ {l} : req'[m] = req[m] /\ page'[m] = page[m]
    <3>1. CASE FindCursor(l)
      BY <1>0, <3>1, CursorEffect DEF Moved, tables, ghosts
    <3>2. CASE ListItems(l)
      BY <1>0, <3>2, ListEffect DEF tables, ghosts
    <3>3. CASE ListFails(l)
      BY <1>0, <3>3, GoToMoves DEF ListFails, Moved, tables, ghosts
    <3> QED
      BY <1>1, <3>1, <3>2, <3>3 DEF List
  <2>2. ASSUME NEW m \in Lists \ {l}
        PROVE  PageAt(m)'
    <3>1. RowsKept
      BY <2>1 DEF RowsKept
    <3>2. PageAt(m)
      BY DEF PageInv
    <3>3. page'[m] = page[m] /\ req'[m].pc = req[m].pc
      BY <2>1
    <3> QED
      BY <3>1, <3>2, <3>3, RemovalKept
  <2>3. PageAt(l)'
    <3>0. PageAt(l)
      BY DEF PageInv
    <3>1. CASE FindCursor(l)
      <4>1. \A x \in rows : x.seq > 0
        BY <1>0
      <4> QED
        BY <3>0, <3>1, <4>1, CursorKept
    <3>2. CASE ListItems(l)
      <4>1. /\ req[l].pc = "querying" /\ page'[l].desc = page[l].desc
            /\ page'[l].present = page[l].present /\ page'[l].lost = page[l].lost
            /\ \E k \in Nat : \E q \in [1..k -> beyond(l)] : Served(l, k, q)
        BY <3>2, ListEffect
      <4> QED
        BY <2>1, <3>0, <4>1, ServedKept
    <3>3. CASE ListFails(l)
      <4>1. page' = page /\ req'[l].pc = "failed"
        BY <1>0, <3>3, GoToMoves DEF ListFails, Moved
      <4>2. /\ (Given(l)' = Given(l)) /\ (ids(rows)' = ids(rows)) /\ (ids(removed)' = ids(removed))
            /\ (Distinct' <=> Distinct)
        BY <2>1, <4>1 DEF Given, ids, Distinct
      <4>3. Remaining(l)' /\ Passed(l)'
        BY <4>1 DEF Remaining, Passed, At
      <4> QED
        BY <3>0, <4>1, <4>2, <4>3 DEF PageAt
    <3> QED
      BY <1>1, <3>1, <3>2, <3>3 DEF List
  <2> QED
    BY <1>0, <2>1, <2>2, <2>3 DEF PageInv
<1>2. ASSUME page' = page,
             \A l \in Lists : \/ req'[l].pc = req[l].pc
                              \/ req[l].pc = "new" /\ req'[l].pc \in {"found", "notfound"},
             RowsKept
      PROVE  PageInv'
  <2>1. ASSUME NEW l \in Lists
        PROVE  PageAt(l)'
    <3>1. PageAt(l)
      BY DEF PageInv
    <3> QED
      BY <1>2, <3>1, RemovalKept
  <2> QED
    BY <1>0, <1>2, <2>1 DEF PageInv, RowsKept
<1>3. ASSUME NEW w \in Writers, Insert(w)
      PROVE  PageInv'
  <2> DEFINE z == [id |-> IdOf(w, req[w].next), by |-> w, n |-> req[w].next,
                   seq |-> req[w].maxSeq + 1]
  <2>0. w \in Requests /\ Writers \cap Lists = {}
    BY RequestKinds
  <2>1. /\ rows' = rows \cup {z} /\ z.id \notin ids(rows) /\ removed' = removed /\ page' = page
        /\ \A r \in Requests \ {w} : req'[r] = req[r]
    BY <1>0, <1>3, <2>0, InsertEffect DEF ghosts
  <2>2. z.seq > 0
    BY <1>0, <2>0 DEF LocalsTyped, Locals
  <2> HIDE DEF z
  <2>3. ASSUME NEW l \in Lists
        PROVE  PageAt(l)'
    <3>1. PageAt(l)
      BY DEF PageInv
    <3>2. page'[l] = page[l] /\ req'[l].pc = req[l].pc
      BY <1>0, <2>0, <2>1
    <3> QED
      BY <2>1, <3>1, <3>2, InsertionKept
  <2> QED
    BY <1>0, <2>1, <2>2, <2>3 DEF PageInv
<1> QED
  BY <1>0, <1>1, <1>2, <1>3, ListingSteps

\* A client that is done was given what it was to be given.
LEMMA EndOfListing ==
    ASSUME PageInv
    PROVE  ListingComplete
<1> SUFFICES ASSUME NEW l \in Lists, req[l].pc = "done", Distinct
             PROVE  /\ page[l].present \subseteq Given(l) \cup ids(removed)
                    /\ Given(l) \cap ids(removed) = {} /\ ~page[l].lost =>
                          IsInjective(page[l].given)
  BY DEF ListingComplete, At, Given
<1>1. ASSUME NEW i \in page[l].present, i \notin Given(l), i \notin ids(removed)
      PROVE  FALSE
  <2>1. PICK x \in rows : x.id = i
    BY <1>1 DEF PageInv, PageAt, ids
  <2>2. x \notin removed
    BY <1>1, <2>1 DEF ids
  <2> QED
    BY <1>1, <2>1, <2>2 DEF PageInv, PageAt, Remaining, At
<1> QED
  BY <1>1 DEF PageInv, PageAt

\* No client has been given anything before it has asked.
LEMMA PageBegins ==
    ASSUME Init
    PROVE  PageInv
<1>1. /\ rows = {} /\ \A l \in Lists : page[l] = [desc |-> FALSE, after |-> Nothing, from |-> 0,
                                         given |-> <<>>, present |-> {}, lost |-> FALSE]
  BY DEF Init, Begin
<1>2. \A l \in Lists : Given(l) = {} /\ IsInjective(page[l].given)
  BY <1>1 DEF Given, Range, IsInjective
<1>3. ASSUME NEW l \in Lists
      PROVE  PageAt(l)
  BY <1>1, <1>2 DEF PageAt, Remaining, Passed
<1> QED
  BY <1>1, <1>3 DEF PageInv

\* A step in which nothing happens is one that removes nothing.
LEMMA PageStutters ==
    ASSUME PageInv, UNCHANGED vars
    PROVE  PageInv'
<1>1. rows' = rows /\ removed' = removed /\ page' = page /\ req' = req
  BY DEF vars, tables, ghosts
<1>2. RowsKept
  BY <1>1 DEF RowsKept
<1>3. ASSUME NEW l \in Lists
      PROVE  PageAt(l)'
  <2>1. PageAt(l)
    BY DEF PageInv
  <2>2. page'[l] = page[l] /\ req'[l].pc = req[l].pc
    BY <1>1
  <2> QED
    BY <1>2, <2>1, <2>2, RemovalKept
<1> QED
  BY <1>1, <1>3 DEF PageInv

-----------------------------------------------------------------------------
(* The theorems                                                             *)

\* The invariant holds before any request has come.
LEMMA Beginning ==
    ASSUME ConversationAssumption, Init
    PROVE  IInv
<1> USE RequestKinds DEF Init, Begin
<1>0. /\ Items \in Nat \ {0} /\ MaxDepth \in Nat \ {0}
      /\ \A w \in Writers : w \in Requests /\ [by |-> w, n |-> 1] \in Item
      /\ "new" \in Steps
  BY DEF ConversationAssumption, Item, Steps
<1>1. /\ rows = {} /\ records = {} /\ removed = {} /\ answered = {} /\ deleted = FALSE
      /\ \A r \in Requests :
            req[r] = [pc |-> "new", maxSeq |-> 0, next |-> 1, first |-> [by |-> r, n |-> 1],
                      history |-> {}, after |-> {}, follows |-> {}]
      /\ \A t \in Chained : chain[t] = [previous |-> Nothing, found |-> <<>>, broken |-> FALSE]
  OBVIOUS
<1>2. TypeOK
  <2>1. req \in [Requests -> Locals] /\ \A w \in Writers : req[w].first \in Item
    <3>1. \A r \in Requests : req[r] \in Locals
      BY <1>0, <1>1 DEF Locals
    <3> QED
      BY <1>0, <1>1, <3>1
  <2>2. chain \in [Chained -> Walk]
    BY DEF Walk
  <2>3. page \in [Lists -> Paging]
    BY DEF Paging
  <2> QED
    BY <1>1, <2>1, <2>2, <2>3 DEF TypeOK
<1>3. BoundInv
  BY <1>1, FS_EmptySet DEF BoundInv
<1>4. WriterInv /\ SeqInv
  BY <1>0, <1>1 DEF WriterInv, SeqInv, Ended
<1>5. HistoryInv
  BY <1>0, <1>1 DEF HistoryInv
<1>6. HistoryComplete /\ RecordInv
  BY <1>0, <1>1 DEF HistoryComplete, PastLoading, RecordInv
<1>7. WalkInv
  BY <1>0, <1>1 DEF WalkInv, Line, Progress, PastLoading
<1>8. PageInv
  BY PageBegins
<1> QED
  BY <1>2, <1>3, <1>4, <1>5, <1>6, <1>7, <1>8 DEF IInv

\* A step in which nothing happens keeps it.
LEMMA Stutter ==
    ASSUME IInv, UNCHANGED vars
    PROVE  IInv'
<1> USE DEF vars, tables, ghosts
<1>1. TypeOK' /\ BoundInv'
  BY DEF IInv, TypeOK, BoundInv
<1>2. WriterInv' /\ SeqInv' /\ RecordInv'
  BY DEF IInv, WriterInv, SeqInv, RecordInv
<1>3. HistoryInv' /\ HistoryComplete'
  BY DEF IInv, HistoryInv, HistoryComplete, PastLoading, At, Ids, IdOf, ids
<1>4. WalkInv'
  BY DEF IInv, WalkInv, Line, Progress, Exhausted, PastLoading, ids
<1>5. PageInv'
  BY PageStutters DEF IInv
<1> QED
  BY <1>1, <1>2, <1>3, <1>4, <1>5 DEF IInv

\* However the statements of requests interleave, and whichever of them fail, every
\* row and record is well formed, the rows of a writer are numbered from where it read
\* on, the walk along previous responses has found a line of them, and what a client that
\* lists was not given is beyond its cursor.
THEOREM Invariance == Spec => []IInv
<1>1. Init => IInv
  BY ConversationAssumption, Beginning
<1>2. IInv /\ [Next]_vars => IInv'
  <2>1. ASSUME IInv, Next
        PROVE  IInv'
    <3>1. LocalsTyped
      BY <2>1 DEF IInv, TypeOK, LocalsTyped
    <3> QED
      BY <2>1, <3>1, ConversationAssumption, TypeKept, BoundKept, WriterKept, SeqKept, HistoryKept,
         ChainKept, PageKept DEF IInv
  <2> QED
    BY <2>1, Stutter
<1> QED
  BY <1>1, <1>2, PTL DEF Spec

\* Every stored row, record, page and walk is well formed, and no id is used twice:
\* an insert of an item whose id is stored fails.
THEOREM TypeCorrect == Spec => []TypeOK
<1>1. IInv => TypeOK
  BY DEF IInv
<1> QED
  BY <1>1, Invariance, PTL

\* conversations.go, appendConversationItems: reading by seq gives the items of a
\* request in their order and after those it found stored, although MAX(seq) is read
\* outside a transaction and items are deleted in between.
THEOREM TurnsInOrder == Spec => []TurnOrder
<1>1. IInv => TurnOrder
  BY ConversationAssumption, SeqOrdersItems DEF IInv
<1> QED
  BY <1>1, Invariance, PTL

\* responses.go: a turn that comes after the answer to a request that did not stream
\* loads every item that request stored and nobody removed.
THEOREM HistoryIsComplete == Spec => []HistoryComplete
<1>1. IInv => HistoryComplete
  BY DEF IInv
<1> QED
  BY <1>1, Invariance, PTL

\* responses.go, loadChainItems: the responses found are a line that ends in the one
\* named and is as long as the cap, the failed reads and the late records allow.
THEOREM ChainIsSound == Spec => []ChainSound
<1>1. IInv => ChainSound
  BY ConversationAssumption, WalkGivesLine DEF IInv
<1> QED
  BY <1>1, Invariance, PTL

\* conversations.go, ListItems: a client that follows the cursor to the end has had every
\* item that was there from its first page on, and none twice unless one it had is gone.
THEOREM ListingIsComplete == Spec => []ListingComplete
<1>1. IInv => ListingComplete
  BY EndOfListing DEF IInv
<1> QED
  BY <1>1, Invariance, PTL
=============================================================================
