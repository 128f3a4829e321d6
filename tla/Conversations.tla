---------------------------- MODULE Conversations ----------------------------
(***************************************************************************)
(* Stored state of the Responses API (internal/handlers/conversations.go and *)
(* responses.go): the items of one conversation, the records of responses,   *)
(* and the requests that read and change them.  No request holds a           *)
(* transaction or a lock across its statements, so the statements of         *)
(* concurrent requests interleave.  The database is external: each statement *)
(* is atomic and may fail.  An item is known by the request that made it and *)
(* its place among that request's items; payloads and metadata are left out. *)
(***************************************************************************)
EXTENDS Naturals, FiniteSets, Sequences, FiniteSetsExt, Functions

CONSTANTS
    Turns,       \* POST /v1/responses, stored
    Streamed,    \* those of them that asked for a stream
    Chained,     \* those that name no conversation; most name a previous response
    Posts,       \* POST /v1/conversations/:id/items
    Resent,      \* turns and posts that may repeat an item of an earlier answer
    Lists,       \* clients that page through GET /v1/conversations/:id/items
    Deletes,     \* DELETE of the conversation, or of one of its items
    Items,       \* items that a turn or a post stores
    MaxDepth,    \* maxResponseChainDepth
    Limit,       \* items of a page
    Faults,      \* statements that may fail
    Nothing

ASSUME ConversationAssumption ==
    /\ Streamed \subseteq Turns /\ Chained \subseteq Turns
    /\ \A i, j \in 1..4 : i # j => <<Turns, Posts, Lists, Deletes>>[i] \cap
                                  <<Turns, Posts, Lists, Deletes>>[j] = {}
    /\ Resent \subseteq (Turns \ Chained) \cup Posts
    /\ {Items, MaxDepth, Limit} \subseteq Nat \ {0}
    /\ Faults \subseteq {"read", "write"}
    /\ Nothing \notin Turns \cup [by : Turns \cup Posts, n : 1..Items]

VARIABLES
    deleted,  \* the conversation's row has its deleted_at set
    rows,     \* conversation_items
    records,  \* response_records
    req,      \* per request: its progress and locals
    chain,    \* per chained turn: the locals of loadChainItems
    page,     \* per client that lists: its query and what it has been given
    answered, \* history variable: writers whose client has its answer
    removed   \* history variable: rows some request has removed

tables == <<deleted, rows, records>>
ghosts == <<answered, removed>>
vars   == <<tables, req, chain, page, ghosts>>

Writers  == Turns \cup Posts
Requests == Writers \cup Lists \cup Deletes

Item   == [by : Writers, n : 1..Items]
Row    == [id : Item, by : Writers, n : 1..Items, seq : Nat]
Record == [id : Turns, previous : Turns \cup {Nothing}]

Steps == {"new", "found", "walking", "asking", "recording", "storing", "inserting",
          "purging", "querying", "done", "notfound", "failed"}

\* maxSeq, next: locals of appendConversationItems; first: the id of the first item;
\* history: the items loaded; after: writers answered when this turn came; follows:
\* those that had stored all their items when this one read MAX(seq) (both history).
Locals == [pc : Steps, maxSeq : Nat, next : 1..(Items + 1),
           first : [by : Requests, n : 1..Items], history : SUBSET Item,
           after : SUBSET Writers, follows : SUBSET Writers]

\* found: the responses of the chain, the oldest first; broken: a read has failed.
Walk == [previous : Turns \cup {Nothing}, found : Seq(Turns), broken : BOOLEAN]

\* after: the cursor; from: its seq, or 0; given: the items so far; present: those
\* that were stored when the first page was asked for; lost: a cursor was not read.
Paging == [desc : BOOLEAN, after : Item \cup {Nothing}, from : Nat, given : Seq(Item),
           present : SUBSET Item, lost : BOOLEAN]

\* Every stored row is well formed and no id is used twice.
TypeOK ==
    /\ deleted \in BOOLEAN
    /\ rows \subseteq Row
    /\ records \subseteq Record
    /\ req \in [Requests -> Locals]
    /\ \A w \in Writers : req[w].first \in Item
    /\ chain \in [Chained -> Walk]
    /\ page \in [Lists -> Paging]
    /\ answered \subseteq Writers
    /\ removed \subseteq Row
    /\ \A x, y \in rows : x.id = y.id => x = y
    /\ \A x, y \in records : x.id = y.id => x = y

\* The requests of active are to come; the others are not of this instance.
Begin(active) ==
    /\ deleted = FALSE /\ rows = {} /\ records = {}
    /\ req = [r \in Requests |->
                [pc |-> IF r \in active THEN "new" ELSE "notfound", maxSeq |-> 0, next |-> 1,
                 first |-> [by |-> r, n |-> 1], history |-> {}, after |-> {}, follows |-> {}]]
    /\ chain = [t \in Chained |-> [previous |-> Nothing, found |-> <<>>, broken |-> FALSE]]
    /\ page = [l \in Lists |-> [desc |-> FALSE, after |-> Nothing, from |-> 0, given |-> <<>>,
                                 present |-> {}, lost |-> FALSE]]
    /\ answered = {} /\ removed = {}

Init == Begin(Requests)

-----------------------------------------------------------------------------
At(r, pc) == req[r].pc = pc

GoTo(r, pc) == req' = [req EXCEPT ![r].pc = pc]

Answer(r) == answered' = answered \cup {r}

ids(S) == {x.id : x \in S}

stored == {w \in Writers \ Chained : req[w].next > Items}

\* The ids a writer's items have: one it was given may have kept its own.
Ids(w) == {req[w].first} \cup {[by |-> w, n |-> n] : n \in 2..Items}

\* The request comes and looks for the conversation; an error of the query is
\* answered like a conversation that is not there.
FindConversation(r) ==
    /\ r \notin Chained /\ At(r, "new")
    /\ \E pc \in {IF deleted THEN "notfound" ELSE "found"} \cup
                 (IF "read" \in Faults THEN {"notfound"} ELSE {}),
          first \in {req[r].first} \cup
                    (IF r \in Resent THEN {[by |-> w, n |-> Items] : w \in answered \cap Turns}
                     ELSE {}) :
          req' = [req EXCEPT ![r].pc = pc, ![r].first = first,
                             ![r].after = IF r \in Turns THEN answered ELSE {}]
    /\ UNCHANGED <<tables, chain, page, ghosts>>

-----------------------------------------------------------------------------
(* Responses                                                               *)

LoadItems(t) ==
    /\ t \in Turns /\ At(t, "found")
    /\ \/ "read" \in Faults /\ GoTo(t, "notfound")
       \/ req' = [req EXCEPT ![t].pc = "asking", ![t].history = ids(rows)]
    /\ UNCHANGED <<tables, chain, page, ghosts>>

\* A turn without a conversation: the first of a chain, or one that names a response
\* it has the answer of.
Follow(t) ==
    /\ t \in Chained /\ At(t, "new")
    /\ \E p \in (answered \cap Turns) \cup {Nothing} :
          /\ chain' = [chain EXCEPT ![t].previous = p]
          /\ GoTo(t, IF p = Nothing THEN "asking" ELSE "walking")
    /\ UNCHANGED <<tables, page, ghosts>>

\* The id of which a chain has the record next, if any.
current(t) ==
    IF chain[t].found = <<>> THEN chain[t].previous
    ELSE (CHOOSE x \in records : x.id = Head(chain[t].found)).previous

\* Mutant: the newest response comes first.
WalkChainBackwards(t) ==
    /\ At(t, "walking")
    /\ \E x \in records :
          /\ x.id = current(t)
          /\ chain' = [chain EXCEPT ![t].found = Append(@, x.id)]
          /\ GoTo(t, IF x.previous = Nothing \/ Len(chain[t].found) + 1 = MaxDepth
                     THEN "asking" ELSE "walking")
    /\ UNCHANGED <<tables, page, ghosts>>

\* One record after the other, from the newest to the oldest.
WalkChain(t) ==
    /\ At(t, "walking")
    /\ \E x \in records :
          /\ x.id = current(t)
          /\ chain' = [chain EXCEPT ![t].found = <<x.id>> \o @]
          /\ GoTo(t, IF x.previous = Nothing \/ Len(chain[t].found) + 1 = MaxDepth
                     THEN "asking" ELSE "walking")
    /\ UNCHANGED <<tables, page, ghosts>>

\* Only a first record that is not there is an error; what has been found until any
\* other end of the walk is used.
ChainEnds(t) ==
    /\ At(t, "walking")
    /\ \/ /\ current(t) \notin ids(records)
          /\ GoTo(t, IF chain[t].found = <<>> THEN "notfound" ELSE "asking")
          /\ UNCHANGED chain
       \/ /\ "read" \in Faults
          /\ chain' = [chain EXCEPT ![t].broken = TRUE]
          /\ GoTo(t, "asking")
    /\ UNCHANGED <<tables, page, ghosts>>

\* Mutant: a response that is not streamed is answered before it is stored.
GenerateEager(t) ==
    /\ At(t, "asking")
    /\ \/ GoTo(t, "failed") /\ UNCHANGED answered
       \/ GoTo(t, "recording") /\ Answer(t)
    /\ UNCHANGED <<tables, chain, page, removed>>

\* The LLM fails or answers.  A stream has reached its end at the client when
\* persistResponse begins; a plain response is sent after it has returned.
Generate(t) ==
    /\ At(t, "asking")
    /\ \/ GoTo(t, "failed") /\ UNCHANGED answered
       \/ GoTo(t, "recording") /\ IF t \in Streamed THEN Answer(t) ELSE UNCHANGED answered
    /\ UNCHANGED <<tables, chain, page, removed>>

\* The record of the response, whose failure only the log shows; then the items, if
\* there is a conversation.
persistResponse(t) ==
    /\ At(t, "recording")
    /\ \/ records' = records \cup
              {[id |-> t, previous |-> IF t \in Chained THEN chain[t].previous ELSE Nothing]}
       \/ "write" \in Faults /\ UNCHANGED records
    /\ IF t \in Chained THEN GoTo(t, "done") /\ Answer(t)
       ELSE GoTo(t, "storing") /\ UNCHANGED answered
    /\ UNCHANGED <<deleted, rows, chain, page, removed>>

CreateItems(p) ==
    /\ p \in Posts /\ At(p, "found")
    /\ GoTo(p, "storing")
    /\ UNCHANGED <<tables, chain, page, ghosts>>

-------------------------------------------------------------------------
(* appendConversationItems                                                 *)

maxSeq == Max({0} \cup {x.seq : x \in rows})

\* Mutant: the items are counted instead.
ReadMaxSeqCounted(w) ==
    /\ At(w, "storing")
    /\ req' = [req EXCEPT ![w].pc = "inserting", ![w].maxSeq = Cardinality(rows),
                          ![w].follows = stored]
    /\ UNCHANGED <<tables, chain, page, ghosts>>

ReadMaxSeq(w) ==
    /\ At(w, "storing")
    /\ req' = [req EXCEPT ![w].pc = "inserting", ![w].maxSeq = maxSeq,
                          ![w].follows = stored]
    /\ UNCHANGED <<tables, chain, page, ghosts>>

\* An item that has an id keeps it: the insert fails if a row has it already.
Insert(w) ==
    /\ At(w, "inserting") /\ req[w].next <= Items
    /\ LET n  == req[w].next
           id == IF n = 1 THEN req[w].first ELSE [by |-> w, n |-> n]
       IN  /\ id \notin ids(rows)
           /\ rows' = rows \cup {[id |-> id, by |-> w, n |-> n, seq |-> req[w].maxSeq + 1]}
    /\ req' = [req EXCEPT ![w].maxSeq = @ + 1, ![w].next = @ + 1]
    /\ UNCHANGED <<deleted, records, chain, page, ghosts>>

\* updated_at is touched and the answer, if it was not sent before, goes out.
Stored(w) ==
    /\ At(w, "inserting") /\ req[w].next > Items
    /\ GoTo(w, "done")
    /\ Answer(w)
    /\ UNCHANGED <<tables, chain, page, removed>>

\* A statement fails: what was inserted stays.  persistResponse does not tell
\* the client; CreateItems does.
StoreFails(w) ==
    /\ \/ "write" \in Faults /\ (At(w, "storing") \/ At(w, "inserting"))
       \/ At(w, "inserting") /\ req[w].next = 1 /\ req[w].first \in ids(rows)
    /\ GoTo(w, "failed")
    /\ IF w \in Turns THEN Answer(w) ELSE UNCHANGED answered
    /\ UNCHANGED <<tables, chain, page, removed>>

-----------------------------------------------------------------------------
(* ListItems, once for each page                                           *)

\* The cursor, which is ignored if its item cannot be read.
FindCursor(l) ==
    /\ l \in Lists /\ At(l, "found")
    /\ \E desc \in IF page[l].given = <<>> THEN BOOLEAN ELSE {page[l].desc},
          lost \in IF "read" \in Faults /\ page[l].after # Nothing THEN BOOLEAN ELSE {FALSE} :
          LET cursor == IF lost THEN {} ELSE {x \in rows : x.id = page[l].after}
          IN  /\ lost => ~page[l].lost \* once: bounds what is listed
              /\ page' = [page EXCEPT ![l].desc = desc, ![l].lost = @ \/ lost,
                             ![l].from = IF cursor = {} THEN 0 ELSE Max({x.seq : x \in cursor}),
                             ![l].present = IF page[l].given = <<>> THEN ids(rows) ELSE @]
    /\ GoTo(l, "querying")
    /\ UNCHANGED <<tables, chain, ghosts>>

before(x, y, desc) == IF desc THEN x.seq > y.seq ELSE x.seq < y.seq

beyond(l) ==
    {x \in rows : page[l].from = 0 \/ before([seq |-> page[l].from], x, page[l].desc)}

\* The first k of a set of rows by seq; rows with one seq come in any order.
FirstOf(S, k, desc) ==
    {q \in [1..k -> S] :
       /\ IsInjective(q)
       /\ \A i \in 1..k : \A x \in S : before(x, q[i], desc) => \E j \in 1..(i - 1) : q[j] = x}

\* Mutant: one row less is fetched, so there never seem to be more.
ListItemsFetchesLimit(l) ==
    /\ At(l, "querying")
    /\ LET k == Min({Limit, Cardinality(beyond(l))})
       IN  \E q \in FirstOf(beyond(l), k, page[l].desc) :
             page' = [page EXCEPT ![l].given = @ \o [i \in 1..k |-> q[i].id],
                                  ![l].after = IF k = 0 THEN @ ELSE q[k].id]
    /\ GoTo(l, "done")
    /\ UNCHANGED <<tables, chain, ghosts>>

\* The page; while there is more its last item is the next cursor.
ListItems(l) ==
    /\ At(l, "querying")
    /\ LET k == Min({Limit, Cardinality(beyond(l))})
       IN  /\ \E q \in FirstOf(beyond(l), k, page[l].desc) :
                page' = [page EXCEPT ![l].given = @ \o [i \in 1..k |-> q[i].id],
                                     ![l].after = IF k = 0 THEN @ ELSE q[k].id]
           /\ GoTo(l, IF Cardinality(beyond(l)) > Limit THEN "new" ELSE "done")
    /\ UNCHANGED <<tables, chain, ghosts>>

ListFails(l) ==
    /\ At(l, "querying") /\ "read" \in Faults
    /\ GoTo(l, "failed")
    /\ UNCHANGED <<tables, chain, page, ghosts>>

-----------------------------------------------------------------------------
(* Delete and DeleteItem                                                   *)

DeleteItems(d) ==
    /\ d \in Deletes /\ At(d, "found")
    /\ rows' = {}
    /\ removed' = removed \cup rows
    /\ GoTo(d, "purging")
    /\ UNCHANGED <<deleted, records, chain, page, answered>>

DeleteConversation(d) ==
    /\ At(d, "purging")
    /\ deleted' = TRUE
    /\ GoTo(d, "done")
    /\ UNCHANGED <<rows, records, chain, page, ghosts>>

DeleteFails(d) ==
    /\ d \in Deletes /\ "write" \in Faults
    /\ At(d, "found") \/ At(d, "purging")
    /\ GoTo(d, "failed")
    /\ UNCHANGED <<tables, chain, page, ghosts>>

DeleteItem(d) ==
    /\ d \in Deletes /\ At(d, "found")
    /\ \/ \E x \in rows :
             /\ rows' = rows \ {x}
             /\ removed' = removed \cup {x}
             /\ GoTo(d, "done")
       \/ GoTo(d, "notfound") /\ UNCHANGED <<rows, removed>>
    /\ UNCHANGED <<deleted, records, chain, page, answered>>

-----------------------------------------------------------------------------
Delete(d) == DeleteItems(d) \/ DeleteConversation(d) \/ DeleteFails(d) \/ DeleteItem(d)

Store(w) == ReadMaxSeq(w) \/ Insert(w) \/ Stored(w) \/ StoreFails(w)

loadChainItems(t) == Follow(t) \/ WalkChain(t) \/ ChainEnds(t)

List(l) == FindCursor(l) \/ ListItems(l) \/ ListFails(l)

Responses(t) == LoadItems(t) \/ Generate(t) \/ persistResponse(t)

Next ==
    \/ \E r \in Requests : FindConversation(r)
    \/ \E t \in Chained : loadChainItems(t)
    \/ \E t \in Turns : Responses(t)
    \/ \E p \in Posts : CreateItems(p)
    \/ \E w \in Writers : Store(w)
    \/ \E l \in Lists : List(l)
    \/ \E d \in Deletes : Delete(d)

Spec == Init /\ [][Next]_vars

-----------------------------------------------------------------------------
(* Properties                                                              *)

\* Reading in the order of seq gives the items of a request in their order, and
\* after those of every request that had stored all its items before, however
\* many items are deleted in between and whatever other requests do.
TurnOrder ==
    \A x, y \in rows :
        \/ x.by = y.by /\ x.n < y.n
        \/ x.by \in req[y.by].follows
        => x.seq < y.seq

PastLoading(t) == req[t].pc \notin {"new", "found", "walking", "notfound"}

\* A turn that comes after the answer to a plain request has all the items that
\* request stored, but those that were deleted.
HistoryComplete ==
    \A t \in Turns \ Chained : PastLoading(t) =>
        \A w \in req[t].after \ (Streamed \cup Chained) : At(w, "done") =>
            Ids(w) \subseteq req[t].history \cup ids(removed)

\* A turn that names a previous response is given a line of responses, each the
\* answer to the one before it and the last the one it names.  The line reaches back
\* to its first response that has no stored one before it, unless it is as long as
\* the cap or a read has failed.
ChainSound ==
    \A t \in Chained : PastLoading(t) /\ chain[t].previous # Nothing =>
        LET line == Append(chain[t].found, t)
            link(u, v) == \/ v = t /\ u = chain[t].previous
                          \/ \E x \in records : x.id = v /\ x.previous = u
        IN  /\ \A i \in 1..(Len(line) - 1) : link(line[i], line[i + 1])
            /\ Len(chain[t].found) <= MaxDepth
            /\ \/ Len(chain[t].found) = MaxDepth \/ chain[t].broken
               \/ \A x \in records : ~link(x.id, Head(line)) \/ x.id \in Streamed

\* No two items share a seq, and none was deleted and stored again under its id.
Distinct ==
    \A x, y \in rows \cup removed : x.seq = y.seq \/ x.id = y.id => x = y

\* A client that follows the cursor to the end is given every item that was there when
\* it began and is not deleted, and, if it is given no item that is deleted, none twice,
\* provided that seqs and ids tell items apart: a cursor that is stored again has moved.
ListingComplete ==
    \A l \in Lists : At(l, "done") /\ Distinct =>
        /\ page[l].present \subseteq Range(page[l].given) \cup ids(removed)
        /\ Range(page[l].given) \cap ids(removed) = {} /\ ~page[l].lost =>
              IsInjective(page[l].given)

-----------------------------------------------------------------------------
(* Statements of comments in the code                                      *)

\* models/conversation.go: Seq orders the items within the conversation.
SeqOrders == \A x, y \in rows : x.seq = y.seq => x = y

\* responses.go: the items are persisted so that later requests can chain off
\* them; also when the earlier response was streamed.
LaterTurnsChain ==
    \A t \in Turns \ Chained : PastLoading(t) =>
        \A w \in (req[t].after \cap Turns) \ Chained : At(w, "done") =>
            Ids(w) \subseteq req[t].history \cup ids(removed)

\* docs/api.md: when a request carries previous_response_id the stored items are
\* prepended to its input.
PreviousIsLoaded ==
    \A t \in Chained : PastLoading(t) /\ chain[t].previous # Nothing => chain[t].found # <<>>

\* docs/api.md: the input and output items of a turn are persisted afterwards, if the
\* database takes them.
TurnIsStored ==
    \A t \in Turns \ Chained : "write" \notin Faults => ~At(t, "failed") \/ t \notin answered
=============================================================================
