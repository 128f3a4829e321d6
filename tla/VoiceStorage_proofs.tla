------------------------- MODULE VoiceStorage_proofs -------------------------
(***************************************************************************)
(* Proofs about VoiceStorage, for any nodes, requests, voices, names, faults *)
(* and restarts: its types, and what a listing, a pass of SyncVoiceStorage    *)
(* and its sweep leave behind.  Then a proof about Speech: which requests are  *)
(* spoken in the voice, and by the backend, that they asked for.              *)
(***************************************************************************)
EXTENDS MCVoices, Integers, Sequences, TLAPS

Busy    == {"written", "found", "unlinked", "loading", "missed", "storing"}
Loading == {"loading", "missed", "storing"}

\* The legacy voice has a blob, unless what a backfill took for it was none.
Stored == rows[Legacy].blob # None \/ Legacy \in spoilt

\* What a request under way holds, and that what it knows of a row still holds.
OpAt(r) ==
    /\ op[r].pc \in Busy \cup {"extracting"} => op[r].node \in Nodes
    /\ op[r].pc \in {"extracting", "written"} => op[r].name \in Names
    /\ op[r].pc \in Busy => op[r].voice \in Voices
    /\ op[r].pc \in {"new", "extracting", "over"} => op[r].voice = None
    /\ op[r].pc \in {"found", "unlinked"} => op[r].voice \in asked
    /\ op[r].pc \in Busy \ {"written"} => rows[op[r].voice].state # "absent"
    /\ op[r].pc \in Loading /\ op[r].voice = Legacy /\ op[r].blob # None => Stored

OpInv == \A r \in Requests : OpAt(r)

\* A new id is used by one request, and for no row before that request makes one.
NewIdInv ==
    \A r \in Requests : op[r].pc = "written" =>
        /\ rows[op[r].voice].state = "absent"
        /\ \A p \in Requests : p # r => op[p].voice # op[r].voice

\* No two rows have a name, deleted ones included.
NameInv ==
    \A v, w \in Voices :
        rows[v].state # "absent" /\ rows[w].state # "absent" /\ rows[v].name = rows[w].name => v = w

\* The legacy voice's row stays, with a whole blob if it has one.
LegacyInv ==
    /\ rows[Legacy].state # "absent"
    /\ rows[Legacy].blob = "cut" => Legacy \in spoilt

InHand(n) ==
    sync[n].pc \in {"repair", "truncate", "rewrite", "rewriting", "fill", "filling"}

\* What a pass has listed or has in hand still holds of the row, or was mended since.
Known(e) ==
    /\ e.voice # Legacy => e.blob = "fits"
    /\ e.voice = Legacy /\ e.blob # None => Stored
    /\ e.voice = Legacy /\ e.blob # "over" => rows[Legacy].blob # "over" \/ ~Active(Legacy)

PassAt(n) ==
    /\ InHand(n) \/ At(n, "unlink") => sync[n].cur.voice \in Voices
    /\ \A e \in sync[n].todo : Known(e)
    /\ InHand(n) => Known(sync[n].cur)
    /\ At(n, "repair") => Oversize(sync[n].cur.blob, sync[n].cur.file)
    /\ At(n, "truncate") => sync[n].cur.blob = None
    /\ sync[n].pc \in {"rewrite", "rewriting"} => sync[n].cur.blob = "fits"
    /\ sync[n].pc \in {"fill", "filling"} => ~Oversize(sync[n].cur.blob, sync[n].cur.file)
    /\ At(n, "filling") => sync[n].cur.blob # None
    /\ sync[n].pc \in {"boot", "sweep", "unlink", "done"} => sync[n].todo = {}

PassInv == \A n \in Nodes : PassAt(n)

\* The legacy voice is as SyncRepairs wants it.
Settled(n) ==
    Active(Legacy) =>
        rows[Legacy].blob # "over" /\ (rows[Legacy].blob = None => disk[n][Legacy] = None)

\* A pass that listed it has settled it, has it in hand, or has yet to come to it.
RepairAt(n) ==
    /\ Legacy \in sync[n].listed \ spoilt /\ ~sync[n].failed =>
         \/ \E e \in sync[n].todo : e.voice = Legacy
         \/ InHand(n) /\ sync[n].cur.voice = Legacy
         \/ Settled(n)
    /\ At(n, "fill") /\ sync[n].cur.voice = Legacy /\ sync[n].cur.file = None =>
         Stored \/ disk[n][Legacy] = None

RepairInv == \A n \in Nodes : RepairAt(n)

\* Nothing on a node brings a voice back that was deleted when it came up.
SweepAt(n) ==
    \A v \in sync[n].gone :
        /\ rows[v].state = "deleted"
        /\ \A r \in Requests : op[r].node = n /\ op[r].pc \in Loading => op[r].voice # v
        /\ \A e \in sync[n].todo : e.voice # v
        /\ InHand(n) => sync[n].cur.voice # v
        /\ sync[n].pc \in {"sweep", "unlink", "done"} /\ disk[n][v] # None =>
             \/ v \in sync[n].files \cup sync[n].left
             \/ At(n, "unlink") /\ sync[n].cur.voice = v
        /\ At(n, "done") => sync[n].files = {} \/ v \in sync[n].left

SweepInv == \A n \in Nodes : SweepAt(n)

\* The pass of node n has truncated the legacy voice's file, and not yet written it.
Cutting(n) == At(n, "truncate") /\ sync[n].cur.voice = Legacy

\* The sweep takes only what has no row, unless counting fails; so the file a pass is
\* about to write is still there, and the legacy voice's embedding is somewhere.
KeepInv ==
    /\ \A n \in Nodes : At(n, "unlink") /\ sync[n].cur.voice = Legacy => ~Active(Legacy)
    /\ Active(Legacy) /\ Legacy \notin asked =>
         \A n \in Nodes : Cutting(n) => disk[n][Legacy] # None
    /\ Active(Legacy) /\ Legacy \notin asked \cup spoilt =>
         rows[Legacy].blob # None \/ \E n \in Nodes : disk[n][Legacy] \in Whole \/ Cutting(n)

IInv == /\ TypeOK /\ OpInv /\ NewIdInv /\ NameInv /\ LegacyInv
        /\ PassInv /\ RepairInv /\ SweepInv /\ ("count" \notin Faults => KeepInv)

-----------------------------------------------------------------------------
(* What each step writes                                                    *)

LEMMA NoneIsOther ==
    ASSUME VoiceAssumption
    PROVE  /\ None \notin Voices /\ None \notin Nodes /\ None \notin Names
           /\ None # "fits" /\ None # "over" /\ None # "cut"
           /\ Legacy \in Voices /\ MaxBoots \in Nat
BY DEF VoiceAssumption

\* More may be spoilt.
Grows == spoilt \subseteq spoilt' /\ spoilt' \subseteq Voices

LEMMA Unspoilt == ASSUME TypeOK, spoilt' = spoilt PROVE Grows
BY DEF TypeOK, Grows

\* The pass of node n gets to pc, and nothing else moves but rows, files and what is
\* spoilt.
Goes(n, pc, todo, cur, files, listed, failed) ==
    /\ sync' \in [Nodes -> SyncType]
    /\ \A m \in Nodes : m # n => sync'[m] = sync[m]
    /\ sync'[n].pc = pc /\ sync'[n].todo = todo /\ sync'[n].cur = cur
    /\ sync'[n].files = files /\ sync'[n].listed = listed
    /\ sync'[n].failed = failed /\ sync'[n].gone = sync[n].gone
    /\ sync[n].left \subseteq sync'[n].left
    /\ UNCHANGED <<op, boots, asked>>
    /\ Grows

LEMMA Goes1 ==
    ASSUME TypeOK, NEW n \in Nodes, NEW s \in SyncType, sync' = [sync EXCEPT ![n] = s],
           s.gone = sync[n].gone, sync[n].left \subseteq s.left, UNCHANGED <<op, boots, asked>>,
           Grows
    PROVE  Goes(n, s.pc, s.todo, s.cur, s.files, s.listed, s.failed)
BY DEF Goes, TypeOK

LEMMA ListSteps ==
    ASSUME TypeOK, NEW n \in Nodes, List(n)
    PROVE  /\ At(n, "boot") /\ UNCHANGED <<rows, disk, spoilt>>
           /\ \/ Goes(n, "voices",
                      {[voice |-> v, blob |-> rows[v].blob] : v \in {w \in Voices : Active(w)}},
                      sync[n].cur, sync[n].files, {w \in Voices : Active(w)}, sync[n].failed)
              \/ /\ Goes(n, "done", sync[n].todo, sync[n].cur, sync[n].files, sync[n].listed, TRUE)
                 /\ sync'[n].left = Voices
<1> DEFINE L == {w \in Voices : Active(w)}
           T == {[voice |-> v, blob |-> rows[v].blob] : v \in L}
           s == [[[sync[n] EXCEPT !.pc = "voices"] EXCEPT !.listed = L] EXCEPT !.todo = T]
           f == [[[sync[n] EXCEPT !.pc = "done"] EXCEPT !.left = Voices] EXCEPT !.failed = TRUE]
<1>1. L \in SUBSET Voices /\ T \in SUBSET [voice : Voices, blob : Sizes]
  BY DEF TypeOK, Row
<1>2. /\ \/ sync' = [sync EXCEPT ![n].pc = "voices", ![n].listed = L, ![n].todo = T]
         \/ sync' = [sync EXCEPT ![n].pc = "done", ![n].left = Voices, ![n].failed = TRUE]
      /\ At(n, "boot") /\ UNCHANGED <<rows, disk, op, boots, asked, spoilt>>
  BY DEF List, history
<1>3. Grows
  BY <1>2, Unspoilt
<1> HIDE DEF L, T
<1>4. CASE sync' = [sync EXCEPT ![n].pc = "voices", ![n].listed = L, ![n].todo = T]
  <2>1. sync' = [sync EXCEPT ![n] = s]
    BY <1>4 DEF TypeOK
  <2>2. /\ s \in SyncType /\ s.gone = sync[n].gone /\ s.left = sync[n].left
        /\ s.pc = "voices" /\ s.todo = T /\ s.cur = sync[n].cur /\ s.files = sync[n].files
        /\ s.listed = L /\ s.failed = sync[n].failed
    BY <1>1 DEF TypeOK, SyncType
  <2> HIDE DEF s
  <2>3. Goes(n, "voices", T, sync[n].cur, sync[n].files, L, sync[n].failed)
    BY <1>2, <1>3, <2>1, <2>2, Goes1
  <2> QED
    BY <1>2, <2>3 DEF L, T
<1>5. CASE sync' = [sync EXCEPT ![n].pc = "done", ![n].left = Voices, ![n].failed = TRUE]
  <2>1. sync' = [sync EXCEPT ![n] = f]
    BY <1>5 DEF TypeOK
  <2>2. /\ f \in SyncType /\ f.gone = sync[n].gone /\ f.left = Voices
        /\ f.pc = "done" /\ f.todo = sync[n].todo /\ f.cur = sync[n].cur
        /\ f.files = sync[n].files /\ f.listed = sync[n].listed /\ f.failed = TRUE
        /\ sync[n].left \subseteq Voices
    BY DEF TypeOK, SyncType
  <2> HIDE DEF f
  <2>3. Goes(n, "done", sync[n].todo, sync[n].cur, sync[n].files, sync[n].listed, TRUE)
    BY <1>2, <1>3, <2>1, <2>2, Goes1
  <2>4. sync'[n].left = Voices
    BY <2>1, <2>2 DEF TypeOK
  <2> QED
    BY <1>2, <2>3, <2>4
<1> QED
  BY <1>2, <1>4, <1>5

LEMMA ReadVoiceSteps ==
    ASSUME TypeOK, NEW n \in Nodes, ReadVoice(n)
    PROVE  /\ At(n, "voices") /\ UNCHANGED <<rows, disk, spoilt>>
           /\ \E e \in sync[n].todo : LET file == disk[n][e.voice] IN
                 Goes(n, IF Oversize(e.blob, file) THEN "repair" ELSE "fill", sync[n].todo \ {e},
                      [voice |-> e.voice, blob |-> e.blob, file |-> file],
                      sync[n].files, sync[n].listed, sync[n].failed)
<1>1. PICK e \in sync[n].todo :
        sync' = [sync EXCEPT ![n].todo = @ \ {e},
                   ![n].pc = IF Oversize(e.blob, disk[n][e.voice]) THEN "repair" ELSE "fill",
                   ![n].cur = [voice |-> e.voice, blob |-> e.blob, file |-> disk[n][e.voice]]]
  BY DEF ReadVoice
<1>2. At(n, "voices") /\ UNCHANGED <<rows, disk, op, boots, asked, spoilt>>
  BY DEF ReadVoice, history
<1> DEFINE pc == IF Oversize(e.blob, disk[n][e.voice]) THEN "repair" ELSE "fill"
           c == [voice |-> e.voice, blob |-> e.blob, file |-> disk[n][e.voice]]
           T == sync[n].todo \ {e}
           s == [[[sync[n] EXCEPT !.todo = T] EXCEPT !.pc = pc] EXCEPT !.cur = c]
<1>3. /\ e \in [voice : Voices, blob : Sizes] /\ disk[n][e.voice] \in Sizes
      /\ T \in SUBSET [voice : Voices, blob : Sizes]
  BY DEF TypeOK, SyncType
<1>4. pc \in {"repair", "fill"} /\ c \in [voice : Voices \cup {None}, blob : Sizes, file : Sizes]
  BY <1>3
<1>5. sync' = [sync EXCEPT ![n].todo = T, ![n].pc = pc, ![n].cur = c]
  BY <1>1
<1> HIDE DEF pc, c, T
<1>6. sync' = [sync EXCEPT ![n] = s]
  BY <1>5 DEF TypeOK
<1>7. /\ s \in SyncType /\ s.gone = sync[n].gone /\ s.left = sync[n].left
      /\ s.pc = pc /\ s.todo = T /\ s.cur = c /\ s.files = sync[n].files
      /\ s.listed = sync[n].listed /\ s.failed = sync[n].failed
  <2>1. sync[n] \in SyncType
    BY DEF TypeOK
  <2>2. /\ \A y \in SyncType : [y EXCEPT !.todo = T] \in SyncType
        /\ \A y \in SyncType : [y EXCEPT !.pc = pc] \in SyncType
        /\ \A y \in SyncType : [y EXCEPT !.cur = c] \in SyncType
    BY <1>3, <1>4 DEF SyncType
  <2>3. s \in SyncType
    BY <2>1, <2>2
  <2>4. /\ s.gone = sync[n].gone /\ s.left = sync[n].left
        /\ s.pc = pc /\ s.todo = T /\ s.cur = c /\ s.files = sync[n].files /\ s.listed = sync[n].listed /\ s.failed = sync[n].failed
    BY <2>1 DEF SyncType
  <2> QED
    BY <2>3, <2>4
<1> HIDE DEF s
<1>8. Goes(n, pc, T, c, sync[n].files, sync[n].listed, sync[n].failed)
  BY <1>2, <1>6, <1>7, Goes1, Unspoilt
<1> QED
  BY <1>2, <1>8 DEF pc, c, T

LEMMA GoOnSteps ==
    ASSUME VoiceAssumption, TypeOK, NEW n \in Nodes, UNCHANGED <<op, boots, asked>>, Grows
    PROVE  /\ sync' = GoOn(n, TRUE) =>
                Goes(n, "voices", sync[n].todo, NoVoice, sync[n].files, sync[n].listed, TRUE)
           /\ sync' = GoOn(n, FALSE) =>
                Goes(n, "voices", sync[n].todo, NoVoice, sync[n].files, sync[n].listed,
                     sync[n].failed)
<1>1. NoVoice \in [voice : Voices \cup {None}, blob : Sizes, file : Sizes]
  BY DEF NoVoice, Sizes
<1>0. sync[n] \in SyncType
  BY DEF TypeOK
<1>2. sync' = GoOn(n, TRUE) =>
        Goes(n, "voices", sync[n].todo, NoVoice, sync[n].files, sync[n].listed, TRUE)
  <2> SUFFICES ASSUME sync' = GoOn(n, TRUE)
               PROVE  Goes(n, "voices", sync[n].todo, NoVoice, sync[n].files, sync[n].listed, TRUE)
    OBVIOUS
  <2> DEFINE s == [[[sync[n] EXCEPT !.pc = "voices"] EXCEPT !.cur = NoVoice] EXCEPT !.failed = TRUE]
  <2>1. sync' = [sync EXCEPT ![n].pc = "voices", ![n].cur = NoVoice, ![n].failed = TRUE]
    BY DEF GoOn
  <2>2. sync' = [sync EXCEPT ![n] = s]
    BY <2>1 DEF TypeOK
  <2>3. /\ s \in SyncType /\ s.gone = sync[n].gone /\ s.left = sync[n].left
        /\ s.pc = "voices" /\ s.todo = sync[n].todo /\ s.cur = NoVoice /\ s.files = sync[n].files
        /\ s.listed = sync[n].listed /\ s.failed = TRUE
    BY <1>0, <1>1 DEF SyncType
  <2> HIDE DEF s
  <2>4. Goes(n, s.pc, s.todo, s.cur, s.files, s.listed, s.failed)
    BY <2>2, <2>3, Goes1
  <2> QED
    BY <2>3, <2>4, Zenon
<1>3. sync' = GoOn(n, FALSE) =>
        Goes(n, "voices", sync[n].todo, NoVoice, sync[n].files, sync[n].listed, sync[n].failed)
  <2> SUFFICES ASSUME sync' = GoOn(n, FALSE)
               PROVE  Goes(n, "voices", sync[n].todo, NoVoice, sync[n].files, sync[n].listed,
                           sync[n].failed)
    OBVIOUS
  <2> DEFINE s == [[sync[n] EXCEPT !.pc = "voices"] EXCEPT !.cur = NoVoice]
  <2>0. sync[n].failed \in BOOLEAN
    BY DEF TypeOK, SyncType
  <2>1. (sync[n].failed \/ FALSE) = sync[n].failed
    BY <2>0, Zenon
  <2>2. sync' = [sync EXCEPT ![n].pc = "voices", ![n].cur = NoVoice, ![n].failed = sync[n].failed]
    BY <2>1 DEF GoOn
  <2>3. sync' = [sync EXCEPT ![n] = s]
    BY <2>2 DEF TypeOK, SyncType
  <2>4. /\ s \in SyncType /\ s.gone = sync[n].gone /\ s.left = sync[n].left
        /\ s.pc = "voices" /\ s.todo = sync[n].todo /\ s.cur = NoVoice /\ s.files = sync[n].files
        /\ s.listed = sync[n].listed /\ s.failed = sync[n].failed
    BY <1>0, <1>1 DEF SyncType
  <2> HIDE DEF s
  <2>5. Goes(n, s.pc, s.todo, s.cur, s.files, s.listed, s.failed)
    BY <2>3, <2>4, Goes1
  <2> QED
    BY <2>4, <2>5, Zenon
<1> QED
  BY <1>2, <1>3

LEMMA InHandSteps ==
    ASSUME TypeOK, NEW n \in Nodes,
           NEW pc \in {"truncate", "rewrite", "rewriting", "fill", "filling"}, NEW c,
           c \in [voice : Voices \cup {None}, blob : Sizes, file : Sizes],
           sync' = [sync EXCEPT ![n].pc = pc, ![n].cur = c], UNCHANGED <<op, boots, asked>>,
           Grows
    PROVE  Goes(n, pc, sync[n].todo, c, sync[n].files, sync[n].listed, sync[n].failed)
<1> DEFINE s == [[sync[n] EXCEPT !.pc = pc] EXCEPT !.cur = c]
<1>1. sync' = [sync EXCEPT ![n] = s]
  BY DEF TypeOK
<1>2. /\ s \in SyncType /\ s.gone = sync[n].gone /\ s.left = sync[n].left
      /\ s.pc = pc /\ s.todo = sync[n].todo /\ s.cur = c /\ s.files = sync[n].files
      /\ s.listed = sync[n].listed /\ s.failed = sync[n].failed
  <2>1. sync[n] \in SyncType
    BY DEF TypeOK
  <2>2. /\ \A y \in SyncType : [y EXCEPT !.pc = pc] \in SyncType
        /\ \A y \in SyncType : [y EXCEPT !.cur = c] \in SyncType
    BY DEF SyncType
  <2>3. s \in SyncType
    BY <2>1, <2>2
  <2>4. /\ s.gone = sync[n].gone /\ s.left = sync[n].left /\ s.pc = pc
        /\ s.todo = sync[n].todo /\ s.cur = c
        /\ s.files = sync[n].files /\ s.listed = sync[n].listed /\ s.failed = sync[n].failed
    BY <2>1 DEF SyncType
  <2> QED
    BY <2>3, <2>4
<1> HIDE DEF s
<1> QED
  BY <1>1, <1>2, Goes1

\* The pass gets on with the voice in hand.
LEMMA StepOn ==
    ASSUME TypeOK, NEW n \in Nodes,
           NEW pc \in {"truncate", "rewrite", "rewriting", "fill", "filling"},
           sync' = [sync EXCEPT ![n].pc = pc], UNCHANGED <<op, boots, asked>>, Grows
    PROVE  Goes(n, pc, sync[n].todo, sync[n].cur, sync[n].files, sync[n].listed, sync[n].failed)
<1>1. sync' = [sync EXCEPT ![n].pc = pc, ![n].cur = sync[n].cur]
  BY DEF TypeOK, SyncType
<1>2. sync[n].cur \in [voice : Voices \cup {None}, blob : Sizes, file : Sizes]
  BY DEF TypeOK, SyncType
<1> QED
  BY <1>1, <1>2, InHandSteps

LEMMA RepairSteps ==
    ASSUME VoiceAssumption, TypeOK, NEW n \in Nodes, Repair(n)
    PROVE  /\ At(n, "repair") /\ spoilt' = spoilt
           /\ \/ /\ sync[n].cur.blob = "over" /\ rows' = SetBlob(sync[n].cur.voice, "fits") /\ disk' = disk
                 /\ Goes(n, IF sync[n].cur.file = None THEN "fill" ELSE "rewrite", sync[n].todo,
                         [sync[n].cur EXCEPT !.blob = "fits"], sync[n].files, sync[n].listed,
                         sync[n].failed)
              \/ /\ UNCHANGED <<rows, disk>>
                 /\ Goes(n, "voices", sync[n].todo, NoVoice, sync[n].files, sync[n].listed, TRUE)
              \/ /\ sync[n].cur.blob = None /\ rows' = rows
                 /\ Truncate(n, sync[n].cur.voice)
                 /\ Goes(n, "truncate", sync[n].todo, sync[n].cur,
                         sync[n].files, sync[n].listed, sync[n].failed)
<1> DEFINE cur == sync[n].cur
           pc == IF cur.file = None THEN "fill" ELSE "rewrite"
<1>1. At(n, "repair") /\ UNCHANGED <<op, boots, asked, spoilt>>
  BY DEF Repair, history
<1>0. Grows
  BY <1>1, Unspoilt
<1>2. cur \in [voice : Voices \cup {None}, blob : Sizes, file : Sizes]
  BY DEF TypeOK, SyncType
<1>3. CASE cur.blob = "over" /\ rows' = SetBlob(cur.voice, "fits") /\ disk' = disk /\
           sync' = [sync EXCEPT ![n].pc = pc, ![n].cur.blob = "fits"]
  <2> DEFINE c == [cur EXCEPT !.blob = "fits"]
  <2>1. /\ pc \in {"truncate", "rewrite", "rewriting", "fill", "filling"}
        /\ c \in [voice : Voices \cup {None}, blob : Sizes, file : Sizes]
    BY <1>2 DEF Sizes, Whole
  <2> HIDE DEF pc
  <2>2. sync' = [sync EXCEPT ![n].pc = pc, ![n].cur = c]
    BY <1>3 DEF TypeOK, SyncType
  <2> HIDE DEF c
  <2>3. Goes(n, pc, sync[n].todo, c, sync[n].files, sync[n].listed, sync[n].failed)
    BY <1>0, <1>1, <2>1, <2>2, InHandSteps
  <2> QED
    BY <1>1, <1>3, <2>3 DEF pc, c
<1>4. CASE UNCHANGED <<rows, disk>> /\ sync' = GoOn(n, TRUE)
  BY <1>0, <1>1, <1>4, GoOnSteps
<1>5. CASE cur.blob = None /\ rows' = rows /\ Truncate(n, cur.voice) /\
           sync' = [sync EXCEPT ![n].pc = "truncate"]
  BY <1>0, <1>1, <1>5, StepOn
<1> HIDE DEF pc
<1> QED
  BY <1>3, <1>4, <1>5 DEF Repair, pc

LEMMA RepairFileSteps ==
    ASSUME VoiceAssumption, TypeOK, NEW n \in Nodes, RepairFile(n)
    PROVE  /\ At(n, "truncate") /\ rows' = rows
           /\ \/ /\ Write(n, sync[n].cur.voice, "fits") /\ spoilt' = spoilt
                 /\ Goes(n, "fill", sync[n].todo, [sync[n].cur EXCEPT !.file = "fits"],
                         sync[n].files, sync[n].listed, sync[n].failed)
              \/ /\ disk' = disk /\ spoilt' = spoilt \cup {sync[n].cur.voice}
                 /\ sync[n].cur.voice \in Voices =>
                      Goes(n, "voices", sync[n].todo, NoVoice, sync[n].files, sync[n].listed, TRUE)
<1> DEFINE cur == sync[n].cur
<1>1. At(n, "truncate") /\ UNCHANGED <<rows, op, boots, asked>>
  BY DEF RepairFile
<1>2. cur \in [voice : Voices \cup {None}, blob : Sizes, file : Sizes]
  BY DEF TypeOK, SyncType
<1>3. CASE Write(n, cur.voice, "fits") /\ spoilt' = spoilt /\
           sync' = [sync EXCEPT ![n].pc = "fill", ![n].cur.file = "fits"]
  <2>1. [cur EXCEPT !.file = "fits"] \in [voice : Voices \cup {None}, blob : Sizes, file : Sizes]
    BY <1>2 DEF Sizes, Whole
  <2>2. sync' = [sync EXCEPT ![n].pc = "fill", ![n].cur = [cur EXCEPT !.file = "fits"]]
    BY <1>3 DEF TypeOK, SyncType
  <2>3. Goes(n, "fill", sync[n].todo, [cur EXCEPT !.file = "fits"], sync[n].files, sync[n].listed, sync[n].failed)
    BY <1>1, <1>3, <2>1, <2>2, InHandSteps, Unspoilt
  <2> QED
    BY <1>1, <1>3, <2>3
<1>4. CASE disk' = disk /\ spoilt' = spoilt \cup {cur.voice} /\ sync' = GoOn(n, TRUE)
  <2>1. cur.voice \in Voices => Grows
    BY <1>4 DEF Grows, TypeOK
  <2> QED
    BY <1>1, <1>4, <2>1, GoOnSteps
<1> QED
  BY <1>3, <1>4 DEF RepairFile

LEMMA RewriteSteps ==
    ASSUME TypeOK, NEW n \in Nodes
    PROVE  /\ Rewrite(n) =>
                /\ At(n, "rewrite") /\ UNCHANGED <<rows, spoilt>>
                /\ \/ /\ Truncate(n, sync[n].cur.voice)
                      /\ Goes(n, "rewriting", sync[n].todo, sync[n].cur, sync[n].files,
                              sync[n].listed, sync[n].failed)
                   \/ /\ disk' = disk
                      /\ Goes(n, "fill", sync[n].todo, sync[n].cur, sync[n].files,
                              sync[n].listed, sync[n].failed)
           /\ RewriteFile(n) =>
                /\ At(n, "rewriting") /\ UNCHANGED <<rows, spoilt>>
                /\ Write(n, sync[n].cur.voice, "fits") \/ disk' = disk
                /\ Goes(n, "fill", sync[n].todo, sync[n].cur, sync[n].files,
                        sync[n].listed, sync[n].failed)
<1>1. ASSUME Rewrite(n)
      PROVE  /\ At(n, "rewrite") /\ UNCHANGED <<rows, op, boots, asked, spoilt>>
             /\ \/ Truncate(n, sync[n].cur.voice) /\ sync' = [sync EXCEPT ![n].pc = "rewriting"]
                \/ disk' = disk /\ sync' = [sync EXCEPT ![n].pc = "fill"]
  BY <1>1 DEF Rewrite, history
<1>2. ASSUME RewriteFile(n)
      PROVE  /\ At(n, "rewriting") /\ UNCHANGED <<rows, op, boots, asked, spoilt>>
             /\ Write(n, sync[n].cur.voice, "fits") \/ disk' = disk
             /\ sync' = [sync EXCEPT ![n].pc = "fill"]
  BY <1>2 DEF RewriteFile, history
<1> QED
  BY <1>1, <1>2, StepOn, Unspoilt

LEMMA FillSteps ==
    ASSUME VoiceAssumption, TypeOK, NEW n \in Nodes, Fill(n), sync[n].cur.voice \in Voices
    PROVE  /\ At(n, "fill")
           /\ \/ /\ sync[n].cur.blob = None /\ sync[n].cur.file # None /\ disk' = disk
                 /\ \E size \in ReadAs(sync[n].cur.file) : rows' = SetBlob(sync[n].cur.voice, size)
                 /\ sync[n].cur.file = "cut" => sync[n].cur.voice \in spoilt'
                 /\ Goes(n, "voices", sync[n].todo, NoVoice, sync[n].files, sync[n].listed,
                         sync[n].failed)
              \/ /\ UNCHANGED <<rows, disk, spoilt>>
                 /\ Goes(n, "voices", sync[n].todo, NoVoice, sync[n].files, sync[n].listed, TRUE)
              \/ /\ sync[n].cur.blob # None /\ UNCHANGED <<rows, spoilt>>
                 /\ Truncate(n, sync[n].cur.voice)
                 /\ Goes(n, "filling", sync[n].todo, sync[n].cur, sync[n].files, sync[n].listed,
                         sync[n].failed)
              \/ /\ (sync[n].cur.blob = None) = (sync[n].cur.file = None)
                 /\ UNCHANGED <<rows, disk, spoilt>>
                 /\ Goes(n, "voices", sync[n].todo, NoVoice, sync[n].files, sync[n].listed,
                         sync[n].failed)
<1> DEFINE cur == sync[n].cur
<1>1. At(n, "fill") /\ UNCHANGED <<op, boots, asked>>
  BY DEF Fill
<1>2. CASE /\ cur.blob = None /\ cur.file # None /\ disk' = disk
           /\ \E size \in ReadAs(cur.file) : rows' = SetBlob(cur.voice, size)
           /\ sync' = GoOn(n, FALSE)
           /\ spoilt' = IF cur.file = "cut" THEN spoilt \cup {cur.voice} ELSE spoilt
  <2>1. Grows /\ (cur.file = "cut" => cur.voice \in spoilt')
    BY <1>2 DEF Grows, TypeOK
  <2> QED
    BY <1>1, <1>2, <2>1, GoOnSteps
<1>3. CASE UNCHANGED <<rows, disk, spoilt>> /\ sync' = GoOn(n, TRUE)
  BY <1>1, <1>3, GoOnSteps, Unspoilt
<1>4. CASE /\ cur.blob # None /\ UNCHANGED <<rows, spoilt>> /\ Truncate(n, cur.voice)
           /\ sync' = [sync EXCEPT ![n].pc = "filling"]
  BY <1>1, <1>4, StepOn, Unspoilt
<1>5. CASE /\ (cur.blob = None) = (cur.file = None) /\ UNCHANGED <<rows, disk, spoilt>>
           /\ sync' = GoOn(n, FALSE)
  BY <1>1, <1>5, GoOnSteps, Unspoilt
<1> QED
  BY <1>2, <1>3, <1>4, <1>5 DEF Fill

LEMMA FillFileSteps ==
    ASSUME VoiceAssumption, TypeOK, NEW n \in Nodes, FillFile(n)
    PROVE  /\ At(n, "filling") /\ UNCHANGED <<rows, spoilt>>
           /\ \/ /\ Write(n, sync[n].cur.voice, sync[n].cur.blob)
                 /\ Goes(n, "voices", sync[n].todo, NoVoice, sync[n].files, sync[n].listed,
                         sync[n].failed)
              \/ /\ disk' = disk
                 /\ Goes(n, "voices", sync[n].todo, NoVoice, sync[n].files, sync[n].listed, TRUE)
<1>1. At(n, "filling") /\ UNCHANGED <<rows, op, boots, asked, spoilt>>
  BY DEF FillFile, history
<1>2. \/ Write(n, sync[n].cur.voice, sync[n].cur.blob) /\ sync' = GoOn(n, FALSE)
      \/ disk' = disk /\ sync' = GoOn(n, TRUE)
  BY DEF FillFile
<1>3. Grows
  BY <1>1, Unspoilt
<1> QED
  BY <1>1, <1>2, <1>3, GoOnSteps

LEMMA SweepSteps ==
    ASSUME TypeOK, NEW n \in Nodes
    PROVE  /\ ReadDir(n) =>
                /\ At(n, "voices") /\ sync[n].todo = {} /\ UNCHANGED <<rows, disk, spoilt>>
                /\ \/ Goes(n, "sweep", sync[n].todo, sync[n].cur, {v \in Voices : disk[n][v] # None},
                           sync[n].listed, sync[n].failed)
                   \/ /\ Goes(n, "sweep", sync[n].todo, sync[n].cur, sync[n].files,
                              sync[n].listed, sync[n].failed)
                      /\ sync'[n].left = Voices
           /\ SyncDone(n) =>
                /\ At(n, "sweep") /\ sync[n].files = {} /\ UNCHANGED <<rows, disk, spoilt>>
                /\ Goes(n, "done", sync[n].todo, sync[n].cur, sync[n].files, sync[n].listed,
                        sync[n].failed)
<1>0. sync[n] \in SyncType /\ NoVoice \in [voice : Voices \cup {None}, blob : Sizes, file : Sizes]
  BY DEF TypeOK, NoVoice, Sizes
<1>1. ASSUME ReadDir(n)
      PROVE  /\ At(n, "voices") /\ sync[n].todo = {} /\ UNCHANGED <<rows, disk, spoilt>>
             /\ \/ Goes(n, "sweep", sync[n].todo, sync[n].cur, {v \in Voices : disk[n][v] # None},
                        sync[n].listed, sync[n].failed)
                \/ /\ Goes(n, "sweep", sync[n].todo, sync[n].cur, sync[n].files,
                           sync[n].listed, sync[n].failed)
                   /\ sync'[n].left = Voices
  <2> DEFINE F == {v \in Voices : disk[n][v] # None}
             s == [[sync[n] EXCEPT !.pc = "sweep"] EXCEPT !.files = F]
             f == [[sync[n] EXCEPT !.pc = "sweep"] EXCEPT !.left = Voices]
  <2>1. /\ \/ sync' = [sync EXCEPT ![n].pc = "sweep", ![n].files = F]
           \/ sync' = [sync EXCEPT ![n].pc = "sweep", ![n].left = Voices]
        /\ At(n, "voices") /\ sync[n].todo = {}
        /\ UNCHANGED <<rows, disk, op, boots, asked, spoilt>>
    BY <1>1 DEF ReadDir, history
  <2>2. F \in SUBSET Voices
    OBVIOUS
  <2>3. Grows
    BY <2>1, Unspoilt
  <2> HIDE DEF F
  <2>4. CASE sync' = [sync EXCEPT ![n].pc = "sweep", ![n].files = F]
    <3>1. sync' = [sync EXCEPT ![n] = s]
      BY <2>4 DEF TypeOK
    <3>2. /\ s \in SyncType /\ s.gone = sync[n].gone /\ s.left = sync[n].left
          /\ s.pc = "sweep" /\ s.todo = sync[n].todo /\ s.cur = sync[n].cur /\ s.files = F
          /\ s.listed = sync[n].listed /\ s.failed = sync[n].failed
      BY <1>0, <2>2 DEF SyncType
    <3> HIDE DEF s
    <3>3. Goes(n, "sweep", sync[n].todo, sync[n].cur, F, sync[n].listed, sync[n].failed)
      BY <2>1, <2>3, <3>1, <3>2, Goes1
    <3> QED
      BY <2>1, <3>3 DEF F
  <2>5. CASE sync' = [sync EXCEPT ![n].pc = "sweep", ![n].left = Voices]
    <3>1. sync' = [sync EXCEPT ![n] = f]
      BY <2>5 DEF TypeOK
    <3>2. /\ f \in SyncType /\ f.gone = sync[n].gone /\ f.left = Voices
          /\ f.pc = "sweep" /\ f.todo = sync[n].todo /\ f.cur = sync[n].cur
          /\ f.files = sync[n].files /\ f.listed = sync[n].listed /\ f.failed = sync[n].failed
          /\ sync[n].left \subseteq Voices
      BY <1>0 DEF SyncType
    <3> HIDE DEF f
    <3>3. Goes(n, "sweep", sync[n].todo, sync[n].cur, sync[n].files, sync[n].listed, sync[n].failed)
      BY <2>1, <2>3, <3>1, <3>2, Goes1
    <3>4. sync'[n].left = Voices
      BY <3>1, <3>2 DEF TypeOK
    <3> QED
      BY <2>1, <3>3, <3>4
  <2> QED
    BY <2>1, <2>4, <2>5
<1>3. ASSUME SyncDone(n)
      PROVE  /\ At(n, "sweep") /\ sync[n].files = {} /\ UNCHANGED <<rows, disk, spoilt>>
             /\ Goes(n, "done", sync[n].todo, sync[n].cur, sync[n].files, sync[n].listed,
                     sync[n].failed)
  <2> DEFINE s == [sync[n] EXCEPT !.pc = "done"]
  <2>1. /\ sync' = [sync EXCEPT ![n].pc = "done"]
        /\ At(n, "sweep") /\ sync[n].files = {}
        /\ UNCHANGED <<rows, disk, op, boots, asked, spoilt>>
    BY <1>3 DEF SyncDone, history
  <2>3. sync' = [sync EXCEPT ![n] = s]
    BY <2>1 DEF TypeOK
  <2>4. /\ s \in SyncType /\ s.gone = sync[n].gone /\ s.left = sync[n].left
        /\ s.pc = "done" /\ s.todo = sync[n].todo /\ s.cur = sync[n].cur /\ s.files = sync[n].files
        /\ s.listed = sync[n].listed /\ s.failed = sync[n].failed
    BY <1>0 DEF SyncType
  <2> HIDE DEF s
  <2> QED
    BY <2>1, <2>3, <2>4, Goes1, Unspoilt
<1> QED
  BY <1>1, <1>3

LEMMA RemoveSteps ==
    ASSUME TypeOK, NEW n \in Nodes, RemoveOrphan(n), NEW v \in Voices, v = sync[n].cur.voice
    PROVE  /\ At(n, "unlink") /\ UNCHANGED <<rows, spoilt>>
           /\ Goes(n, "sweep", sync[n].todo, NoVoice, sync[n].files, sync[n].listed, sync[n].failed)
           /\ disk' = [disk EXCEPT ![n][v] = None] \/ (disk' = disk /\ v \in sync'[n].left)
<1>0. sync[n] \in SyncType /\ NoVoice \in [voice : Voices \cup {None}, blob : Sizes, file : Sizes]
  BY DEF TypeOK, NoVoice, Sizes
<1>1. PICK ok \in BOOLEAN :
        /\ Remove(n, v, ok)
        /\ sync' = [sync EXCEPT ![n].pc = "sweep", ![n].cur = NoVoice,
                                ![n].left = IF ok THEN @ ELSE @ \cup {v}]
  BY DEF RemoveOrphan, MayFail
<1>2. At(n, "unlink") /\ UNCHANGED <<rows, op, boots, asked, spoilt>>
  BY DEF RemoveOrphan, history
<1> DEFINE left == IF ok THEN sync[n].left ELSE sync[n].left \cup {v}
           s == [[[sync[n] EXCEPT !.pc = "sweep"] EXCEPT !.cur = NoVoice] EXCEPT !.left = left]
<1>3. sync[n].left \subseteq left /\ (ok = FALSE => v \in left)
  OBVIOUS
<1>4. left \in SUBSET Voices
  BY <1>0 DEF SyncType
<1>5. sync' = [sync EXCEPT ![n].pc = "sweep", ![n].cur = NoVoice, ![n].left = left]
  BY <1>1
<1> HIDE DEF left
<1>6. sync' = [sync EXCEPT ![n] = s]
  BY <1>5 DEF TypeOK
<1>7. /\ s \in SyncType /\ s.gone = sync[n].gone /\ s.left = left
      /\ s.pc = "sweep" /\ s.todo = sync[n].todo /\ s.cur = NoVoice /\ s.files = sync[n].files
      /\ s.listed = sync[n].listed /\ s.failed = sync[n].failed
  BY <1>0, <1>4 DEF SyncType
<1> HIDE DEF s
<1>8. Goes(n, "sweep", sync[n].todo, NoVoice, sync[n].files, sync[n].listed, sync[n].failed)
  BY <1>2, <1>3, <1>6, <1>7, Goes1, Unspoilt
<1>9. sync'[n].left = left
  BY <1>6, <1>7 DEF TypeOK
<1>10. CASE ok = TRUE
  BY <1>1, <1>2, <1>8, <1>10 DEF Remove
<1>11. CASE ok = FALSE
  <2>1. disk' = [disk EXCEPT ![n][v] = disk[n][v]]
    BY <1>1, <1>11 DEF Remove, TypeOK
  <2>2. disk' = disk
    BY <2>1 DEF TypeOK
  <2> QED
    BY <1>2, <1>3, <1>8, <1>9, <1>11, <2>2
<1> QED
  BY <1>10, <1>11

\* The voice counted: it is kept only when it is active.
LEMMA CountSteps ==
    ASSUME TypeOK, NEW n \in Nodes, CountRows(n)
    PROVE  /\ At(n, "sweep") /\ UNCHANGED <<rows, disk, spoilt>>
           /\ \E v \in sync[n].files, c \in [voice : Voices \cup {None}, blob : Sizes, file : Sizes] :
                 \/ /\ Active(v)
                    /\ Goes(n, "sweep", sync[n].todo, c, sync[n].files \ {v}, sync[n].listed,
                            sync[n].failed)
                 \/ /\ "count" \notin Faults => ~Active(v)
                    /\ c.voice = v
                    /\ Goes(n, "unlink", sync[n].todo, c, sync[n].files \ {v}, sync[n].listed,
                            sync[n].failed)
<1>0. sync[n] \in SyncType
  BY DEF TypeOK
<1>1. PICK v \in sync[n].files, ok \in MayFail("count") :
        sync' = [sync EXCEPT ![n].files = @ \ {v},
                    ![n].cur.voice = IF ok /\ Active(v) THEN None ELSE v,
                    ![n].pc = IF ok /\ Active(v) THEN "sweep" ELSE "unlink"]
  BY DEF CountRows
<1>2. At(n, "sweep") /\ UNCHANGED <<rows, disk, op, boots, asked, spoilt>>
  BY DEF CountRows, history
<1> DEFINE keep == ok /\ Active(v)
           w == IF keep THEN None ELSE v
           pc == IF keep THEN "sweep" ELSE "unlink"
           F == sync[n].files \ {v}
           c == [sync[n].cur EXCEPT !.voice = w]
           s == [[[sync[n] EXCEPT !.files = F] EXCEPT !.cur = c] EXCEPT !.pc = pc]
<1>3. /\ v \in Voices /\ w \in Voices \cup {None} /\ pc \in {"sweep", "unlink"}
      /\ F \in SUBSET Voices
  BY <1>0 DEF SyncType
<1>4. c \in [voice : Voices \cup {None}, blob : Sizes, file : Sizes] /\ c.voice = w
  BY <1>0, <1>3 DEF SyncType
<1>5. /\ keep => w = None /\ pc = "sweep" /\ Active(v)
      /\ ~keep => w = v /\ pc = "unlink" /\ ("count" \notin Faults => ~Active(v))
  <2>1. "count" \notin Faults => ok = TRUE
    BY <1>1 DEF MayFail
  <2>2. CASE keep
    BY <2>2
  <2>3. CASE ~keep
    BY <2>1, <2>3
  <2> QED
    BY <2>2, <2>3
<1>6. sync' = [sync EXCEPT ![n].files = F, ![n].cur.voice = w, ![n].pc = pc]
  BY <1>1
<1> HIDE DEF keep, w, pc, F
<1>7. sync' = [sync EXCEPT ![n] = s]
  <2>1. sync' = [sync EXCEPT ![n].files = F, ![n].cur = c, ![n].pc = pc]
    BY <1>6 DEF TypeOK, SyncType
  <2> HIDE DEF c
  <2> QED
    BY <2>1 DEF TypeOK
<1> HIDE DEF c
<1>8. /\ s \in SyncType /\ s.gone = sync[n].gone /\ s.left = sync[n].left
      /\ s.pc = pc /\ s.todo = sync[n].todo /\ s.cur = c /\ s.files = F
      /\ s.listed = sync[n].listed /\ s.failed = sync[n].failed
  BY <1>0, <1>3, <1>4 DEF SyncType
<1> HIDE DEF s
<1>9. Goes(n, pc, sync[n].todo, c, F, sync[n].listed, sync[n].failed)
  BY <1>2, <1>7, <1>8, Goes1, Unspoilt
<1> QED
  BY <1>1, <1>2, <1>4, <1>5, <1>9 DEF F

\* Request r gets to pc, and nothing else moves but rows, files and what was asked for.
Moves(r, pc, node, voice, name, blob) ==
    /\ op' \in [Requests -> OpType]
    /\ \A p \in Requests : p # r => op'[p] = op[p]
    /\ op'[r].pc = pc /\ op'[r].node = node /\ op'[r].voice = voice /\ op'[r].name = name
    /\ op'[r].blob = blob
    /\ UNCHANGED <<sync, boots, spoilt>>

LEMMA Moves1 ==
    ASSUME TypeOK, NEW r \in Requests, NEW o \in OpType, op' = [op EXCEPT ![r] = o],
           UNCHANGED <<sync, boots, spoilt>>
    PROVE  Moves(r, o.pc, o.node, o.voice, o.name, o.blob)
BY DEF Moves, TypeOK

LEMMA OverSteps ==
    ASSUME TypeOK, NEW r \in Requests, op' = [op EXCEPT ![r] = Over],
           UNCHANGED <<sync, boots, spoilt>>
    PROVE  Moves(r, "over", None, None, None, None)
<1>1. /\ Over \in OpType /\ Over.pc = "over" /\ Over.node = None /\ Over.voice = None
      /\ Over.name = None /\ Over.blob = None
  BY DEF Over, New, OpType, Sizes
<1> QED
  BY <1>1, Moves1

LEMMA CloneSteps ==
    ASSUME TypeOK, NEW r \in Requests, NEW n \in Nodes, NEW name \in Names, Clone(r, n, name)
    PROVE  /\ op[r].pc = "new" /\ UNCHANGED <<rows, disk, asked>>
           /\ Moves(r, "extracting", n, None, name, None)
<1> DEFINE o == [New EXCEPT !.pc = "extracting", !.node = n, !.name = name]
<1>1. /\ op' = [op EXCEPT ![r] = o] /\ op[r].pc = "new"
      /\ UNCHANGED <<rows, disk, sync, boots, asked, spoilt>>
  BY DEF Clone, history
<1>2. /\ o \in OpType /\ o.pc = "extracting" /\ o.node = n /\ o.voice = None /\ o.name = name
      /\ o.blob = None
  BY DEF New, OpType, Sizes
<1> HIDE DEF o
<1> QED
  BY <1>1, <1>2, Moves1

LEMMA CloneVoiceSteps ==
    ASSUME TypeOK, NEW r \in Requests, CloneVoice(r)
    PROVE  /\ op[r].pc = "extracting" /\ UNCHANGED <<rows, asked>>
           /\ \/ /\ disk' = disk
                 /\ Moves(r, "over", None, None, None, None)
              \/ \E v \in Voices :
                    /\ Fresh(v)
                    /\ \/ /\ disk' = [disk EXCEPT ![op[r].node][v] = "fits"]
                          /\ Moves(r, "written", op[r].node, v, op[r].name, op[r].blob)
                       \/ /\ disk' = [disk EXCEPT ![op[r].node][v] = "cut"]
                          /\ Moves(r, "over", None, None, None, None)
<1>1. op[r].pc = "extracting" /\ UNCHANGED <<rows, sync, boots, asked, spoilt>>
  BY DEF CloneVoice, history
<1>2. CASE op' = [op EXCEPT ![r] = Over] /\ disk' = disk
  BY <1>1, <1>2, OverSteps
<1>3. ASSUME NEW v \in Voices, Fresh(v), NEW ok \in BOOLEAN,
             op' = [op EXCEPT ![r] = IF ok THEN [@ EXCEPT !.pc = "written", !.voice = v] ELSE Over],
             disk' = [disk EXCEPT ![op[r].node][v] = IF ok THEN "fits" ELSE "cut"]
      PROVE  \/ /\ disk' = [disk EXCEPT ![op[r].node][v] = "fits"]
                /\ Moves(r, "written", op[r].node, v, op[r].name, op[r].blob)
             \/ /\ disk' = [disk EXCEPT ![op[r].node][v] = "cut"]
                /\ Moves(r, "over", None, None, None, None)
  <2> DEFINE o == [[op[r] EXCEPT !.pc = "written"] EXCEPT !.voice = v]
  <2>1. op[r] \in OpType
    BY DEF TypeOK
  <2>2. /\ o \in OpType /\ o.pc = "written" /\ o.node = op[r].node /\ o.voice = v
        /\ o.name = op[r].name /\ o.blob = op[r].blob
    BY <2>1 DEF OpType
  <2>3. CASE ok = TRUE
    <3>1. op' = [op EXCEPT ![r] = o]
      BY <1>3, <2>3 DEF TypeOK
    <3> HIDE DEF o
    <3>2. Moves(r, "written", op[r].node, v, op[r].name, op[r].blob)
      BY <1>1, <2>2, <3>1, Moves1
    <3> QED
      BY <1>3, <2>3, <3>2
  <2>4. CASE ok = FALSE
    <3>1. op' = [op EXCEPT ![r] = Over] /\ disk' = [disk EXCEPT ![op[r].node][v] = "cut"]
      BY <1>3, <2>4
    <3> QED
      BY <1>1, <3>1, OverSteps
  <2> QED
    BY <2>3, <2>4
<1> QED
  BY <1>1, <1>2, <1>3 DEF CloneVoice, MayFail

LEMMA CreateRowSteps ==
    ASSUME TypeOK, NEW r \in Requests, CreateRow(r)
    PROVE  /\ op[r].pc = "written" /\ asked' = asked /\ Moves(r, "over", None, None, None, None)
           /\ \/ /\ ~NameTaken(op[r].name) /\ disk' = disk
                 /\ rows' = [rows EXCEPT ![op[r].voice] =
                               [state |-> "active", name |-> op[r].name, blob |-> "fits"]]
              \/ /\ rows' = rows
                 /\ \E ok \in BOOLEAN : Remove(op[r].node, op[r].voice, ok)
<1>1. /\ op[r].pc = "written" /\ op' = [op EXCEPT ![r] = Over]
      /\ UNCHANGED <<sync, boots, asked, spoilt>>
  BY DEF CreateRow, history
<1>2. Moves(r, "over", None, None, None, None)
  BY <1>1, OverSteps
<1> QED
  BY <1>1, <1>2 DEF CreateRow, MayFail

LEMMA FindSteps ==
    ASSUME TypeOK, NEW r \in Requests, NEW n \in Nodes, NEW v \in Voices, Find(r, n, v)
    PROVE  /\ op[r].pc = "new" /\ Active(v) /\ UNCHANGED <<rows, disk>>
           /\ \/ Moves(r, "found", n, v, None, rows[v].blob) /\ asked' = asked \cup {v}
              \/ Moves(r, "loading", n, v, None, rows[v].blob) /\ asked' = asked
<1>1. op[r].pc = "new" /\ Active(v) /\ UNCHANGED <<rows, disk, sync, boots, spoilt>>
  BY DEF Find
<1>2. PICK pc \in {"found", "loading"} :
        /\ op' = [op EXCEPT ![r] = [New EXCEPT !.pc = pc, !.node = n, !.voice = v,
                                               !.blob = rows[v].blob]]
        /\ asked' = IF pc = "found" THEN asked \cup {v} ELSE asked
  BY DEF Find
<1> DEFINE o == [New EXCEPT !.pc = pc, !.node = n, !.voice = v, !.blob = rows[v].blob]
<1>3. /\ o \in OpType /\ o.pc = pc /\ o.node = n /\ o.voice = v /\ o.name = None
      /\ o.blob = rows[v].blob
  <2>1. rows[v].blob \in Sizes
    BY DEF TypeOK, Row
  <2> QED
    BY <2>1 DEF New, OpType
<1>4. op' = [op EXCEPT ![r] = o]
  BY <1>2
<1> HIDE DEF o
<1>5. Moves(r, pc, n, v, None, rows[v].blob)
  BY <1>1, <1>3, <1>4, Moves1
<1> QED
  BY <1>1, <1>2, <1>5

LEMMA DeleteSteps ==
    ASSUME TypeOK, NEW r \in Requests
    PROVE  /\ Unlink(r) =>
                /\ op[r].pc = "found" /\ UNCHANGED <<rows, asked>>
                /\ \E ok \in BOOLEAN : Remove(op[r].node, op[r].voice, ok)
                /\ Moves(r, "unlinked", op[r].node, op[r].voice, op[r].name, op[r].blob)
           /\ SoftDelete(r) =>
                /\ op[r].pc = "unlinked" /\ UNCHANGED <<disk, asked>>
                /\ Moves(r, "over", None, None, None, None)
                /\ \/ rows' = rows
                   \/ rows' = [rows EXCEPT ![op[r].voice].state = "deleted"]
<1>1. ASSUME Unlink(r)
      PROVE  /\ op[r].pc = "found" /\ UNCHANGED <<rows, asked>>
             /\ \E ok \in BOOLEAN : Remove(op[r].node, op[r].voice, ok)
             /\ Moves(r, "unlinked", op[r].node, op[r].voice, op[r].name, op[r].blob)
  <2> DEFINE o == [op[r] EXCEPT !.pc = "unlinked"]
  <2>1. /\ op[r] \in OpType /\ op[r].pc = "found"
        /\ UNCHANGED <<rows, sync, boots, asked, spoilt>>
        /\ \E ok \in BOOLEAN : Remove(op[r].node, op[r].voice, ok)
    BY <1>1 DEF TypeOK, Unlink, MayFail, history
  <2>2. op' = [op EXCEPT ![r] = o]
    BY <1>1 DEF TypeOK, Unlink
  <2>3. /\ o \in OpType /\ o.pc = "unlinked" /\ o.node = op[r].node /\ o.voice = op[r].voice
        /\ o.name = op[r].name /\ o.blob = op[r].blob
    BY <2>1 DEF OpType
  <2> HIDE DEF o
  <2> QED
    BY <2>1, <2>2, <2>3, Moves1
<1>2. ASSUME SoftDelete(r)
      PROVE  /\ op[r].pc = "unlinked" /\ UNCHANGED <<disk, asked>>
             /\ Moves(r, "over", None, None, None, None)
             /\ \/ rows' = rows
                \/ rows' = [rows EXCEPT ![op[r].voice].state = "deleted"]
  <2>1. /\ op[r].pc = "unlinked" /\ op' = [op EXCEPT ![r] = Over]
        /\ UNCHANGED <<disk, sync, boots, asked, spoilt>>
    BY <1>2 DEF SoftDelete, history
  <2>2. Moves(r, "over", None, None, None, None)
    BY <2>1, OverSteps
  <2>3. PICK ok \in BOOLEAN : rows' = [rows EXCEPT ![op[r].voice].state = IF ok THEN "deleted" ELSE @]
    BY <1>2 DEF SoftDelete, MayFail
  <2>4. CASE ok = TRUE
    BY <2>3, <2>4, <2>1, <2>2
  <2>5. CASE ok = FALSE
    <3>1. rows' = rows
      BY <2>3, <2>5 DEF TypeOK, Row
    <3> QED
      BY <3>1, <2>1, <2>2
  <2> QED
    BY <2>4, <2>5
<1> QED
  BY <1>1, <1>2

LEMMA LoadSteps ==
    ASSUME TypeOK, NEW r \in Requests
    PROVE  /\ ReadFile(r) =>
                /\ op[r].pc = "loading" /\ UNCHANGED <<rows, disk, asked>>
                /\ \/ Moves(r, "over", None, None, None, None)
                   \/ /\ disk[op[r].node][op[r].voice] = None /\ op[r].blob # None
                      /\ Moves(r, "missed", op[r].node, op[r].voice, op[r].name, op[r].blob)
           /\ WriteThrough(r) =>
                /\ op[r].pc = "missed" /\ UNCHANGED <<rows, asked>>
                /\ \/ /\ Truncate(op[r].node, op[r].voice)
                      /\ Moves(r, "storing", op[r].node, op[r].voice, op[r].name, op[r].blob)
                   \/ /\ disk' = disk
                      /\ Moves(r, "over", None, None, None, None)
           /\ Store(r) =>
                /\ op[r].pc = "storing" /\ UNCHANGED <<rows, asked>>
                /\ Write(op[r].node, op[r].voice, op[r].blob) \/ disk' = disk
                /\ Moves(r, "over", None, None, None, None)
<1>1. ASSUME ReadFile(r)
      PROVE  /\ op[r].pc = "loading" /\ UNCHANGED <<rows, disk, asked>>
             /\ \/ Moves(r, "over", None, None, None, None)
                \/ /\ disk[op[r].node][op[r].voice] = None /\ op[r].blob # None
                   /\ Moves(r, "missed", op[r].node, op[r].voice, op[r].name, op[r].blob)
  <2> DEFINE o == [op[r] EXCEPT !.pc = "missed"]
  <2>1. /\ op[r] \in OpType /\ op[r].pc = "loading"
        /\ UNCHANGED <<rows, disk, sync, boots, asked, spoilt>>
    BY <1>1 DEF TypeOK, ReadFile, history
  <2>2. /\ o \in OpType /\ o.pc = "missed" /\ o.node = op[r].node /\ o.voice = op[r].voice
        /\ o.name = op[r].name /\ o.blob = op[r].blob
    BY <2>1 DEF OpType
  <2> HIDE DEF o
  <2>3. CASE disk[op[r].node][op[r].voice] # None \/ op[r].blob = None
    <3>1. op' = [op EXCEPT ![r] = Over]
      BY <1>1, <2>3 DEF ReadFile
    <3> QED
      BY <2>1, <3>1, OverSteps
  <2>4. CASE ~(disk[op[r].node][op[r].voice] # None \/ op[r].blob = None)
    <3>1. op' = [op EXCEPT ![r] = o]
      BY <1>1, <2>4 DEF ReadFile, o
    <3> QED
      BY <2>1, <2>2, <2>4, <3>1, Moves1
  <2> QED
    BY <2>3, <2>4
<1>2. ASSUME WriteThrough(r)
      PROVE  /\ op[r].pc = "missed" /\ UNCHANGED <<rows, asked>>
             /\ \/ /\ Truncate(op[r].node, op[r].voice)
                   /\ Moves(r, "storing", op[r].node, op[r].voice, op[r].name, op[r].blob)
                \/ /\ disk' = disk
                   /\ Moves(r, "over", None, None, None, None)
  <2> DEFINE o == [op[r] EXCEPT !.pc = "storing"]
  <2>1. /\ op[r] \in OpType /\ op[r].pc = "missed"
        /\ UNCHANGED <<rows, sync, boots, asked, spoilt>>
    BY <1>2 DEF TypeOK, WriteThrough, history
  <2>2. /\ o \in OpType /\ o.pc = "storing" /\ o.node = op[r].node /\ o.voice = op[r].voice
        /\ o.name = op[r].name /\ o.blob = op[r].blob
    BY <2>1 DEF OpType
  <2>3. CASE Truncate(op[r].node, op[r].voice) /\ op' = [op EXCEPT ![r].pc = "storing"]
    <3>1. op' = [op EXCEPT ![r] = o]
      BY <2>3 DEF TypeOK
    <3> HIDE DEF o
    <3> QED
      BY <2>1, <2>2, <2>3, <3>1, Moves1
  <2>4. CASE disk' = disk /\ op' = [op EXCEPT ![r] = Over]
    BY <2>1, <2>4, OverSteps
  <2> QED
    BY <1>2, <2>3, <2>4 DEF WriteThrough
<1>3. ASSUME Store(r)
      PROVE  /\ op[r].pc = "storing" /\ UNCHANGED <<rows, asked>>
             /\ Write(op[r].node, op[r].voice, op[r].blob) \/ disk' = disk
             /\ Moves(r, "over", None, None, None, None)
  <2>1. /\ op' = [op EXCEPT ![r] = Over] /\ op[r].pc = "storing"
        /\ UNCHANGED <<rows, sync, boots, asked, spoilt>>
        /\ Write(op[r].node, op[r].voice, op[r].blob) \/ disk' = disk
    BY <1>3 DEF Store, history
  <2> QED
    BY <2>1, OverSteps
<1> QED
  BY <1>1, <1>2, <1>3

-----------------------------------------------------------------------------
(* What steps do to rows and files                                           *)

\* What no step undoes of a row.
Kept ==
    /\ rows' \in [Voices -> Row]
    /\ \A v \in Voices \ {Legacy} :
          rows'[v].blob = IF rows'[v].state = "absent" THEN None ELSE "fits"
    /\ \A v \in Voices : rows[v].state # "absent" =>
          /\ rows'[v].state # "absent" /\ rows'[v].name = rows[v].name
          /\ rows'[v].state = "active" => rows[v].state = "active"
    /\ rows[Legacy].blob # None => rows'[Legacy].blob # None \/ Legacy \in spoilt'
    /\ rows[Legacy].blob # "over" => rows'[Legacy].blob # "over"
    /\ rows'[Legacy].blob = "cut" => rows[Legacy].blob = "cut" \/ Legacy \in spoilt'
    /\ Grows

\* The pass changes no more than a blob.
StatesKept ==
    /\ Kept
    /\ \A v \in Voices : rows'[v].state = rows[v].state /\ rows'[v].name = rows[v].name

LEMMA SameRows ==
    ASSUME VoiceAssumption, TypeOK, rows' = rows, Grows
    PROVE  StatesKept
BY DEF StatesKept, Kept, TypeOK

LEMMA Mending ==
    ASSUME VoiceAssumption, TypeOK, LegacyInv, NEW v \in Voices, NEW size \in Sizes,
           size # "over", v # Legacy => size = "fits", size # "fits" => v \in spoilt',
           Grows, rows' = SetBlob(v, size)
    PROVE  /\ StatesKept
           /\ rows'[v].blob = IF Active(v) THEN size ELSE rows[v].blob
<1> DEFINE b == IF Active(v) THEN size ELSE rows[v].blob
           row == [rows[v] EXCEPT !.blob = b]
<1>1. rows[v] \in Row
  BY DEF TypeOK
<1>2. b \in Sizes
  BY <1>1 DEF Row
<1>3. rows' = [rows EXCEPT ![v].blob = b]
  BY DEF SetBlob
<1>4. b = IF rows[v].state = "active" THEN size ELSE rows[v].blob
  BY DEF Active
<1> HIDE DEF b
<1>5. /\ row \in Row /\ row.state = rows[v].state /\ row.name = rows[v].name /\ row.blob = b
  BY <1>1, <1>2 DEF Row
<1>6. rows' = [rows EXCEPT ![v] = row]
  BY <1>3 DEF TypeOK
<1> HIDE DEF row
<1>7. rows' \in [Voices -> Row] /\ rows'[v] = row /\ \A w \in Voices : w # v => rows'[w] = rows[w]
  BY <1>5, <1>6 DEF TypeOK
<1>8. \A w \in Voices : rows'[w].state = rows[w].state /\ rows'[w].name = rows[w].name
  BY <1>5, <1>7
<1>9. \A w \in Voices \ {Legacy} :
         rows'[w].blob = IF rows'[w].state = "absent" THEN None ELSE "fits"
  BY <1>4, <1>5, <1>7, NoneIsOther DEF TypeOK
<1>10. /\ rows[Legacy].blob # None => rows'[Legacy].blob # None \/ Legacy \in spoilt'
       /\ rows[Legacy].blob # "over" => rows'[Legacy].blob # "over"
       /\ rows'[Legacy].blob = "cut" => rows[Legacy].blob = "cut" \/ Legacy \in spoilt'
  BY <1>4, <1>5, <1>7, NoneIsOther
<1> QED
  BY <1>4, <1>5, <1>7, <1>8, <1>9, <1>10 DEF StatesKept, Kept, Active

LEMMA Making ==
    ASSUME VoiceAssumption, TypeOK, LegacyInv, NEW v \in Voices, NEW name \in Names,
           rows[v].state = "absent", Grows,
           rows' = [rows EXCEPT ![v] = [state |-> "active", name |-> name, blob |-> "fits"]]
    PROVE  /\ Kept
           /\ rows'[v].state = "active" /\ rows'[v].name = name
           /\ \A w \in Voices : w # v => rows'[w] = rows[w]
<1> DEFINE row == [state |-> "active", name |-> name, blob |-> "fits"]
<1>1. row \in Row /\ row.state = "active" /\ row.name = name /\ row.blob = "fits"
  BY DEF Row, Sizes, Whole
<1>2. rows' = [rows EXCEPT ![v] = row]
  OBVIOUS
<1> HIDE DEF row
<1>3. rows' \in [Voices -> Row] /\ rows'[v] = row /\ \A w \in Voices : w # v => rows'[w] = rows[w]
  BY <1>1, <1>2 DEF TypeOK
<1>4. v # Legacy
  BY DEF LegacyInv
<1>5. \A w \in Voices \ {Legacy} :
         rows'[w].blob = IF rows'[w].state = "absent" THEN None ELSE "fits"
  BY <1>1, <1>3 DEF TypeOK
<1>6. rows'[Legacy] = rows[Legacy]
  BY <1>3, <1>4, NoneIsOther
<1> QED
  BY <1>1, <1>3, <1>5, <1>6 DEF Kept

LEMMA Hiding ==
    ASSUME VoiceAssumption, TypeOK, NEW v \in Voices, rows[v].state # "absent", Grows,
           rows' = [rows EXCEPT ![v].state = "deleted"]
    PROVE  /\ Kept
           /\ \A w \in Voices : rows'[w].name = rows[w].name
           /\ \A w \in Voices : w # v => rows'[w] = rows[w]
<1> DEFINE row == [rows[v] EXCEPT !.state = "deleted"]
<1>1. rows[v] \in Row
  BY DEF TypeOK
<1>2. /\ row \in Row /\ row.state = "deleted" /\ row.name = rows[v].name
      /\ row.blob = rows[v].blob
  BY <1>1 DEF Row
<1>3. rows' = [rows EXCEPT ![v] = row]
  BY DEF TypeOK
<1> HIDE DEF row
<1>0. rows \in [Voices -> Row]
  BY DEF TypeOK
<1>4. rows' \in [Voices -> Row] /\ rows'[v] = row /\ \A w \in Voices : w # v => rows'[w] = rows[w]
  BY <1>0, <1>2, <1>3
<1>5. \A w \in Voices \ {Legacy} :
         rows'[w].blob = IF rows'[w].state = "absent" THEN None ELSE "fits"
  BY <1>2, <1>4 DEF TypeOK
<1>6. rows'[Legacy].blob = rows[Legacy].blob
  BY <1>2, <1>4, NoneIsOther
<1> QED
  BY <1>2, <1>4, <1>5, <1>6 DEF Kept

LEMMA Files ==
    ASSUME TypeOK, NEW n \in Nodes, NEW v \in Voices, NEW size \in Sizes,
           disk' = [disk EXCEPT ![n][v] = size]
    PROVE  /\ disk' \in [Nodes -> [Voices -> Sizes]]
           /\ disk'[n][v] = size
           /\ \A m \in Nodes, w \in Voices : m # n \/ w # v => disk'[m][w] = disk[m][w]
<1> DEFINE f == [disk[n] EXCEPT ![v] = size]
<1>1. f \in [Voices -> Sizes] /\ f[v] = size /\ \A w \in Voices : w # v => f[w] = disk[n][w]
  BY DEF TypeOK
<1>2. disk' = [disk EXCEPT ![n] = f]
  BY DEF TypeOK
<1> HIDE DEF f
<1> QED
  BY <1>1, <1>2 DEF TypeOK

\* A file that is written to is there if it was, and has what it had or what is written.
LEMMA Writes ==
    ASSUME TypeOK, NEW n \in Nodes, NEW v \in Voices, NEW size \in Sizes, Write(n, v, size)
    PROVE  /\ disk' \in [Nodes -> [Voices -> Sizes]]
           /\ disk'[n][v] = IF disk[n][v] \in {None, "over"} THEN disk[n][v] ELSE size
           /\ \A m \in Nodes, w \in Voices : m # n \/ w # v => disk'[m][w] = disk[m][w]
<1> DEFINE b == IF disk[n][v] \in {None, "over"} THEN disk[n][v] ELSE size
<1>1. b \in Sizes /\ disk' = [disk EXCEPT ![n][v] = b]
  BY DEF TypeOK, Write
<1> HIDE DEF b
<1>2. /\ disk' \in [Nodes -> [Voices -> Sizes]] /\ disk'[n][v] = b
      /\ \A m \in Nodes, w \in Voices : m # n \/ w # v => disk'[m][w] = disk[m][w]
  BY <1>1, Files
<1> QED
  BY <1>2 DEF b

LEMMA Truncates ==
    ASSUME TypeOK, NEW n \in Nodes, NEW v \in Voices, Truncate(n, v)
    PROVE  /\ disk' \in [Nodes -> [Voices -> Sizes]] /\ disk'[n][v] = "cut"
           /\ \A m \in Nodes, w \in Voices : m # n \/ w # v => disk'[m][w] = disk[m][w]
<1>1. "cut" \in Sizes /\ disk' = [disk EXCEPT ![n][v] = "cut"]
  BY DEF Truncate, Sizes
<1> QED
  BY <1>1, Files

LEMMA Removes ==
    ASSUME TypeOK, NEW n \in Nodes, NEW v \in Voices, NEW ok \in BOOLEAN, Remove(n, v, ok)
    PROVE  /\ disk' \in [Nodes -> [Voices -> Sizes]]
           /\ disk'[n][v] = None \/ disk'[n][v] = disk[n][v]
           /\ \A m \in Nodes, w \in Voices : m # n \/ w # v => disk'[m][w] = disk[m][w]
<1> DEFINE b == IF ok THEN None ELSE disk[n][v]
<1>1. b \in Sizes /\ disk' = [disk EXCEPT ![n][v] = b] /\ (b = None \/ b = disk[n][v])
  BY DEF TypeOK, Remove, Sizes
<1> HIDE DEF b
<1> QED
  BY <1>1, Files

-----------------------------------------------------------------------------
(* A step of a pass                                                         *)

\* The pass of node n moves: rows lose no state, and files change on n alone.
PassMoves(n) ==
    /\ sync' \in [Nodes -> SyncType]
    /\ \A m \in Nodes : m # n => sync'[m] = sync[m]
    /\ UNCHANGED <<op, boots, asked>>
    /\ StatesKept
    /\ disk' \in [Nodes -> [Voices -> Sizes]]
    /\ \A m \in Nodes, w \in Voices : m # n => disk'[m][w] = disk[m][w]

LEMMA PassFrame ==
    ASSUME VoiceAssumption, IInv, NEW n \in Nodes, PassMoves(n)
    PROVE  /\ TypeOK' /\ OpInv' /\ NewIdInv' /\ NameInv' /\ LegacyInv'
           /\ \A m \in Nodes : m # n => PassAt(m)' /\ RepairAt(m)' /\ SweepAt(m)'
<1>1. TypeOK'
  BY DEF IInv, TypeOK, PassMoves, StatesKept, Kept, Grows
<1>2. \A v \in Voices : rows'[v].state = rows[v].state /\ rows'[v].name = rows[v].name
  BY DEF PassMoves, StatesKept
<1>7. (Stored => Stored') /\ spoilt \subseteq spoilt'
  BY DEF PassMoves, StatesKept, Kept, Stored, Grows
<1>3. OpInv'
  BY <1>2, <1>7 DEF IInv, OpInv, OpAt, PassMoves, Busy, Loading
<1>4. NewIdInv'
  <2>1. \A r \in Requests : op[r].pc = "written" => op[r].voice \in Voices
    BY DEF IInv, OpInv, OpAt, Busy
  <2> QED
    BY <1>2, <2>1 DEF IInv, NewIdInv, PassMoves
<1>5. NameInv' /\ LegacyInv'
  BY <1>2, <1>7, NoneIsOther DEF IInv, NameInv, LegacyInv, PassMoves, StatesKept, Kept
<1>6. ASSUME NEW m \in Nodes, m # n
      PROVE  PassAt(m)' /\ RepairAt(m)' /\ SweepAt(m)'
  <2>1. sync'[m] = sync[m] /\ op' = op /\ \A w \in Voices : disk'[m][w] = disk[m][w]
    BY <1>6 DEF PassMoves
  <2>2. /\ rows[Legacy].blob # None => rows'[Legacy].blob # None \/ Legacy \in spoilt'
        /\ rows[Legacy].blob # "over" => rows'[Legacy].blob # "over"
        /\ Active(Legacy)' = Active(Legacy)
    BY <1>2, NoneIsOther DEF PassMoves, StatesKept, Kept, Active
  <2>3. PassAt(m) /\ RepairAt(m) /\ SweepAt(m)
    BY DEF IInv, PassInv, RepairInv, SweepInv
  <2>4. \A e : Known(e) => Known(e)'
    BY <1>7, <2>2 DEF Known
  <2>5. PassAt(m)'
    BY <2>1, <2>3, <2>4 DEF PassAt, InHand, At, Oversize
  <2>6. RepairAt(m)'
    <3>1. Legacy \notin spoilt' /\ Settled(m) => Settled(m)'
      BY <2>1, <2>2, NoneIsOther DEF Settled
    <3> QED
      BY <1>7, <2>1, <2>3, <3>1, NoneIsOther DEF RepairAt, InHand, At
  <2>7. SweepAt(m)'
    <3>1. sync[m].gone \subseteq Voices
      BY DEF IInv, TypeOK, SyncType
    <3> QED
      BY <1>2, <2>1, <2>3, <3>1 DEF SweepAt, InHand, At
  <2> QED
    BY <2>5, <2>6, <2>7
<1> QED
  BY <1>1, <1>3, <1>4, <1>5, <1>6

\* The pass of n leaves the legacy voice's embedding somewhere.
PassSound(n) ==
    /\ At(n, "unlink")' /\ sync'[n].cur.voice = Legacy => ~Active(Legacy)
    /\ Active(Legacy) /\ disk[n][Legacy] # None => disk'[n][Legacy] # None
    /\ Cutting(n)' => Cutting(n) \/ disk'[n][Legacy] # None
    /\ Active(Legacy) /\ Legacy \notin asked \cup spoilt' =>
         \/ rows'[Legacy].blob # None \/ Cutting(n)' \/ disk'[n][Legacy] \in Whole
         \/ disk'[n][Legacy] = disk[n][Legacy] /\ ~Cutting(n)

\* A step that leaves the files alone does, but for the truncation and the sweep.
LEMMA QuietSound ==
    ASSUME NEW n \in Nodes, disk' = disk, sync[n].pc # "truncate",
           sync'[n].pc \notin {"truncate", "unlink"}
    PROVE  PassSound(n)
BY DEF PassSound, Cutting, At

\* What is left to show of a step of the pass of n.
LEMMA PassStep ==
    ASSUME VoiceAssumption, IInv, NEW n \in Nodes, PassMoves(n),
           PassAt(n)', RepairAt(n)', SweepAt(n)', "count" \notin Faults => PassSound(n)
    PROVE  IInv'
<1>1. /\ TypeOK' /\ OpInv' /\ NewIdInv' /\ NameInv' /\ LegacyInv'
      /\ \A m \in Nodes : m # n => PassAt(m)' /\ RepairAt(m)' /\ SweepAt(m)'
  BY PassFrame
<1>2. PassInv' /\ RepairInv' /\ SweepInv'
  BY <1>1 DEF PassInv, RepairInv, SweepInv
<1>3. ASSUME "count" \notin Faults
      PROVE  KeepInv'
  <2>1. KeepInv /\ PassSound(n)
    BY <1>3 DEF IInv
  <2>2. /\ rows[Legacy].blob # None => rows'[Legacy].blob # None \/ Legacy \in spoilt'
        /\ Active(Legacy)' = Active(Legacy) /\ asked' = asked /\ spoilt \subseteq spoilt'
    BY NoneIsOther DEF PassMoves, StatesKept, Kept, Active, Grows
  <2>3. \A m \in Nodes : m # n => sync'[m] = sync[m] /\ disk'[m][Legacy] = disk[m][Legacy]
    BY NoneIsOther DEF PassMoves
  <2>4. \A m \in Nodes : At(m, "unlink")' /\ sync'[m].cur.voice = Legacy => ~Active(Legacy)'
    <3> SUFFICES ASSUME NEW m \in Nodes, At(m, "unlink")', sync'[m].cur.voice = Legacy
                 PROVE  ~Active(Legacy)
      BY <2>2
    <3>1. CASE m = n
      BY <2>1, <3>1 DEF PassSound
    <3>2. CASE m # n
      BY <2>1, <2>3, <3>2 DEF KeepInv, At
    <3> QED
      BY <3>1, <3>2
  <2>5. ASSUME Active(Legacy), Legacy \notin asked, NEW m \in Nodes, Cutting(m)'
        PROVE  disk'[m][Legacy] # None
    <3>1. CASE m = n
      BY <2>1, <2>5, <3>1 DEF KeepInv, PassSound
    <3>2. CASE m # n
      BY <2>1, <2>3, <2>5, <3>2 DEF KeepInv, Cutting, At
    <3> QED
      BY <3>1, <3>2
  <2>6. ASSUME Active(Legacy), Legacy \notin asked \cup spoilt'
        PROVE  rows'[Legacy].blob # None \/ \E m \in Nodes : disk'[m][Legacy] \in Whole \/ Cutting(m)'
    <3>1. rows[Legacy].blob # None \/ \E m \in Nodes : disk[m][Legacy] \in Whole \/ Cutting(m)
      BY <2>1, <2>2, <2>6 DEF KeepInv
    <3>2. CASE rows[Legacy].blob # None
      BY <2>2, <2>6, <3>2
    <3>3. ASSUME NEW m \in Nodes, disk[m][Legacy] \in Whole \/ Cutting(m)
          PROVE  rows'[Legacy].blob # None \/ \E k \in Nodes : disk'[k][Legacy] \in Whole \/ Cutting(k)'
      <4>1. CASE m = n
        BY <2>1, <2>6, <3>3, <4>1 DEF PassSound
      <4>2. CASE m # n
        BY <2>3, <3>3, <4>2 DEF Cutting, At
      <4> QED
        BY <4>1, <4>2
    <3> QED
      BY <3>1, <3>2, <3>3
  <2> QED
    BY <2>2, <2>4, <2>5, <2>6 DEF KeepInv
<1> QED
  BY <1>1, <1>2, <1>3 DEF IInv

LEMMA StillPass ==
    ASSUME VoiceAssumption, TypeOK, NEW n \in Nodes, UNCHANGED <<rows, disk, op, boots, asked>>,
           Grows, sync' \in [Nodes -> SyncType], \A m \in Nodes : m # n => sync'[m] = sync[m]
    PROVE  PassMoves(n)
<1>1. StatesKept
  BY SameRows
<1> QED
  BY <1>1 DEF PassMoves, TypeOK

LEMMA ListKeeps ==
    ASSUME VoiceAssumption, IInv, NEW n \in Nodes, List(n)
    PROVE  IInv'
<1> DEFINE L == {w \in Voices : Active(w)}
           T == {[voice |-> v, blob |-> rows[v].blob] : v \in L}
<1>0. PassAt(n) /\ SweepAt(n) /\ sync[n].gone \subseteq Voices
  BY DEF IInv, PassInv, SweepInv, TypeOK, SyncType
<1>1. /\ At(n, "boot") /\ UNCHANGED <<rows, disk, spoilt>>
      /\ \/ Goes(n, "voices", T, sync[n].cur, sync[n].files, L, sync[n].failed)
         \/ /\ Goes(n, "done", sync[n].todo, sync[n].cur, sync[n].files, sync[n].listed, TRUE)
            /\ sync'[n].left = Voices
  BY ListSteps DEF IInv
<1>2. CASE Goes(n, "voices", T, sync[n].cur, sync[n].files, L, sync[n].failed)
  <2>2. PassMoves(n)
    BY <1>1, <1>2, StillPass DEF IInv, Goes
  <2>3. \A e \in T : e.voice \in Voices /\ Active(e.voice) /\ e.blob = rows[e.voice].blob
    OBVIOUS
  <2>4. Legacy \in L => \E e \in T : e.voice = Legacy
    <3> SUFFICES ASSUME Legacy \in L
                 PROVE  \E e \in T : e.voice = Legacy
      OBVIOUS
    <3>1. [voice |-> Legacy, blob |-> rows[Legacy].blob] \in T
      OBVIOUS
    <3> QED
      BY <3>1
  <2> HIDE DEF T
  <2>5. /\ sync'[n].pc = "voices" /\ sync'[n].todo = T /\ sync'[n].listed = L
        /\ sync'[n].gone = sync[n].gone /\ rows' = rows /\ op' = op /\ disk' = disk
        /\ spoilt' = spoilt
    BY <1>1, <1>2 DEF Goes
  <2>6. PassAt(n)'
    <3>1. \A e \in T : Known(e)
      BY <2>3 DEF Known, IInv, TypeOK, Active, Stored
    <3> QED
      BY <2>5, <3>1 DEF PassAt, InHand, At, Known, Active, Stored
  <2>7. RepairAt(n)'
    BY <2>4, <2>5 DEF RepairAt, At
  <2>8. SweepAt(n)'
    BY <1>0, <2>3, <2>5 DEF SweepAt, InHand, At, Active
  <2>9. PassSound(n)
    BY <1>1, <2>5, QuietSound DEF At
  <2> QED
    BY <2>2, <2>6, <2>7, <2>8, <2>9, PassStep
<1>3. CASE /\ Goes(n, "done", sync[n].todo, sync[n].cur, sync[n].files, sync[n].listed, TRUE)
           /\ sync'[n].left = Voices
  <2>2. PassMoves(n)
    BY <1>1, <1>3, StillPass DEF IInv, Goes
  <2>3. /\ sync[n].pc = "boot" /\ sync'[n].pc = "done" /\ sync'[n].todo = sync[n].todo
        /\ sync'[n].left = Voices /\ sync'[n].failed = TRUE
        /\ sync'[n].gone = sync[n].gone /\ rows' = rows /\ op' = op /\ disk' = disk
    BY <1>1, <1>3 DEF Goes, At
  <2>4. sync[n].todo = {}
    BY <1>0, <2>3 DEF PassAt
  <2>5. PassAt(n)'
    BY <2>3, <2>4 DEF PassAt, InHand, At
  <2>6. RepairAt(n)'
    BY <2>3 DEF RepairAt, At
  <2>7. SweepAt(n)'
    BY <1>0, <2>3, <2>4 DEF SweepAt, InHand, At
  <2>8. PassSound(n)
    BY <2>3, QuietSound
  <2> QED
    BY <2>2, <2>5, <2>6, <2>7, <2>8, PassStep
<1> QED
  BY <1>1, <1>2, <1>3

LEMMA ReadVoiceKeeps ==
    ASSUME VoiceAssumption, IInv, NEW n \in Nodes, ReadVoice(n)
    PROVE  IInv'
<1>1. At(n, "voices") /\ UNCHANGED <<rows, disk, spoilt>>
  BY ReadVoiceSteps DEF IInv
<1>2. PICK e \in sync[n].todo :
        Goes(n, IF Oversize(e.blob, disk[n][e.voice]) THEN "repair" ELSE "fill", sync[n].todo \ {e},
             [voice |-> e.voice, blob |-> e.blob, file |-> disk[n][e.voice]],
             sync[n].files, sync[n].listed, sync[n].failed)
  BY ReadVoiceSteps DEF IInv
<1> DEFINE c == [voice |-> e.voice, blob |-> e.blob, file |-> disk[n][e.voice]]
           pc == IF Oversize(e.blob, disk[n][e.voice]) THEN "repair" ELSE "fill"
           T == sync[n].todo \ {e}
<1>3. c.voice = e.voice /\ c.blob = e.blob /\ c.file = disk[n][e.voice]
  OBVIOUS
<1>4. /\ pc \in {"repair", "fill"}
      /\ pc = "repair" => Oversize(c.blob, c.file)
      /\ pc = "fill" => ~Oversize(c.blob, c.file)
  BY <1>3
<1>5. e.voice \in Voices
  BY DEF IInv, TypeOK, SyncType
<1>6. PassAt(n) /\ RepairAt(n) /\ SweepAt(n)
  BY DEF IInv, PassInv, RepairInv, SweepInv
<1> HIDE DEF c, pc
<1>7. /\ sync'[n].pc = pc /\ sync'[n].todo = T /\ sync'[n].cur = c
      /\ sync'[n].listed = sync[n].listed /\ sync'[n].failed = sync[n].failed
      /\ sync'[n].gone = sync[n].gone /\ rows' = rows /\ op' = op /\ disk' = disk
      /\ sync[n].left \subseteq sync'[n].left /\ spoilt' = spoilt
  BY <1>1, <1>2 DEF Goes, c, pc
<1>8. PassMoves(n)
  BY <1>1, <1>2, StillPass DEF IInv, Goes
<1>9. PassAt(n)'
  <2>1. Known(e) /\ Known(c)
    BY <1>3, <1>6 DEF PassAt, Known
  <2> QED
    BY <1>3, <1>4, <1>5, <1>6, <1>7, <2>1 DEF PassAt, InHand, At, Known, Active, Oversize, Stored
<1>10. RepairAt(n)'
  <2>1. ASSUME Legacy \in sync[n].listed \ spoilt /\ ~sync[n].failed
        PROVE  \/ \E d \in T : d.voice = Legacy
               \/ c.voice = Legacy
               \/ Settled(n)
    BY <1>1, <1>3, <1>6, <2>1 DEF RepairAt, InHand, At
  <2>2. Settled(n) => Settled(n)'
    BY <1>7 DEF Settled, Active
  <2>3. c.voice = Legacy /\ c.file = None => disk'[n][Legacy] = None
    BY <1>3, <1>7
  <2> QED
    BY <1>4, <1>7, <2>1, <2>2, <2>3 DEF RepairAt, InHand, At
<1>11. SweepAt(n)'
  BY <1>3, <1>4, <1>6, <1>7 DEF SweepAt, InHand, At
<1>12. PassSound(n)
  BY <1>1, <1>4, <1>7, QuietSound DEF At
<1> QED
  BY <1>8, <1>9, <1>10, <1>11, <1>12, PassStep

LEMMA RepairKeeps ==
    ASSUME VoiceAssumption, IInv, NEW n \in Nodes, Repair(n)
    PROVE  IInv'
<1> DEFINE cur == sync[n].cur
<1>1. PassAt(n) /\ RepairAt(n) /\ SweepAt(n) /\ At(n, "repair")
  BY DEF IInv, PassInv, RepairInv, SweepInv, Repair
<1>2. cur.blob # "fits" /\ cur.voice \in Voices /\ Known(cur)
  BY <1>1, NoneIsOther DEF PassAt, InHand, At, Oversize
<1>3. cur.voice = Legacy
  BY <1>2 DEF Known
<1>4. cur \in [voice : Voices \cup {None}, blob : Sizes, file : Sizes]
  BY DEF IInv, TypeOK, SyncType
<1>0. spoilt' = spoilt
  BY RepairSteps DEF IInv
<1>5. CASE /\ cur.blob = "over" /\ rows' = SetBlob(cur.voice, "fits") /\ disk' = disk
           /\ Goes(n, IF cur.file = None THEN "fill" ELSE "rewrite", sync[n].todo,
                   [cur EXCEPT !.blob = "fits"], sync[n].files, sync[n].listed, sync[n].failed)
  <2> DEFINE c == [cur EXCEPT !.blob = "fits"]
  <2>0. Grows /\ "fits" \in Sizes /\ Legacy \in Voices /\ TypeOK /\ LegacyInv
    BY <1>0, Unspoilt, NoneIsOther DEF IInv, Sizes, Whole
  <2>1. StatesKept /\ (rows'[Legacy].blob = IF Active(Legacy) THEN "fits" ELSE rows[Legacy].blob)
    BY <1>3, <1>5, <2>0, Mending
  <2>2. c.voice = Legacy /\ c.blob = "fits" /\ c.file = cur.file
    BY <1>3, <1>4
  <2> HIDE DEF c
  <2>3. /\ sync'[n].todo = sync[n].todo /\ sync'[n].cur = c
        /\ sync'[n].pc = IF cur.file = None THEN "fill" ELSE "rewrite"
        /\ sync'[n].gone = sync[n].gone /\ op' = op /\ disk' = disk
    BY <1>5 DEF Goes, c
  <2>4. PassMoves(n)
    BY <1>5, <2>1 DEF PassMoves, Goes, IInv, TypeOK
  <2>5. /\ Active(Legacy)' = Active(Legacy) /\ (Stored => Stored') /\ Stored'
        /\ Active(Legacy) => rows'[Legacy].blob # "over"
        /\ rows[Legacy].blob # "over" => rows'[Legacy].blob # "over"
    BY <1>0, <1>2, <1>3, <1>5, <2>1, NoneIsOther DEF Known, StatesKept, Active, Stored
  <2>6. PassAt(n)'
    <3>1. \A e : Known(e) => Known(e)'
      BY <2>5 DEF Known
    <3>2. Known(sync[n].cur)'
      BY <2>2, <2>3, <2>5, NoneIsOther DEF Known
    <3> QED
      BY <1>1, <2>2, <2>3, <3>1, <3>2, NoneIsOther DEF PassAt, InHand, At, Oversize
  <2>7. RepairAt(n)'
    BY <2>2, <2>3, <2>5 DEF RepairAt, InHand, At
  <2>8. SweepAt(n)'
    <3>1. \A v \in sync[n].gone : rows'[v].state = rows[v].state
      BY <2>1 DEF StatesKept, IInv, TypeOK, SyncType
    <3> QED
      BY <1>1, <1>3, <2>2, <2>3, <3>1 DEF SweepAt, InHand, At
  <2>9. PassSound(n)
    BY <1>1, <2>3, QuietSound DEF At
  <2> QED
    BY <2>4, <2>6, <2>7, <2>8, <2>9, PassStep
<1>6. CASE /\ UNCHANGED <<rows, disk>>
           /\ Goes(n, "voices", sync[n].todo, NoVoice, sync[n].files, sync[n].listed, TRUE)
  <2>1. /\ sync'[n].todo = sync[n].todo /\ sync'[n].failed = TRUE /\ sync'[n].pc = "voices"
        /\ sync'[n].gone = sync[n].gone /\ op' = op /\ disk' = disk /\ rows' = rows
    BY <1>6 DEF Goes
  <2>2. PassMoves(n)
    BY <1>6, StillPass DEF IInv, Goes
  <2>3. PassAt(n)'
    BY <1>0, <1>1, <1>6, <2>1 DEF PassAt, InHand, At, Known, Active, Stored
  <2>4. RepairAt(n)'
    BY <2>1 DEF RepairAt, At
  <2>5. SweepAt(n)'
    BY <1>1, <1>6, <2>1 DEF SweepAt, InHand, At
  <2>6. PassSound(n)
    BY <1>1, <2>1, QuietSound DEF At
  <2> QED
    BY <2>2, <2>3, <2>4, <2>5, <2>6, PassStep
<1>7. CASE /\ cur.blob = None /\ rows' = rows /\ Truncate(n, cur.voice)
           /\ Goes(n, "truncate", sync[n].todo, cur, sync[n].files, sync[n].listed, sync[n].failed)
  <2>1. TypeOK /\ Legacy \in Voices /\ Truncate(n, Legacy)
    BY <1>3, <1>7, NoneIsOther DEF IInv
  <2>2. /\ disk' \in [Nodes -> [Voices -> Sizes]] /\ disk'[n][Legacy] = "cut"
        /\ \A m \in Nodes, w \in Voices : m # n \/ w # Legacy => disk'[m][w] = disk[m][w]
    BY <2>1, Truncates
  <2>3. /\ sync'[n].todo = sync[n].todo /\ sync'[n].cur = cur /\ sync'[n].pc = "truncate"
        /\ sync'[n].gone = sync[n].gone /\ op' = op /\ rows' = rows /\ Grows
    BY <1>7 DEF Goes
  <2>4. PassMoves(n)
    BY <1>7, <2>1, <2>2, <2>3, SameRows DEF PassMoves, Goes
  <2>5. PassAt(n)'
    BY <1>0, <1>1, <1>2, <1>7, <2>3 DEF PassAt, InHand, At, Known, Active, Stored
  <2>6. RepairAt(n)'
    BY <1>3, <2>3 DEF RepairAt, InHand, At
  <2>7. SweepAt(n)'
    BY <1>1, <1>7, <2>3 DEF SweepAt, InHand, At
  <2>8. PassSound(n)
    BY <1>3, <2>2, <2>3, NoneIsOther DEF PassSound, Cutting, At
  <2> QED
    BY <2>4, <2>5, <2>6, <2>7, <2>8, PassStep
<1> QED
  BY <1>5, <1>6, <1>7, RepairSteps DEF IInv

LEMMA RepairFileKeeps ==
    ASSUME VoiceAssumption, IInv, NEW n \in Nodes, RepairFile(n)
    PROVE  IInv'
<1> DEFINE cur == sync[n].cur
<1>1. PassAt(n) /\ RepairAt(n) /\ SweepAt(n) /\ At(n, "truncate")
  BY DEF IInv, PassInv, RepairInv, SweepInv, RepairFile
<1>2. cur.blob = None /\ cur.voice \in Voices /\ Known(cur)
  BY <1>1, NoneIsOther DEF PassAt, InHand, At
<1>3. cur.voice = Legacy
  BY <1>2, NoneIsOther DEF Known
<1>4. cur \in [voice : Voices \cup {None}, blob : Sizes, file : Sizes]
  BY DEF IInv, TypeOK, SyncType
<1>5. CASE /\ rows' = rows /\ Write(n, cur.voice, "fits") /\ spoilt' = spoilt
           /\ Goes(n, "fill", sync[n].todo, [cur EXCEPT !.file = "fits"],
                   sync[n].files, sync[n].listed, sync[n].failed)
  <2> DEFINE c == [cur EXCEPT !.file = "fits"]
  <2>1. c.voice = Legacy /\ c.blob = None /\ c.file = "fits"
    BY <1>2, <1>3, <1>4
  <2> HIDE DEF c
  <2>2. /\ sync'[n].todo = sync[n].todo /\ sync'[n].cur = c /\ sync'[n].pc = "fill"
        /\ sync'[n].gone = sync[n].gone /\ op' = op /\ rows' = rows /\ Grows
    BY <1>5 DEF Goes, c
  <2>3. TypeOK /\ Legacy \in Voices /\ "fits" \in Sizes /\ Write(n, Legacy, "fits")
    BY <1>3, <1>5, NoneIsOther DEF IInv, Sizes, Whole
  <2>4. /\ disk' \in [Nodes -> [Voices -> Sizes]]
        /\ disk'[n][Legacy] = IF disk[n][Legacy] \in {None, "over"} THEN disk[n][Legacy] ELSE "fits"
        /\ \A m \in Nodes, w \in Voices : m # n \/ w # Legacy => disk'[m][w] = disk[m][w]
    BY <2>3, Writes
  <2>5. PassMoves(n)
    BY <1>5, <2>2, <2>3, <2>4, SameRows DEF PassMoves, Goes
  <2>6. PassAt(n)'
    <3>1. Known(c)
      BY <1>2, <1>3, <2>1 DEF Known
    <3> QED
      BY <1>1, <1>5, <2>1, <2>2, <2>3, <3>1, NoneIsOther
         DEF PassAt, InHand, At, Known, Active, Oversize, Stored
  <2>7. RepairAt(n)'
    BY <2>1, <2>2, NoneIsOther DEF RepairAt, InHand, At
  <2>8. SweepAt(n)'
    BY <1>1, <1>3, <2>1, <2>2 DEF SweepAt, InHand, At
  <2>9. ASSUME "count" \notin Faults
        PROVE  PassSound(n)
    <3>1. Cutting(n) /\ KeepInv
      BY <1>1, <1>3, <2>9 DEF Cutting, IInv
    <3>2. Active(Legacy) /\ Legacy \notin asked => disk[n][Legacy] # None
      BY <3>1 DEF KeepInv
    <3> QED
      BY <2>2, <2>4, <3>2, NoneIsOther DEF PassSound, Cutting, At, Whole
  <2> QED
    BY <2>5, <2>6, <2>7, <2>8, <2>9, PassStep
<1>6. CASE /\ UNCHANGED <<rows, disk>> /\ spoilt' = spoilt \cup {cur.voice}
           /\ Goes(n, "voices", sync[n].todo, NoVoice, sync[n].files, sync[n].listed, TRUE)
  <2>1. /\ sync'[n].todo = sync[n].todo /\ sync'[n].failed = TRUE /\ sync'[n].pc = "voices"
        /\ sync'[n].gone = sync[n].gone /\ op' = op /\ disk' = disk /\ rows' = rows
    BY <1>6 DEF Goes
  <2>2. PassMoves(n)
    BY <1>6, StillPass DEF IInv, Goes
  <2>3. PassAt(n)'
    BY <1>1, <1>6, <2>1 DEF PassAt, InHand, At, Known, Active, Stored
  <2>4. RepairAt(n)'
    BY <2>1 DEF RepairAt, At
  <2>5. SweepAt(n)'
    BY <1>1, <1>6, <2>1 DEF SweepAt, InHand, At
  <2>6. PassSound(n)
    BY <1>3, <1>6, <2>1 DEF PassSound, Cutting, At
  <2> QED
    BY <2>2, <2>3, <2>4, <2>5, <2>6, PassStep
<1> QED
  BY <1>2, <1>5, <1>6, RepairFileSteps DEF IInv

\* A file that the pass writes from a blob may be anything: the blob is there.
LEMMA CachedSound ==
    ASSUME VoiceAssumption, IInv, NEW n \in Nodes, PassMoves(n), sync[n].pc # "truncate",
           sync'[n].pc \notin {"truncate", "unlink"},
           disk[n][Legacy] # None => disk'[n][Legacy] # None,
           Stored \/ disk'[n][Legacy] = disk[n][Legacy]
    PROVE  PassSound(n)
<1>1. Stored /\ Legacy \notin spoilt' => rows'[Legacy].blob # None
  BY DEF Stored, PassMoves, StatesKept, Kept, Grows
<1> QED
  BY <1>1 DEF PassSound, Cutting, At

LEMMA RewriteKeeps ==
    ASSUME VoiceAssumption, IInv, NEW n \in Nodes, Rewrite(n) \/ RewriteFile(n)
    PROVE  IInv'
<1> DEFINE cur == sync[n].cur
<1>1. /\ sync[n].pc \in {"rewrite", "rewriting"} /\ rows' = rows /\ spoilt' = spoilt
      /\ Truncate(n, cur.voice) \/ Write(n, cur.voice, "fits") \/ disk' = disk
      /\ \E pc \in {"rewriting", "fill"} :
            Goes(n, pc, sync[n].todo, cur, sync[n].files, sync[n].listed, sync[n].failed)
  BY RewriteSteps DEF IInv, At
<1>2. PassAt(n) /\ RepairAt(n) /\ SweepAt(n)
  BY DEF IInv, PassInv, RepairInv, SweepInv
<1>3. cur.blob = "fits" /\ cur.voice \in Voices /\ Known(cur)
  BY <1>1, <1>2 DEF PassAt, InHand, At
<1>4. cur.voice = Legacy => Stored
  BY <1>3, NoneIsOther DEF Known
<1>6. /\ sync'[n].todo = sync[n].todo /\ sync'[n].cur = cur
      /\ sync'[n].pc \in {"rewriting", "fill"}
      /\ sync'[n].listed = sync[n].listed
      /\ sync'[n].gone = sync[n].gone /\ op' = op /\ rows' = rows
  BY <1>1 DEF Goes
<1>12. sync'[n].failed = sync[n].failed
  BY <1>1 DEF Goes
<1>7. /\ disk' \in [Nodes -> [Voices -> Sizes]]
      /\ disk[n][cur.voice] # None => disk'[n][cur.voice] # None
      /\ \A m \in Nodes, w \in Voices : m # n \/ w # cur.voice => disk'[m][w] = disk[m][w]
  <2>1. TypeOK /\ "fits" \in Sizes
    BY DEF IInv, Sizes, Whole
  <2>2. PICK v \in Voices : v = cur.voice
    BY <1>3
  <2>3. CASE Truncate(n, v)
    BY <2>1, <2>2, <2>3, Truncates, NoneIsOther
  <2>4. CASE Write(n, v, "fits")
    BY <2>1, <2>2, <2>4, Writes, NoneIsOther
  <2>5. CASE disk' = disk
    BY <2>1, <2>5 DEF TypeOK
  <2> QED
    BY <1>1, <2>2, <2>3, <2>4, <2>5
<1>8. PassMoves(n)
  <2>1. /\ sync' \in [Nodes -> SyncType] /\ \A m \in Nodes : m # n => sync'[m] = sync[m]
        /\ UNCHANGED <<op, boots, asked>> /\ Grows
    BY <1>1 DEF Goes
  <2> QED
    BY <1>1, <1>7, <2>1, SameRows DEF PassMoves, IInv
<1>9. PassAt(n)'
  BY <1>1, <1>2, <1>3, <1>6, NoneIsOther DEF PassAt, InHand, At, Known, Active, Oversize, Stored
<1>10. RepairAt(n)'
  <2>1. ASSUME Legacy \in sync[n].listed \ spoilt /\ ~sync[n].failed
        PROVE  (\E d \in sync[n].todo : d.voice = Legacy) \/ cur.voice = Legacy \/ Settled(n)
    BY <1>2, <2>1 DEF RepairAt
  <2>2. cur.voice # Legacy => disk'[n][Legacy] = disk[n][Legacy]
    BY <1>7, NoneIsOther
  <2>3. cur.voice # Legacy /\ Settled(n) => Settled(n)'
    BY <1>6, <2>2 DEF Settled, Active
  <2>4. Stored => Stored'
    BY <1>1 DEF Stored
  <2> QED
    BY <1>1, <1>4, <1>6, <1>12, <2>1, <2>3, <2>4, NoneIsOther DEF RepairAt, InHand, At
<1>11. SweepAt(n)'
  BY <1>1, <1>2, <1>6 DEF SweepAt, InHand, At
<1>13. PassSound(n)
  <2>1. disk[n][Legacy] # None => disk'[n][Legacy] # None
    BY <1>7, NoneIsOther
  <2>2. Stored \/ disk'[n][Legacy] = disk[n][Legacy]
    BY <1>4, <1>7, NoneIsOther
  <2> QED
    BY <1>1, <1>6, <1>8, <2>1, <2>2, CachedSound
<1> QED
  BY <1>8, <1>9, <1>10, <1>11, <1>13, PassStep

\* Back from a row to the list, with rows and files such that the pass has settled it.
LEMMA BackKeeps ==
    ASSUME VoiceAssumption, IInv, NEW n \in Nodes, sync[n].pc \in {"fill", "filling"},
           PassMoves(n), NEW failed \in BOOLEAN,
           Goes(n, "voices", sync[n].todo, NoVoice, sync[n].files, sync[n].listed, failed),
           disk[n][Legacy] # None => disk'[n][Legacy] # None,
           Stored \/ disk'[n][Legacy] = disk[n][Legacy],
           Legacy \in sync[n].listed \ spoilt' /\ ~failed =>
                (\E e \in sync[n].todo : e.voice = Legacy) \/ Settled(n)'
    PROVE  IInv'
<1>1. PassAt(n) /\ SweepAt(n)
  BY DEF IInv, PassInv, SweepInv
<1>2. /\ sync'[n].todo = sync[n].todo /\ sync'[n].pc = "voices"
      /\ sync'[n].listed = sync[n].listed /\ sync'[n].failed = failed
      /\ sync'[n].gone = sync[n].gone /\ op' = op
  BY DEF Goes
<1>3. /\ Stored => Stored'
      /\ rows[Legacy].blob # "over" => rows'[Legacy].blob # "over"
      /\ Active(Legacy)' = Active(Legacy)
      /\ \A v \in Voices : rows'[v].state = rows[v].state
  BY NoneIsOther DEF PassMoves, StatesKept, Kept, Active, Stored, Grows
<1>4. PassAt(n)'
  <2>1. \A e : Known(e) => Known(e)'
    BY <1>3 DEF Known
  <2> QED
    BY <1>1, <1>2, <2>1 DEF PassAt, InHand, At
<1>5. RepairAt(n)'
  <2>1. Legacy \in sync'[n].listed \ spoilt' /\ ~sync'[n].failed =>
          (\E e \in sync'[n].todo : e.voice = Legacy) \/ Settled(n)'
    BY <1>2, Zenon
  <2>2. sync'[n].pc # "fill"
    BY <1>2
  <2> QED
    BY <2>1, <2>2, Zenon DEF RepairAt, At
<1>6. SweepAt(n)'
  <2>1. sync[n].gone \subseteq Voices
    BY DEF IInv, TypeOK, SyncType
  <2> QED
    BY <1>1, <1>2, <1>3, <2>1 DEF SweepAt, InHand, At
<1>7. PassSound(n)
  BY <1>2, CachedSound
<1> QED
  BY <1>4, <1>5, <1>6, <1>7, PassStep

LEMMA FillKeeps ==
    ASSUME VoiceAssumption, IInv, NEW n \in Nodes, Fill(n)
    PROVE  IInv'
<1> DEFINE cur == sync[n].cur
<1>1. PassAt(n) /\ RepairAt(n) /\ SweepAt(n) /\ At(n, "fill")
  BY DEF IInv, PassInv, RepairInv, SweepInv, Fill
<1>2. cur.voice \in Voices /\ Known(cur) /\ ~Oversize(cur.blob, cur.file)
  BY <1>1 DEF PassAt, InHand, At
<1>3. cur \in [voice : Voices \cup {None}, blob : Sizes, file : Sizes]
  BY DEF IInv, TypeOK, SyncType
<1>4. sync[n].failed \in BOOLEAN /\ sync[n].pc = "fill" /\ TypeOK /\ LegacyInv
  BY <1>1 DEF IInv, TypeOK, SyncType, At
<1>5. Legacy \in sync[n].listed \ spoilt /\ ~sync[n].failed =>
        (\E e \in sync[n].todo : e.voice = Legacy) \/ cur.voice = Legacy \/ Settled(n)
  BY <1>1 DEF RepairAt
<1>7. CASE /\ cur.blob = None /\ cur.file # None /\ disk' = disk
           /\ \E size \in ReadAs(cur.file) : rows' = SetBlob(cur.voice, size)
           /\ cur.file = "cut" => cur.voice \in spoilt'
           /\ Goes(n, "voices", sync[n].todo, NoVoice, sync[n].files, sync[n].listed,
                   sync[n].failed)
  <2>1. cur.voice = Legacy /\ cur.file \in {"fits", "cut"} /\ Legacy \in Voices
    BY <1>2, <1>3, <1>7, NoneIsOther DEF Known, Oversize, Sizes, Whole
  <2>2. PICK size \in ReadAs(cur.file) : rows' = SetBlob(Legacy, size)
    BY <1>7, <2>1
  <2>3. /\ size \in Sizes /\ size # "over" /\ (size # "fits" => Legacy \in spoilt') /\ Grows
    BY <1>7, <2>1, <2>2, NoneIsOther DEF ReadAs, Sizes, Whole, Goes
  <2>4. StatesKept /\ (rows'[Legacy].blob = IF Active(Legacy) THEN size ELSE rows[Legacy].blob)
    BY <1>4, <2>1, <2>2, <2>3, Mending
  <2>5. Legacy \notin spoilt' => Settled(n)'
    BY <2>1, <2>3, <2>4, NoneIsOther DEF Settled, Active, StatesKept
  <2>6. PassMoves(n)
    BY <1>7, <2>4 DEF PassMoves, Goes, IInv, TypeOK
  <2>7. disk'[n][Legacy] = disk[n][Legacy]
    BY <1>7
  <2> QED
    BY <1>4, <1>7, <2>5, <2>6, <2>7, BackKeeps
<1>8. CASE /\ UNCHANGED <<rows, disk, spoilt>>
           /\ Goes(n, "voices", sync[n].todo, NoVoice, sync[n].files, sync[n].listed, TRUE)
  <2>1. PassMoves(n) /\ disk'[n][Legacy] = disk[n][Legacy]
    BY <1>8, StillPass DEF IInv, Goes
  <2> QED
    BY <1>4, <1>8, <2>1, BackKeeps
<1>9. CASE /\ cur.blob # None /\ UNCHANGED <<rows, spoilt>> /\ Truncate(n, cur.voice)
           /\ Goes(n, "filling", sync[n].todo, cur, sync[n].files, sync[n].listed,
                   sync[n].failed)
  <2>1. /\ disk' \in [Nodes -> [Voices -> Sizes]] /\ disk'[n][cur.voice] # None
        /\ \A m \in Nodes, w \in Voices : m # n \/ w # cur.voice => disk'[m][w] = disk[m][w]
    <3>1. PICK v \in Voices : v = cur.voice
      BY <1>2
    <3>2. Truncate(n, v)
      BY <1>9, <3>1
    <3> QED
      BY <1>4, <3>1, <3>2, Truncates, NoneIsOther
  <2>2. PassMoves(n)
    BY <1>4, <1>9, <2>1, SameRows DEF PassMoves, Goes
  <2>3. /\ sync'[n].todo = sync[n].todo /\ sync'[n].cur = cur /\ sync'[n].pc = "filling"
        /\ sync'[n].listed = sync[n].listed
        /\ sync'[n].gone = sync[n].gone /\ op' = op /\ rows' = rows /\ spoilt' = spoilt
    BY <1>9 DEF Goes
  <2>10. sync'[n].failed = sync[n].failed
    BY <1>9 DEF Goes
  <2>4. PassAt(n)'
    BY <1>1, <1>2, <1>9, <2>3 DEF PassAt, InHand, At, Known, Active, Oversize, Stored
  <2>5. cur.voice # Legacy => disk'[n][Legacy] = disk[n][Legacy]
    BY <2>1, NoneIsOther
  <2>6. cur.voice # Legacy /\ Settled(n) => Settled(n)'
    BY <2>3, <2>5 DEF Settled, Active
  <2>7. RepairAt(n)'
    BY <1>5, <2>3, <2>6, <2>10 DEF RepairAt, InHand, At
  <2>8. SweepAt(n)'
    BY <1>1, <2>3 DEF SweepAt, InHand, At
  <2>9. PassSound(n)
    <3>1. disk[n][Legacy] # None => disk'[n][Legacy] # None
      BY <2>1, <2>5
    <3>2. Stored \/ disk'[n][Legacy] = disk[n][Legacy]
      BY <1>2, <1>9, <2>5 DEF Known
    <3> QED
      BY <1>4, <2>2, <2>3, <3>1, <3>2, CachedSound
  <2> QED
    BY <2>2, <2>4, <2>7, <2>8, <2>9, PassStep
<1>10. CASE /\ (cur.blob = None) = (cur.file = None) /\ UNCHANGED <<rows, disk, spoilt>>
            /\ Goes(n, "voices", sync[n].todo, NoVoice, sync[n].files, sync[n].listed,
                    sync[n].failed)
  <2>1. PassMoves(n) /\ disk'[n][Legacy] = disk[n][Legacy]
    BY <1>10, StillPass DEF IInv, Goes
  <2>2. Legacy \notin spoilt /\ cur.voice = Legacy => Settled(n)
    <3>1. CASE cur.blob = None /\ cur.file = None
      BY <1>1, <1>2, <3>1, NoneIsOther DEF Known, Settled, RepairAt, Stored
    <3>2. CASE cur.blob # None /\ cur.file # None
      BY <1>2, <3>2 DEF Known, Settled, Oversize, Stored
    <3> QED
      BY <1>10, <3>1, <3>2
  <2>3. Settled(n) => Settled(n)'
    BY <1>10 DEF Settled, Active
  <2>4. Legacy \in sync[n].listed \ spoilt' /\ ~sync[n].failed =>
          (\E e \in sync[n].todo : e.voice = Legacy) \/ Settled(n)'
    BY <1>5, <1>10, <2>2, <2>3
  <2> QED
    BY <1>4, <1>10, <2>1, <2>4, BackKeeps
<1> QED
  BY <1>2, <1>7, <1>8, <1>9, <1>10, FillSteps DEF IInv

LEMMA FillFileKeeps ==
    ASSUME VoiceAssumption, IInv, NEW n \in Nodes, FillFile(n)
    PROVE  IInv'
<1> DEFINE cur == sync[n].cur
<1>1. /\ PassAt(n) /\ RepairAt(n) /\ At(n, "filling") /\ rows' = rows /\ spoilt' = spoilt
      /\ \/ /\ Write(n, cur.voice, cur.blob)
            /\ Goes(n, "voices", sync[n].todo, NoVoice, sync[n].files, sync[n].listed,
                    sync[n].failed)
         \/ /\ disk' = disk
            /\ Goes(n, "voices", sync[n].todo, NoVoice, sync[n].files, sync[n].listed, TRUE)
  BY FillFileSteps DEF IInv, PassInv, RepairInv
<1>2. cur.voice \in Voices /\ Known(cur) /\ ~Oversize(cur.blob, cur.file) /\ cur.blob # None
  BY <1>1 DEF PassAt, InHand, At
<1>3. sync[n].failed \in BOOLEAN /\ sync[n].pc = "filling" /\ TypeOK /\ cur.blob \in Sizes
  BY <1>1 DEF IInv, TypeOK, SyncType, At
<1>4. cur.voice = Legacy => Stored
  BY <1>2 DEF Known
<1>5. CASE disk' = disk /\
           Goes(n, "voices", sync[n].todo, NoVoice, sync[n].files, sync[n].listed, TRUE)
  <2>1. PassMoves(n) /\ disk'[n][Legacy] = disk[n][Legacy]
    BY <1>1, <1>5, StillPass DEF IInv, Goes
  <2> QED
    BY <1>3, <1>5, <2>1, BackKeeps
<1>6. CASE /\ Write(n, cur.voice, cur.blob)
           /\ Goes(n, "voices", sync[n].todo, NoVoice, sync[n].files, sync[n].listed,
                   sync[n].failed)
  <2>1. PICK v \in Voices, b \in Sizes : v = cur.voice /\ b = cur.blob
    BY <1>2, <1>3
  <2>2. Write(n, v, b)
    BY <1>6, <2>1
  <2>3. /\ disk' \in [Nodes -> [Voices -> Sizes]]
        /\ disk[n][v] # None => disk'[n][v] # None
        /\ \A m \in Nodes, w \in Voices : m # n \/ w # v => disk'[m][w] = disk[m][w]
    BY <1>2, <1>3, <2>1, <2>2, Writes
  <2>4. PassMoves(n)
    BY <1>1, <1>3, <1>6, <2>3, SameRows DEF PassMoves, Goes
  <2>5. disk[n][Legacy] # None => disk'[n][Legacy] # None
    BY <2>3, NoneIsOther
  <2>6. v # Legacy => disk'[n][Legacy] = disk[n][Legacy]
    BY <2>3, NoneIsOther
  <2>7. Stored \/ disk'[n][Legacy] = disk[n][Legacy]
    BY <1>4, <2>1, <2>6
  <2>8. cur.voice = Legacy /\ Legacy \notin spoilt => Settled(n)'
    BY <1>1, <1>2, <1>4 DEF Known, Oversize, Settled, Active, Stored
  <2>9. cur.voice # Legacy /\ Settled(n) => Settled(n)'
    BY <1>1, <2>1, <2>6 DEF Settled, Active
  <2>10. Legacy \in sync[n].listed \ spoilt' /\ ~sync[n].failed =>
          (\E e \in sync[n].todo : e.voice = Legacy) \/ Settled(n)'
    BY <1>1, <2>8, <2>9 DEF RepairAt
  <2> QED
    BY <1>3, <1>6, <2>4, <2>5, <2>7, <2>10, BackKeeps
<1> QED
  BY <1>1, <1>5, <1>6

\* The sweep: the rows, and what the pass has done about them, stay.
LEMMA SweepFrame ==
    ASSUME VoiceAssumption, IInv, NEW n \in Nodes, PassMoves(n), rows' = rows,
           sync[n].pc \in {"voices", "sweep", "unlink"}, sync[n].todo = {},
           sync'[n].pc \in {"sweep", "unlink", "done"},
           sync'[n].todo = sync[n].todo, sync'[n].listed = sync[n].listed,
           sync'[n].failed = sync[n].failed, sync'[n].gone = sync[n].gone,
           sync'[n].pc = "unlink" => sync'[n].cur.voice \in Voices,
           disk'[n][Legacy] # None => disk[n][Legacy] # None
    PROVE  PassAt(n)' /\ RepairAt(n)'
<1>1. PassAt(n) /\ RepairAt(n)
  BY DEF IInv, PassInv, RepairInv
<1>2. PassAt(n)'
  BY DEF PassAt, InHand, At
<1>3. sync[n].failed \in BOOLEAN
  BY DEF IInv, TypeOK, SyncType
<1>4. Settled(n) => Settled(n)'
  BY DEF Settled, Active
<1>7. spoilt \subseteq spoilt'
  BY DEF PassMoves, StatesKept, Kept, Grows
<1>5. Legacy \in sync[n].listed \ spoilt /\ ~sync[n].failed => Settled(n)
  BY <1>1 DEF RepairAt, InHand
<1>6. RepairAt(n)'
  <2>1. sync'[n].pc # "fill"
    OBVIOUS
  <2>2. Legacy \in sync'[n].listed \ spoilt' /\ ~sync'[n].failed => Settled(n)'
    BY <1>4, <1>5, <1>7, Zenon
  <2> QED
    BY <2>1, <2>2, Zenon DEF RepairAt, At
<1> QED
  BY <1>2, <1>6

LEMMA ReadDirKeeps ==
    ASSUME VoiceAssumption, IInv, NEW n \in Nodes, ReadDir(n)
    PROVE  IInv'
<1> DEFINE F == {v \in Voices : disk[n][v] # None}
<1>1. /\ At(n, "voices") /\ sync[n].todo = {} /\ UNCHANGED <<rows, disk, spoilt>>
      /\ \/ Goes(n, "sweep", sync[n].todo, sync[n].cur, F, sync[n].listed, sync[n].failed)
         \/ /\ Goes(n, "sweep", sync[n].todo, sync[n].cur, sync[n].files,
                   sync[n].listed, sync[n].failed)
            /\ sync'[n].left = Voices
  BY SweepSteps DEF IInv
<1>2. \A v \in Voices : disk[n][v] # None => v \in F
  OBVIOUS
<1> HIDE DEF F
<1>3. /\ sync[n].pc = "voices" /\ sync'[n].pc = "sweep" /\ sync'[n].todo = sync[n].todo
      /\ sync'[n].listed = sync[n].listed /\ sync'[n].gone = sync[n].gone
      /\ sync'[n].files = F \/ sync'[n].left = Voices
      /\ rows' = rows /\ disk' = disk /\ op' = op
  BY <1>1 DEF Goes, At
<1>4. sync'[n].failed = sync[n].failed
  BY <1>1 DEF Goes
<1>5. PassMoves(n)
  BY <1>1, StillPass DEF IInv, Goes
<1>6. PassAt(n)' /\ RepairAt(n)'
  BY <1>1, <1>3, <1>4, <1>5, SweepFrame
<1>7. SweepAt(n)'
  <2>1. SweepAt(n) /\ sync[n].gone \subseteq Voices
    BY DEF IInv, SweepInv, TypeOK, SyncType
  <2> QED
    BY <1>1, <1>2, <1>3, <2>1 DEF SweepAt, InHand, At
<1>8. PassSound(n)
  BY <1>3, QuietSound
<1> QED
  BY <1>5, <1>6, <1>7, <1>8, PassStep

LEMMA CountRowsKeeps ==
    ASSUME VoiceAssumption, IInv, NEW n \in Nodes, CountRows(n)
    PROVE  IInv'
<1>1. At(n, "sweep") /\ UNCHANGED <<rows, disk, spoilt>>
  BY CountSteps DEF IInv
<1>2. PICK v \in sync[n].files, c \in [voice : Voices \cup {None}, blob : Sizes, file : Sizes] :
        \/ /\ Active(v)
           /\ Goes(n, "sweep", sync[n].todo, c, sync[n].files \ {v}, sync[n].listed, sync[n].failed)
        \/ /\ "count" \notin Faults => ~Active(v)
           /\ c.voice = v
           /\ Goes(n, "unlink", sync[n].todo, c, sync[n].files \ {v}, sync[n].listed, sync[n].failed)
  BY CountSteps DEF IInv
<1>3. v \in Voices
  BY DEF IInv, TypeOK, SyncType
<1>4. /\ sync[n].pc = "sweep" /\ sync'[n].pc \in {"sweep", "unlink"}
      /\ sync'[n].todo = sync[n].todo /\ sync'[n].cur = c
      /\ sync'[n].files = sync[n].files \ {v} /\ sync'[n].listed = sync[n].listed
      /\ sync'[n].gone = sync[n].gone /\ rows' = rows /\ disk' = disk /\ op' = op
      /\ sync[n].left \subseteq sync'[n].left
  BY <1>1, <1>2 DEF Goes, At
<1>5. sync'[n].failed = sync[n].failed
  BY <1>2 DEF Goes
<1>6. /\ sync'[n].pc = "sweep" => Active(v)
      /\ sync'[n].pc = "unlink" => c.voice = v /\ ("count" \notin Faults => ~Active(v))
  BY <1>2 DEF Goes
<1>7. PassMoves(n)
  <2>1. /\ sync' \in [Nodes -> SyncType] /\ \A m \in Nodes : m # n => sync'[m] = sync[m]
        /\ UNCHANGED <<op, boots, asked>> /\ Grows
    BY <1>2 DEF Goes
  <2> QED
    BY <1>1, <2>1, StillPass DEF IInv
<1>8. PassAt(n) /\ SweepAt(n) /\ sync[n].todo = {} /\ sync[n].gone \subseteq Voices
  BY <1>4 DEF IInv, PassInv, SweepInv, PassAt, TypeOK, SyncType
<1>9. PassAt(n)' /\ RepairAt(n)'
  BY <1>3, <1>4, <1>5, <1>6, <1>7, <1>8, SweepFrame
<1>10. SweepAt(n)'
  <2>1. \A w \in sync[n].gone : /\ rows[w].state = "deleted"
                                /\ disk[n][w] # None => w \in sync[n].files \cup sync[n].left
    BY <1>4, <1>8 DEF SweepAt, At
  <2>2. \A w \in sync[n].gone : disk[n][w] # None =>
           \/ w \in sync'[n].files \cup sync'[n].left
           \/ sync'[n].pc = "unlink" /\ sync'[n].cur.voice = w
    BY <1>4, <1>6, <2>1 DEF Active
  <2> QED
    BY <1>4, <1>8, <2>1, <2>2 DEF SweepAt, InHand, At
<1>11. "count" \notin Faults => PassSound(n)
  BY <1>4, <1>6 DEF PassSound, Cutting, At
<1> QED
  BY <1>7, <1>9, <1>10, <1>11, PassStep

LEMMA RemoveOrphanKeeps ==
    ASSUME VoiceAssumption, IInv, NEW n \in Nodes, RemoveOrphan(n)
    PROVE  IInv'
<1>0. At(n, "unlink") /\ PassAt(n)
  BY DEF RemoveOrphan, IInv, PassInv
<1>6. PICK v \in Voices : v = sync[n].cur.voice
  BY <1>0 DEF PassAt
<1>1. /\ At(n, "unlink") /\ rows' = rows /\ spoilt' = spoilt
      /\ disk' = [disk EXCEPT ![n][v] = None] \/ (disk' = disk /\ v \in sync'[n].left)
      /\ Goes(n, "sweep", sync[n].todo, NoVoice, sync[n].files, sync[n].listed, sync[n].failed)
  BY <1>6, RemoveSteps DEF IInv
<1>2. /\ sync[n].pc = "unlink" /\ sync'[n].pc = "sweep"
      /\ sync'[n].todo = sync[n].todo /\ sync'[n].files = sync[n].files
      /\ sync'[n].listed = sync[n].listed /\ sync'[n].gone = sync[n].gone /\ op' = op
      /\ sync[n].left \subseteq sync'[n].left
  BY <1>1 DEF Goes, At
<1>3. sync'[n].failed = sync[n].failed
  BY <1>1 DEF Goes
<1>4. PassAt(n) /\ SweepAt(n) /\ sync[n].gone \subseteq Voices
  BY DEF IInv, PassInv, SweepInv, TypeOK, SyncType
<1>5. sync[n].todo = {}
  BY <1>2, <1>4 DEF PassAt
<1>7. TypeOK /\ None \in Sizes
  BY DEF IInv, Sizes
<1>8. /\ disk' \in [Nodes -> [Voices -> Sizes]]
      /\ disk'[n][v] = None \/ (disk'[n][v] = disk[n][v] /\ v \in sync'[n].left)
      /\ \A m \in Nodes, w \in Voices : m # n \/ w # v => disk'[m][w] = disk[m][w]
  <2>1. CASE disk' = [disk EXCEPT ![n][v] = None]
    <3>1. disk' \in [Nodes -> [Voices -> Sizes]]
      BY <1>7, <2>1, Files
    <3>2. disk'[n][v] = None
      BY <1>7, <2>1, Files
    <3>3. \A m \in Nodes, w \in Voices : m # n \/ w # v => disk'[m][w] = disk[m][w]
      BY <1>7, <2>1, Files
    <3> QED
      BY <3>1, <3>2, <3>3
  <2>2. CASE disk' = disk /\ v \in sync'[n].left
    BY <1>7, <2>2 DEF TypeOK
  <2> QED
    BY <1>1, <2>1, <2>2
<1>11. PassMoves(n)
  BY <1>1, <1>7, <1>8, SameRows DEF PassMoves, Goes
<1>12. \A w \in Voices : disk'[n][w] # None => disk[n][w] # None /\ (w # v \/ w \in sync'[n].left)
  BY <1>8
<1>13. PassAt(n)' /\ RepairAt(n)'
  BY <1>1, <1>2, <1>3, <1>5, <1>11, <1>12, SweepFrame, NoneIsOther
<1>14. SweepAt(n)'
  BY <1>1, <1>2, <1>4, <1>5, <1>6, <1>12 DEF SweepAt, InHand, At
<1>15. "count" \notin Faults /\ Active(Legacy) => v # Legacy
  BY <1>1, <1>6 DEF IInv, KeepInv
<1>16. "count" \notin Faults => PassSound(n)
  BY <1>2, <1>8, <1>15, NoneIsOther DEF PassSound, Cutting, At
<1> QED
  BY <1>11, <1>13, <1>14, <1>16, PassStep

LEMMA SyncDoneKeeps ==
    ASSUME VoiceAssumption, IInv, NEW n \in Nodes, SyncDone(n)
    PROVE  IInv'
<1>1. /\ At(n, "sweep") /\ sync[n].files = {} /\ UNCHANGED <<rows, disk, spoilt>>
      /\ Goes(n, "done", sync[n].todo, sync[n].cur, sync[n].files, sync[n].listed, sync[n].failed)
  BY SweepSteps DEF IInv
<1>2. /\ sync[n].pc = "sweep" /\ sync'[n].pc = "done"
      /\ sync'[n].todo = sync[n].todo /\ sync'[n].files = {}
      /\ sync'[n].listed = sync[n].listed /\ sync'[n].gone = sync[n].gone
      /\ op' = op /\ rows' = rows /\ disk' = disk
      /\ sync[n].left \subseteq sync'[n].left
  BY <1>1 DEF Goes, At
<1>3. sync'[n].failed = sync[n].failed
  BY <1>1 DEF Goes
<1>4. PassAt(n) /\ SweepAt(n)
  BY DEF IInv, PassInv, SweepInv
<1>5. sync[n].todo = {}
  BY <1>2, <1>4 DEF PassAt
<1>6. PassMoves(n)
  BY <1>1, StillPass DEF IInv, Goes
<1>7. PassAt(n)' /\ RepairAt(n)'
  BY <1>2, <1>3, <1>5, <1>6, SweepFrame
<1>8. SweepAt(n)'
  BY <1>1, <1>2, <1>4, <1>5 DEF SweepAt, InHand, At
<1>9. PassSound(n)
  BY <1>2, QuietSound
<1> QED
  BY <1>6, <1>7, <1>8, <1>9, PassStep

-----------------------------------------------------------------------------
(* A step of a request                                                      *)

\* Request r moves: rows lose no state.
RequestMoves(r) ==
    /\ op' \in [Requests -> OpType]
    /\ \A p \in Requests : p # r => op'[p] = op[p]
    /\ op'[r].pc \in {"missed", "storing"} => op'[r].blob # None
    /\ UNCHANGED <<sync, boots, spoilt>>
    /\ Kept
    /\ disk' \in [Nodes -> [Voices -> Sizes]]
    /\ asked \subseteq asked' /\ asked' \subseteq Voices

\* What a request may do to the files: it gives the legacy voice none unless its row
\* has the blob, brings none back that a node has swept, and neither takes nor cuts one
\* of the legacy voice that nobody wants deleted, unless its row has the blob.
FilesSound ==
    /\ \A n \in Nodes : disk'[n][Legacy] # None => disk[n][Legacy] # None \/ Stored
    /\ \A n \in Nodes : \A v \in sync[n].gone : disk'[n][v] # None => disk[n][v] # None
    /\ \A n \in Nodes : Legacy \notin asked' /\ disk[n][Legacy] # None => disk'[n][Legacy] # None
    /\ \A n \in Nodes : Legacy \notin asked' => Stored \/ disk'[n][Legacy] = disk[n][Legacy]

LEMMA RequestStep ==
    ASSUME VoiceAssumption, IInv, NEW r \in Requests, RequestMoves(r), FilesSound,
           OpAt(r)', NewIdInv', NameInv',
           \A n \in Nodes : \A v \in sync[n].gone :
              op'[r].node = n /\ op'[r].pc \in Loading => op'[r].voice # v
    PROVE  IInv'
<1>1. TypeOK'
  <2>1. \A p \in Requests : op'[p].pc \in {"missed", "storing"} => op'[p].blob # None
    BY DEF IInv, TypeOK, RequestMoves
  <2> QED
    BY <2>1 DEF IInv, TypeOK, RequestMoves, Kept
<1>2. /\ rows[Legacy].blob # None => rows'[Legacy].blob # None \/ Legacy \in spoilt
      /\ spoilt' = spoilt /\ (Stored => Stored')
      /\ rows[Legacy].blob # "over" => rows'[Legacy].blob # "over"
      /\ Active(Legacy)' => Active(Legacy)
      /\ rows'[Legacy].state # "absent"
  BY NoneIsOther DEF IInv, LegacyInv, RequestMoves, Kept, Active, Stored
<1>3. LegacyInv'
  BY <1>2 DEF LegacyInv, IInv, RequestMoves, Kept
<1>4. OpInv'
  <2>1. ASSUME NEW p \in Requests, p # r
        PROVE  OpAt(p)'
    <3>1. OpAt(p) /\ op'[p] = op[p]
      BY <2>1 DEF IInv, OpInv, RequestMoves
    <3>2. asked \subseteq asked' /\ \A v \in Voices : rows[v].state # "absent" => rows'[v].state # "absent"
      BY DEF RequestMoves, Kept
    <3> QED
      BY <1>2, <3>1, <3>2 DEF OpAt, Busy, Loading
  <2> QED
    BY <2>1 DEF OpInv
<1>5. sync' = sync
  BY DEF RequestMoves
<1>6. PassInv'
  <2>1. \A e : Known(e) => Known(e)'
    BY <1>2 DEF Known
  <2> QED
    BY <1>5, <2>1 DEF IInv, PassInv, PassAt, InHand, At, Oversize
<1>7. RepairInv'
  <2> SUFFICES ASSUME NEW n \in Nodes
               PROVE  RepairAt(n)'
    BY DEF RepairInv
  <2>1. RepairAt(n) /\ (disk'[n][Legacy] # None => disk[n][Legacy] # None \/ Stored)
    BY DEF IInv, RepairInv, FilesSound
  <2>2. Legacy \notin spoilt /\ Settled(n) => Settled(n)'
    BY <1>2, <2>1 DEF Settled, Stored
  <2> QED
    BY <1>2, <1>5, <2>1, <2>2 DEF RepairAt, InHand, At
<1>8. SweepInv'
  <2> SUFFICES ASSUME NEW n \in Nodes
               PROVE  SweepAt(n)'
    BY DEF SweepInv
  <2>1. SweepAt(n) /\ sync[n].gone \subseteq Voices
    BY DEF IInv, SweepInv, TypeOK, SyncType
  <2>2. \A v \in sync[n].gone : rows'[v].state = "deleted"
    <3> SUFFICES ASSUME NEW v \in sync[n].gone
                 PROVE  rows'[v].state = "deleted"
      OBVIOUS
    <3>1. rows[v].state = "deleted" /\ v \in Voices
      BY <2>1 DEF SweepAt
    <3> QED
      BY <3>1 DEF RequestMoves, Kept, Row
  <2>3. \A v \in sync[n].gone, p \in Requests :
           op'[p].node = n /\ op'[p].pc \in Loading => op'[p].voice # v
    BY <2>1 DEF SweepAt, RequestMoves
  <2>4. \A v \in sync[n].gone : disk'[n][v] # None => disk[n][v] # None
    BY DEF FilesSound
  <2> QED
    BY <1>5, <2>1, <2>2, <2>3, <2>4 DEF SweepAt, InHand, At
<1>9. ASSUME "count" \notin Faults
      PROVE  KeepInv'
  <2>1. KeepInv
    BY <1>9 DEF IInv
  <2>2. \A n \in Nodes : At(n, "unlink")' /\ sync'[n].cur.voice = Legacy => ~Active(Legacy)'
    BY <1>2, <1>5, <2>1 DEF KeepInv, At
  <2>3. Active(Legacy)' /\ Legacy \notin asked' =>
          \A n \in Nodes : Cutting(n)' => disk'[n][Legacy] # None
    BY <1>2, <1>5, <2>1 DEF KeepInv, FilesSound, RequestMoves, Cutting, At
  <2>4. ASSUME Active(Legacy)', Legacy \notin asked' \cup spoilt'
        PROVE  rows'[Legacy].blob # None \/ \E n \in Nodes : disk'[n][Legacy] \in Whole \/ Cutting(n)'
    <3>1. rows[Legacy].blob # None => rows'[Legacy].blob # None
      BY <1>2, <2>4
    <3>2. rows[Legacy].blob # None \/ \E n \in Nodes : disk[n][Legacy] \in Whole \/ Cutting(n)
      BY <1>2, <2>1, <2>4 DEF KeepInv, RequestMoves
    <3>3. \A n \in Nodes : Cutting(n)' = Cutting(n)
      BY <1>5 DEF Cutting, At
    <3>4. \A n \in Nodes : rows[Legacy].blob # None \/ disk'[n][Legacy] = disk[n][Legacy]
      BY <1>2, <2>4 DEF FilesSound, Stored
    <3> QED
      BY <3>1, <3>2, <3>3, <3>4
  <2> QED
    BY <2>2, <2>3, <2>4 DEF KeepInv
<1> QED
  BY <1>1, <1>3, <1>4, <1>6, <1>7, <1>8, <1>9 DEF IInv

LEMMA NoNewId ==
    ASSUME VoiceAssumption, IInv, NEW r \in Requests, RequestMoves(r), op'[r].pc # "written",
           op'[r].voice \in {op[r].voice, None} \/ rows[op'[r].voice].state # "absent",
           \A v \in Voices : rows[v].state = "absent" /\ v # op[r].voice => rows'[v].state = "absent"
    PROVE  NewIdInv'
<1> SUFFICES ASSUME NEW p \in Requests, op'[p].pc = "written"
             PROVE  /\ rows'[op'[p].voice].state = "absent"
                    /\ \A q \in Requests : q # p => op'[q].voice # op'[p].voice
  BY DEF NewIdInv
<1>1. p # r /\ op'[p] = op[p] /\ op[p].pc = "written"
  BY DEF RequestMoves
<1>2. /\ op[p].voice \in Voices /\ rows[op[p].voice].state = "absent"
      /\ \A q \in Requests : q # p => op[q].voice # op[p].voice
  BY <1>1 DEF IInv, OpInv, OpAt, NewIdInv, Busy, Loading
<1>3. rows'[op[p].voice].state = "absent"
  BY <1>1, <1>2
<1>4. op'[r].voice # op[p].voice
  BY <1>1, <1>2, NoneIsOther
<1>5. \A q \in Requests : q # p => op'[q].voice # op[p].voice
  BY <1>2, <1>4 DEF RequestMoves
<1> QED
  BY <1>1, <1>3, <1>5

LEMMA SameFiles ==
    ASSUME VoiceAssumption, IInv, UNCHANGED <<rows, disk, spoilt>>, asked \subseteq asked'
    PROVE  /\ Kept /\ FilesSound /\ NameInv' /\ disk' \in [Nodes -> [Voices -> Sizes]]
           /\ \A v \in Voices : rows'[v] = rows[v]
<1>1. Kept
  BY SameRows, Unspoilt DEF IInv, StatesKept
<1>2. FilesSound
  BY DEF FilesSound
<1>3. NameInv'
  BY DEF IInv, NameInv
<1> QED
  BY <1>1, <1>2, <1>3 DEF IInv, TypeOK

\* A request that is over.
LEMMA OverAt ==
    ASSUME NEW r \in Requests, Moves(r, "over", None, None, None, None)
    PROVE  OpAt(r)' /\ op'[r].pc = "over" /\ op'[r].voice = None
BY DEF Moves, OpAt, Busy, Loading

LEMMA CloneKeeps ==
    ASSUME VoiceAssumption, IInv, NEW r \in Requests, NEW n \in Nodes, NEW name \in Names,
           Clone(r, n, name)
    PROVE  IInv'
<1>1. /\ op[r].pc = "new" /\ UNCHANGED <<rows, disk, asked>>
      /\ Moves(r, "extracting", n, None, name, None)
  BY CloneSteps DEF IInv
<1>2. /\ Kept /\ FilesSound /\ NameInv' /\ disk' \in [Nodes -> [Voices -> Sizes]]
      /\ \A v \in Voices : rows'[v] = rows[v]
  BY <1>1, SameFiles DEF Moves
<1>3. op'[r].pc = "extracting" /\ op'[r].node = n /\ op'[r].voice = None /\ op'[r].name = name
  BY <1>1 DEF Moves
<1>4. RequestMoves(r)
  BY <1>1, <1>2, <1>3 DEF RequestMoves, Moves, IInv, TypeOK
<1>5. OpAt(r)'
  BY <1>3 DEF OpAt, Busy, Loading
<1>6. NewIdInv'
  BY <1>2, <1>3, <1>4, NoNewId
<1> QED
  BY <1>2, <1>3, <1>4, <1>5, <1>6, RequestStep DEF Loading

LEMMA CloneVoiceKeeps ==
    ASSUME VoiceAssumption, IInv, NEW r \in Requests, CloneVoice(r)
    PROVE  IInv'
<1>1. op[r].pc = "extracting" /\ UNCHANGED <<rows, asked>>
  BY CloneVoiceSteps DEF IInv
<1>2. CASE disk' = disk /\ Moves(r, "over", None, None, None, None)
  <2>1. /\ Kept /\ FilesSound /\ NameInv' /\ disk' \in [Nodes -> [Voices -> Sizes]]
        /\ \A v \in Voices : rows'[v] = rows[v]
    BY <1>1, <1>2, SameFiles DEF Moves
  <2>2. OpAt(r)' /\ op'[r].pc = "over" /\ op'[r].voice = None
    BY <1>2, OverAt
  <2>3. RequestMoves(r)
    BY <1>1, <1>2, <2>1, <2>2 DEF RequestMoves, Moves, IInv, TypeOK
  <2>4. NewIdInv'
    BY <2>1, <2>2, <2>3, NoNewId
  <2> QED
    BY <2>1, <2>2, <2>3, <2>4, RequestStep DEF Loading
<1>3. ASSUME NEW v \in Voices, Fresh(v), NEW size \in Sizes,
             disk' = [disk EXCEPT ![op[r].node][v] = size],
             spoilt' = spoilt
      PROVE  /\ disk' \in [Nodes -> [Voices -> Sizes]] /\ Kept /\ NameInv' /\ FilesSound
  <2>1. op[r].node \in Nodes
    BY <1>1 DEF IInv, OpInv, OpAt
  <2>3. rows[v].state = "absent" /\ v # Legacy
    BY <1>3 DEF Fresh, IInv, LegacyInv
  <2>4. PICK m \in Nodes : m = op[r].node
    BY <2>1
  <2>5. TypeOK /\ disk' = [disk EXCEPT ![m][v] = size]
    BY <1>3, <2>4 DEF IInv
  <2>6. disk' \in [Nodes -> [Voices -> Sizes]]
    BY <2>5, Files
  <2>7. \A k \in Nodes, w \in Voices : k # m \/ w # v => disk'[k][w] = disk[k][w]
    BY <2>5, Files
  <2>8. Kept /\ NameInv'
    BY <1>1, <1>3, <2>5, SameRows, Unspoilt DEF StatesKept, IInv, NameInv
  <2>9. FilesSound
    <3>1. \A k \in Nodes : disk'[k][Legacy] = disk[k][Legacy]
      BY <2>3, <2>7, NoneIsOther
    <3>2. \A k \in Nodes : \A w \in sync[k].gone : w \in Voices /\ w # v
      BY <2>3 DEF IInv, SweepInv, SweepAt, TypeOK, SyncType
    <3> QED
      BY <2>7, <3>1, <3>2 DEF FilesSound
  <2> QED
    BY <2>6, <2>8, <2>9
<1>4. ASSUME NEW v \in Voices, Fresh(v), disk' = [disk EXCEPT ![op[r].node][v] = "fits"],
             Moves(r, "written", op[r].node, v, op[r].name, op[r].blob)
      PROVE  IInv'
  <2>1. op[r].node \in Nodes /\ op[r].name \in Names
    BY <1>1 DEF IInv, OpInv, OpAt
  <2>2. /\ op'[r].pc = "written" /\ op'[r].node = op[r].node /\ op'[r].voice = v
        /\ op'[r].name = op[r].name
    BY <1>4 DEF Moves
  <2>3. rows[v].state = "absent" /\ \A p \in Requests : op[p].voice # v
    BY <1>4 DEF Fresh
  <2>4. "fits" \in Sizes /\ spoilt' = spoilt
    BY <1>4 DEF Sizes, Whole, Moves
  <2>5. disk' \in [Nodes -> [Voices -> Sizes]] /\ Kept /\ NameInv' /\ FilesSound
    BY <1>3, <1>4, <2>4
  <2>10. RequestMoves(r)
    BY <1>1, <1>4, <2>2, <2>5 DEF RequestMoves, Moves, IInv, TypeOK
  <2>11. OpAt(r)'
    BY <2>1, <2>2 DEF OpAt, Busy, Loading
  <2>12. NewIdInv'
    <3> SUFFICES ASSUME NEW p \in Requests, op'[p].pc = "written"
                 PROVE  /\ rows'[op'[p].voice].state = "absent"
                        /\ \A q \in Requests : q # p => op'[q].voice # op'[p].voice
      BY DEF NewIdInv
    <3>1. CASE p = r
      BY <1>1, <2>2, <2>3, <2>10, <3>1 DEF RequestMoves
    <3>2. CASE p # r
      BY <1>1, <2>2, <2>3, <2>10, <3>2 DEF RequestMoves, IInv, NewIdInv
    <3> QED
      BY <3>1, <3>2
  <2> QED
    BY <2>2, <2>5, <2>10, <2>11, <2>12, RequestStep DEF Loading
<1>5. ASSUME NEW v \in Voices, Fresh(v), disk' = [disk EXCEPT ![op[r].node][v] = "cut"],
             Moves(r, "over", None, None, None, None)
      PROVE  IInv'
  <2>1. "cut" \in Sizes /\ spoilt' = spoilt
    BY <1>5 DEF Sizes, Moves
  <2>2. disk' \in [Nodes -> [Voices -> Sizes]] /\ Kept /\ NameInv' /\ FilesSound
    BY <1>3, <1>5, <2>1
  <2>3. OpAt(r)' /\ op'[r].pc = "over" /\ op'[r].voice = None
    BY <1>5, OverAt
  <2>4. RequestMoves(r)
    BY <1>1, <1>5, <2>2, <2>3 DEF RequestMoves, Moves, IInv, TypeOK
  <2>5. NewIdInv'
    BY <1>1, <2>3, <2>4, NoNewId
  <2> QED
    BY <2>2, <2>3, <2>4, <2>5, RequestStep DEF Loading
<1> QED
  BY <1>2, <1>4, <1>5, CloneVoiceSteps DEF IInv

LEMMA CreateRowKeeps ==
    ASSUME VoiceAssumption, IInv, NEW r \in Requests, CreateRow(r)
    PROVE  IInv'
<1>1. op[r].pc = "written" /\ asked' = asked /\ Moves(r, "over", None, None, None, None)
  BY CreateRowSteps DEF IInv
<1>2. OpAt(r)' /\ op'[r].pc = "over" /\ op'[r].voice = None
  BY <1>1, OverAt
<1>3. PICK v \in Voices, n \in Nodes, name \in Names :
        v = op[r].voice /\ n = op[r].node /\ name = op[r].name
  BY <1>1 DEF IInv, OpInv, OpAt, Busy, Loading
<1>4. rows[v].state = "absent" /\ v # Legacy
  BY <1>1, <1>3 DEF IInv, NewIdInv, LegacyInv
<1>5. CASE /\ ~NameTaken(op[r].name) /\ disk' = disk
           /\ rows' = [rows EXCEPT ![op[r].voice] =
                         [state |-> "active", name |-> op[r].name, blob |-> "fits"]]
  <2>1. rows' = [rows EXCEPT ![v] = [state |-> "active", name |-> name, blob |-> "fits"]]
    BY <1>3, <1>5
  <2>2. /\ Kept /\ rows'[v].state = "active" /\ rows'[v].name = name
        /\ \A w \in Voices : w # v => rows'[w] = rows[w]
    BY <1>1, <1>4, <2>1, Making, Unspoilt DEF IInv, Moves
  <2>3. RequestMoves(r)
    BY <1>1, <1>2, <1>5, <2>2 DEF RequestMoves, Moves, IInv, TypeOK
  <2>4. FilesSound
    BY <1>5 DEF FilesSound
  <2>5. NewIdInv'
    BY <1>2, <1>3, <2>2, <2>3, NoNewId
  <2>6. NameInv'
    <3>1. \A w \in Voices : rows[w].state # "absent" => rows[w].name # name
      BY <1>3, <1>5 DEF NameTaken
    <3> QED
      BY <2>2, <3>1 DEF IInv, NameInv
  <2> QED
    BY <1>2, <2>3, <2>4, <2>5, <2>6, RequestStep DEF Loading
<1>6. ASSUME rows' = rows, NEW ok \in BOOLEAN, Remove(op[r].node, op[r].voice, ok)
      PROVE  IInv'
  <2>1. TypeOK /\ Remove(n, v, ok)
    BY <1>3, <1>6 DEF IInv
  <2>2. /\ disk' \in [Nodes -> [Voices -> Sizes]]
        /\ disk'[n][v] = None \/ disk'[n][v] = disk[n][v]
        /\ \A k \in Nodes, w \in Voices : k # n \/ w # v => disk'[k][w] = disk[k][w]
    BY <2>1, Removes
  <2>5. Kept /\ NameInv' /\ \A w \in Voices : rows'[w] = rows[w]
    BY <1>1, <1>6, <2>1, SameRows, Unspoilt DEF StatesKept, IInv, NameInv, Moves
  <2>6. FilesSound
    <3>1. \A k \in Nodes : disk'[k][Legacy] = disk[k][Legacy]
      BY <1>4, <2>2, NoneIsOther
    <3>2. \A k \in Nodes, w \in Voices : disk'[k][w] # None => disk[k][w] # None
      BY <2>2
    <3>3. \A k \in Nodes : sync[k].gone \subseteq Voices
      BY <2>1 DEF TypeOK, SyncType
    <3> QED
      BY <3>1, <3>2, <3>3 DEF FilesSound
  <2>7. RequestMoves(r)
    BY <1>1, <1>2, <2>2, <2>5 DEF RequestMoves, Moves, IInv, TypeOK
  <2>8. NewIdInv'
    BY <1>2, <2>5, <2>7, NoNewId
  <2> QED
    BY <1>2, <2>5, <2>6, <2>7, <2>8, RequestStep DEF Loading
<1> QED
  BY <1>5, <1>6, CreateRowSteps DEF IInv

LEMMA FindKeeps ==
    ASSUME VoiceAssumption, IInv, NEW r \in Requests, NEW n \in Nodes, NEW v \in Voices,
           Find(r, n, v)
    PROVE  IInv'
<1>1. /\ op[r].pc = "new" /\ Active(v) /\ UNCHANGED <<rows, disk>>
      /\ \/ Moves(r, "found", n, v, None, rows[v].blob) /\ asked' = asked \cup {v}
         \/ Moves(r, "loading", n, v, None, rows[v].blob) /\ asked' = asked
  BY FindSteps DEF IInv
<1>2. /\ Kept /\ FilesSound /\ NameInv' /\ disk' \in [Nodes -> [Voices -> Sizes]]
      /\ \A w \in Voices : rows'[w] = rows[w]
  BY <1>1, SameFiles DEF Moves
<1>3. /\ op'[r].pc \in {"found", "loading"} /\ op'[r].node = n /\ op'[r].voice = v
      /\ op'[r].blob = rows[v].blob
      /\ op'[r].pc = "found" => v \in asked'
  BY <1>1 DEF Moves
<1>4. RequestMoves(r)
  BY <1>1, <1>2, <1>3 DEF RequestMoves, Moves, IInv, TypeOK
<1>5. OpAt(r)'
  BY <1>1, <1>3 DEF OpAt, Busy, Loading, Active, Stored
<1>6. NewIdInv'
  <2>1. rows[op'[r].voice].state # "absent"
    BY <1>1, <1>3 DEF Active
  <2> QED
    BY <1>2, <1>3, <1>4, <2>1, NoNewId
<1>7. \A m \in Nodes : \A w \in sync[m].gone : v # w
  BY <1>1 DEF Active, IInv, SweepInv, SweepAt
<1> QED
  BY <1>2, <1>3, <1>4, <1>5, <1>6, <1>7, RequestStep DEF Loading

LEMMA UnlinkKeeps ==
    ASSUME VoiceAssumption, IInv, NEW r \in Requests, Unlink(r)
    PROVE  IInv'
<1>1. /\ op[r].pc = "found" /\ UNCHANGED <<rows, asked>>
      /\ \E ok \in BOOLEAN : Remove(op[r].node, op[r].voice, ok)
      /\ Moves(r, "unlinked", op[r].node, op[r].voice, op[r].name, op[r].blob)
  BY DeleteSteps DEF IInv
<1>2. OpAt(r)
  BY DEF IInv, OpInv
<1>3. PICK v \in Voices, n \in Nodes : v = op[r].voice /\ n = op[r].node
  BY <1>1, <1>2 DEF OpAt, Busy, Loading
<1>4. PICK ok \in BOOLEAN : TypeOK /\ Remove(n, v, ok)
  BY <1>1, <1>3 DEF IInv
<1>5. /\ disk' \in [Nodes -> [Voices -> Sizes]]
      /\ disk'[n][v] = None \/ disk'[n][v] = disk[n][v]
      /\ \A k \in Nodes, w \in Voices : k # n \/ w # v => disk'[k][w] = disk[k][w]
  BY <1>4, Removes
<1>8. /\ op'[r].pc = "unlinked" /\ op'[r].node = op[r].node /\ op'[r].voice = op[r].voice
  BY <1>1 DEF Moves
<1>9. Kept /\ NameInv' /\ \A w \in Voices : rows'[w] = rows[w]
  BY <1>1, <1>4, SameRows, Unspoilt DEF StatesKept, IInv, NameInv, Moves
<1>10. RequestMoves(r)
  BY <1>1, <1>5, <1>8, <1>9 DEF RequestMoves, Moves, IInv, TypeOK
<1>11. OpAt(r)'
  BY <1>1, <1>2, <1>8 DEF OpAt, Busy, Loading
<1>12. FilesSound
  <2>1. \A k \in Nodes, w \in Voices : disk'[k][w] # None => disk[k][w] # None
    BY <1>5
  <2>2. \A k \in Nodes : sync[k].gone \subseteq Voices
    BY <1>4 DEF TypeOK, SyncType
  <2>3. v \in asked'
    BY <1>1, <1>2, <1>3 DEF OpAt
  <2>4. \A k \in Nodes : Legacy \notin asked' => disk'[k][Legacy] = disk[k][Legacy]
    <3>1. Legacy \notin asked' => Legacy # v
      BY <2>3
    <3> QED
      BY <1>5, <3>1, NoneIsOther
  <2>5. \A k \in Nodes : disk'[k][Legacy] # None => disk[k][Legacy] # None
    BY <2>1, NoneIsOther
  <2>6. \A k \in Nodes : \A w \in sync[k].gone : disk'[k][w] # None => disk[k][w] # None
    BY <2>1, <2>2
  <2> QED
    BY <2>4, <2>5, <2>6 DEF FilesSound
<1>13. NewIdInv'
  BY <1>8, <1>9, <1>10, NoNewId
<1> QED
  BY <1>8, <1>9, <1>10, <1>11, <1>12, <1>13, RequestStep DEF Loading

LEMMA SoftDeleteKeeps ==
    ASSUME VoiceAssumption, IInv, NEW r \in Requests, SoftDelete(r)
    PROVE  IInv'
<1>1. /\ op[r].pc = "unlinked" /\ UNCHANGED <<disk, asked>>
      /\ Moves(r, "over", None, None, None, None)
      /\ rows' = rows \/ rows' = [rows EXCEPT ![op[r].voice].state = "deleted"]
  BY DeleteSteps DEF IInv
<1>2. OpAt(r)' /\ op'[r].pc = "over" /\ op'[r].voice = None
  BY <1>1, OverAt
<1>3. PICK v \in Voices : v = op[r].voice /\ rows[v].state # "absent"
  BY <1>1 DEF IInv, OpInv, OpAt, Busy, Loading
<1>4. /\ Kept
      /\ \A w \in Voices : rows'[w].name = rows[w].name
      /\ \A w \in Voices : w # v => rows'[w] = rows[w]
  <2>0. Grows
    BY <1>1, Unspoilt DEF IInv, Moves
  <2>1. CASE rows' = rows
    BY <2>0, <2>1, SameRows DEF StatesKept, IInv
  <2>2. CASE rows' = [rows EXCEPT ![v].state = "deleted"]
    BY <1>3, <2>0, <2>2, Hiding DEF IInv
  <2> QED
    BY <1>1, <1>3, <2>1, <2>2
<1>5. RequestMoves(r)
  BY <1>1, <1>2, <1>4 DEF RequestMoves, Moves, IInv, TypeOK
<1>6. FilesSound
  BY <1>1 DEF FilesSound
<1>7. NameInv'
  BY <1>3, <1>4 DEF IInv, NameInv
<1>8. NewIdInv'
  BY <1>2, <1>3, <1>4, <1>5, NoNewId
<1> QED
  BY <1>2, <1>5, <1>6, <1>7, <1>8, RequestStep DEF Loading

LEMMA ReadFileKeeps ==
    ASSUME VoiceAssumption, IInv, NEW r \in Requests, ReadFile(r)
    PROVE  IInv'
<1>1. /\ op[r].pc = "loading" /\ UNCHANGED <<rows, disk, asked>>
      /\ \/ Moves(r, "over", None, None, None, None)
         \/ /\ disk[op[r].node][op[r].voice] = None /\ op[r].blob # None
            /\ Moves(r, "missed", op[r].node, op[r].voice, op[r].name, op[r].blob)
  BY LoadSteps DEF IInv
<1>2. /\ Kept /\ FilesSound /\ NameInv' /\ disk' \in [Nodes -> [Voices -> Sizes]]
      /\ \A w \in Voices : rows'[w] = rows[w]
  BY <1>1, SameFiles DEF Moves
<1>3. OpAt(r)
  BY DEF IInv, OpInv
<1>4. CASE Moves(r, "over", None, None, None, None)
  <2>1. OpAt(r)' /\ op'[r].pc = "over" /\ op'[r].voice = None
    BY <1>4, OverAt
  <2>2. RequestMoves(r)
    BY <1>1, <1>2, <1>4, <2>1 DEF RequestMoves, Moves, IInv, TypeOK
  <2>3. NewIdInv'
    BY <1>2, <2>1, <2>2, NoNewId
  <2> QED
    BY <1>2, <2>1, <2>2, <2>3, RequestStep DEF Loading
<1>5. CASE /\ op[r].blob # None
           /\ Moves(r, "missed", op[r].node, op[r].voice, op[r].name, op[r].blob)
  <2>1. /\ op'[r].pc = "missed" /\ op'[r].node = op[r].node /\ op'[r].voice = op[r].voice
        /\ op'[r].blob = op[r].blob
    BY <1>5 DEF Moves
  <2>2. RequestMoves(r)
    BY <1>1, <1>2, <1>5, <2>1 DEF RequestMoves, Moves, IInv, TypeOK
  <2>3. OpAt(r)'
    BY <1>1, <1>3, <1>5, <2>1 DEF OpAt, Busy, Loading, Stored, Moves
  <2>4. NewIdInv'
    BY <1>2, <2>1, <2>2, NoNewId
  <2>5. \A n \in Nodes : \A v \in sync[n].gone : op'[r].node = n => op'[r].voice # v
    <3> SUFFICES ASSUME NEW n \in Nodes, NEW v \in sync[n].gone, op[r].node = n
                 PROVE  op[r].voice # v
      BY <2>1
    <3>1. SweepAt(n) /\ op[r].pc = "loading"
      BY <1>1 DEF IInv, SweepInv
    <3> QED
      BY <3>1 DEF SweepAt, Loading
  <2> QED
    BY <1>2, <2>2, <2>3, <2>4, <2>5, RequestStep DEF Loading
<1> QED
  BY <1>1, <1>4, <1>5

\* A file that a load writes is one of a voice with a blob, which this node has not
\* seen deleted.
LEMMA CacheSound ==
    ASSUME VoiceAssumption, IInv, NEW r \in Requests, op[r].pc \in {"missed", "storing"},
           UNCHANGED <<rows, asked, spoilt>>,
           \/ Truncate(op[r].node, op[r].voice)
           \/ Write(op[r].node, op[r].voice, op[r].blob) \/ disk' = disk
    PROVE  /\ disk' \in [Nodes -> [Voices -> Sizes]] /\ FilesSound /\ Kept /\ NameInv'
<1>1. OpAt(r) /\ op[r].blob \in Sizes /\ op[r].blob # None /\ TypeOK
  BY DEF IInv, OpInv, TypeOK, OpType
<1>2. PICK v \in Voices, n \in Nodes, b \in Sizes :
        v = op[r].voice /\ n = op[r].node /\ b = op[r].blob
  BY <1>1 DEF OpAt, Busy
<1>3. Truncate(n, v) \/ Write(n, v, b) \/ disk' = disk
  BY <1>2
<1>4. /\ disk' \in [Nodes -> [Voices -> Sizes]]
      /\ disk[n][v] # None => disk'[n][v] # None
      /\ \A k \in Nodes, w \in Voices : k # n \/ w # v => disk'[k][w] = disk[k][w]
  <2>1. CASE Truncate(n, v)
    BY <1>1, <2>1, Truncates, NoneIsOther
  <2>2. CASE Write(n, v, b)
    BY <1>1, <1>2, <2>2, Writes
  <2>3. CASE disk' = disk
    BY <1>1, <2>3 DEF TypeOK
  <2> QED
    BY <1>3, <2>1, <2>2, <2>3
<1>5. Kept /\ NameInv'
  BY <1>1, SameRows, Unspoilt DEF StatesKept, IInv, NameInv
<1>6. FilesSound
  <2>1. v = Legacy => Stored
    BY <1>1, <1>2 DEF OpAt, Loading
  <2>2. \A w \in sync[n].gone : w # v
    BY <1>2 DEF IInv, SweepInv, SweepAt, Loading
  <2>3. \A k \in Nodes : sync[k].gone \subseteq Voices
    BY <1>1 DEF TypeOK, SyncType
  <2>4. \A k \in Nodes : Stored \/ disk'[k][Legacy] = disk[k][Legacy]
    BY <1>4, <2>1, NoneIsOther
  <2>5. \A k \in Nodes : \A w \in sync[k].gone : disk'[k][w] # None => disk[k][w] # None
    BY <1>4, <2>2, <2>3
  <2>6. \A k \in Nodes : disk[k][Legacy] # None => disk'[k][Legacy] # None
    BY <1>4, NoneIsOther
  <2> QED
    BY <2>4, <2>5, <2>6 DEF FilesSound
<1> QED
  BY <1>4, <1>5, <1>6

LEMMA WriteThroughKeeps ==
    ASSUME VoiceAssumption, IInv, NEW r \in Requests, WriteThrough(r) \/ Store(r)
    PROVE  IInv'
<1>1. /\ op[r].pc \in {"missed", "storing"} /\ UNCHANGED <<rows, asked>>
      /\ \/ Truncate(op[r].node, op[r].voice)
         \/ Write(op[r].node, op[r].voice, op[r].blob) \/ disk' = disk
      /\ \/ Moves(r, "storing", op[r].node, op[r].voice, op[r].name, op[r].blob)
         \/ Moves(r, "over", None, None, None, None)
  BY LoadSteps DEF IInv
<1>2. OpAt(r) /\ op[r].blob # None
  BY <1>1 DEF IInv, OpInv, TypeOK
<1>3. spoilt' = spoilt
  BY <1>1 DEF Moves
<1>4. disk' \in [Nodes -> [Voices -> Sizes]] /\ FilesSound /\ Kept /\ NameInv'
  BY <1>1, <1>3, CacheSound
<1>5. CASE Moves(r, "over", None, None, None, None)
  <2>1. OpAt(r)' /\ op'[r].pc = "over" /\ op'[r].voice = None
    BY <1>5, OverAt
  <2>2. RequestMoves(r)
    BY <1>1, <1>4, <1>5, <2>1 DEF RequestMoves, Moves, IInv, TypeOK
  <2>3. NewIdInv'
    BY <1>1, <2>1, <2>2, NoNewId
  <2> QED
    BY <1>4, <2>1, <2>2, <2>3, RequestStep DEF Loading
<1>6. CASE Moves(r, "storing", op[r].node, op[r].voice, op[r].name, op[r].blob)
  <2>1. /\ op'[r].pc = "storing" /\ op'[r].node = op[r].node /\ op'[r].voice = op[r].voice
        /\ op'[r].blob = op[r].blob
    BY <1>6 DEF Moves
  <2>2. RequestMoves(r)
    BY <1>1, <1>2, <1>4, <1>6, <2>1 DEF RequestMoves, Moves, IInv, TypeOK
  <2>3. OpAt(r)'
    BY <1>1, <1>2, <1>3, <2>1 DEF OpAt, Busy, Loading, Stored
  <2>4. NewIdInv'
    BY <1>1, <2>1, <2>2, NoNewId
  <2>5. \A n \in Nodes : \A v \in sync[n].gone : op'[r].node = n => op'[r].voice # v
    <3> SUFFICES ASSUME NEW n \in Nodes, NEW v \in sync[n].gone, op[r].node = n
                 PROVE  op[r].voice # v
      BY <2>1
    <3>1. SweepAt(n)
      BY DEF IInv, SweepInv
    <3> QED
      BY <1>1, <3>1 DEF SweepAt, Loading
  <2> QED
    BY <1>4, <2>2, <2>3, <2>4, <2>5, RequestStep
<1> QED
  BY <1>1, <1>5, <1>6

-----------------------------------------------------------------------------
(* Boots, the first states, and the theorems                                 *)

LEMMA BootKeeps ==
    ASSUME VoiceAssumption, IInv, NEW n \in Nodes, Boot(n)
    PROVE  IInv'
<1>0. At(n, "truncate") => sync[n].cur.voice \in Voices
  BY DEF IInv, PassInv, PassAt, InHand, At
<1>1. /\ boots < MaxBoots /\ boots' = boots + 1 /\ UNCHANGED <<rows, disk, asked>>
      /\ op' = [r \in Requests |-> IF op[r].node = n THEN Over ELSE op[r]]
      /\ sync' = [sync EXCEPT ![n] = Booting]
  BY DEF Boot
<1>2. /\ Over \in OpType /\ Over.pc = "over" /\ Over.node = None /\ Over.voice = None
      /\ Over.name = None /\ Over.blob = None
  BY DEF Over, New, OpType, Sizes
<1>3. /\ Booting \in SyncType /\ Booting.pc = "boot" /\ Booting.todo = {} /\ Booting.listed = {}
      /\ Booting.gone = {v \in Voices : rows[v].state = "deleted"}
  BY DEF Booting, SyncType, NoVoice, Sizes
<1> HIDE DEF Over, Booting
<1>4. \A r \in Requests : op'[r] = op[r] \/ (op'[r] = Over /\ op[r].node = n)
  BY <1>1
<1>5. \A r \in Requests : op'[r].node # n \/ op'[r].pc = "over"
  BY <1>1, <1>2, NoneIsOther
<1>6. sync' \in [Nodes -> SyncType] /\ sync'[n] = Booting /\ \A m \in Nodes : m # n => sync'[m] = sync[m]
  BY <1>1, <1>3 DEF IInv, TypeOK
<1>15. Grows /\ (Cutting(n) => Legacy \in spoilt')
  BY <1>0 DEF Boot, Grows, IInv, TypeOK, Cutting
<1>16. (Stored => Stored') /\ \A m \in Nodes : m # n => Cutting(m)' = Cutting(m)
  BY <1>1, <1>6, <1>15 DEF Stored, Grows, Cutting, At
<1>7. TypeOK'
  <2>1. op' \in [Requests -> OpType]
    BY <1>1, <1>2 DEF IInv, TypeOK
  <2>2. boots' \in 0..MaxBoots
    BY <1>1, NoneIsOther DEF IInv, TypeOK
  <2>3. \A r \in Requests : op'[r].pc \in {"missed", "storing"} => op'[r].blob # None
    BY <1>2, <1>4 DEF IInv, TypeOK
  <2> QED
    BY <1>1, <1>6, <1>15, <2>1, <2>2, <2>3 DEF IInv, TypeOK, Grows
<1>8. OpInv'
  <2> SUFFICES ASSUME NEW r \in Requests
               PROVE  OpAt(r)'
    BY DEF OpInv
  <2>1. CASE op'[r] = op[r]
    BY <1>1, <1>16, <2>1 DEF IInv, OpInv, OpAt, Busy, Loading
  <2>2. CASE op'[r] = Over
    BY <1>2, <2>2 DEF OpAt, Busy, Loading
  <2> QED
    BY <1>4, <2>1, <2>2
<1>9. NewIdInv'
  <2> SUFFICES ASSUME NEW p \in Requests, op'[p].pc = "written"
               PROVE  /\ rows'[op'[p].voice].state = "absent"
                      /\ \A q \in Requests : q # p => op'[q].voice # op'[p].voice
    BY DEF NewIdInv
  <2>1. op'[p] = op[p]
    BY <1>2, <1>4
  <2>2. op[p].voice \in Voices
    BY <2>1 DEF IInv, OpInv, OpAt, Busy, Loading
  <2>3. \A q \in Requests : q # p => op[q].voice # op[p].voice
    BY <2>1 DEF IInv, NewIdInv
  <2> QED
    BY <1>1, <1>2, <1>4, <2>1, <2>2, <2>3, NoneIsOther DEF IInv, NewIdInv
<1>10. NameInv' /\ LegacyInv'
  BY <1>1, <1>15 DEF IInv, NameInv, LegacyInv, Grows
<1>11. PassInv'
  <2> SUFFICES ASSUME NEW m \in Nodes
               PROVE  PassAt(m)'
    BY DEF PassInv
  <2>1. CASE m = n
    BY <1>3, <1>6, <2>1 DEF PassAt, InHand, At
  <2>2. CASE m # n
    <3>1. PassAt(m) /\ sync'[m] = sync[m]
      BY <1>6, <2>2 DEF IInv, PassInv
    <3> QED
      BY <1>1, <1>16, <3>1 DEF PassAt, InHand, At, Known, Active, Oversize
  <2> QED
    BY <2>1, <2>2
<1>12. RepairInv'
  <2> SUFFICES ASSUME NEW m \in Nodes
               PROVE  RepairAt(m)'
    BY DEF RepairInv
  <2>1. CASE m = n
    BY <1>3, <1>6, <2>1 DEF RepairAt, InHand, At
  <2>2. CASE m # n
    <3>1. RepairAt(m) /\ sync'[m] = sync[m]
      BY <1>6, <2>2 DEF IInv, RepairInv
    <3> QED
      BY <1>1, <1>15, <1>16, <3>1 DEF RepairAt, Settled, InHand, At, Active, Grows
  <2> QED
    BY <2>1, <2>2
<1>13. SweepInv'
  <2> SUFFICES ASSUME NEW m \in Nodes
               PROVE  SweepAt(m)'
    BY DEF SweepInv
  <2>1. CASE m = n
    BY <1>1, <1>3, <1>5, <1>6, <2>1 DEF SweepAt, InHand, At, Loading
  <2>2. CASE m # n
    <3>1. SweepAt(m) /\ sync'[m] = sync[m]
      BY <1>6, <2>2 DEF IInv, SweepInv
    <3>2. \A v \in sync[m].gone, r \in Requests :
             op'[r].node = m /\ op'[r].pc \in Loading => op'[r].voice # v
      BY <1>2, <1>4, <3>1 DEF SweepAt, Loading
    <3> QED
      BY <1>1, <3>1, <3>2 DEF SweepAt, InHand, At
  <2> QED
    BY <2>1, <2>2
<1>14. ASSUME "count" \notin Faults
       PROVE  KeepInv'
  <2>1. KeepInv
    BY <1>14 DEF IInv
  <2>2. ~Cutting(n)'
    BY <1>3, <1>6 DEF Cutting, At
  <2>3. \A m \in Nodes : At(m, "unlink")' /\ sync'[m].cur.voice = Legacy => ~Active(Legacy)'
    BY <1>1, <1>3, <1>6, <2>1 DEF KeepInv, At, Active
  <2>4. Active(Legacy)' /\ Legacy \notin asked' =>
          \A m \in Nodes : Cutting(m)' => disk'[m][Legacy] # None
    BY <1>1, <1>16, <2>1, <2>2 DEF KeepInv, Active
  <2>5. Active(Legacy)' /\ Legacy \notin asked' \cup spoilt' =>
          rows'[Legacy].blob # None \/ \E m \in Nodes : disk'[m][Legacy] \in Whole \/ Cutting(m)'
    BY <1>1, <1>15, <1>16, <2>1, <2>2 DEF KeepInv, Active, Grows
  <2> QED
    BY <2>3, <2>4, <2>5 DEF KeepInv
<1> QED
  BY <1>7, <1>8, <1>9, <1>10, <1>11, <1>12, <1>13, <1>14 DEF IInv

LEMMA InitInv ==
    ASSUME VoiceAssumption, Init
    PROVE  IInv
<1>1. PICK b \in {None, "over"}, name \in Names :
        rows = [v \in Voices |-> IF v = Legacy THEN [state |-> "active", name |-> name, blob |-> b]
                                 ELSE [state |-> "absent", name |-> None, blob |-> None]]
  BY DEF Init
<1>2. PICK S \in SUBSET Nodes, size \in {"fits", "over"} :
        /\ rows[Legacy].blob = "over" => size = "over"
        /\ rows[Legacy].blob = None => S # {}
        /\ disk = [n \in Nodes |-> [v \in Voices |-> IF v = Legacy /\ n \in S THEN size ELSE None]]
  BY DEF Init
<1>3. sync \in [Nodes -> {Booting, [Booting EXCEPT !.pc = "done"]}]
  BY DEF Init
<1>4. op \in [Requests -> {New, Over}] /\ boots = 0 /\ asked = {} /\ spoilt = {}
  BY DEF Init
<1>5. /\ rows[Legacy] = [state |-> "active", name |-> name, blob |-> b]
      /\ \A v \in Voices : v # Legacy => rows[v] = [state |-> "absent", name |-> None, blob |-> None]
  BY <1>1, NoneIsOther
<1>6. rows \in [Voices -> Row]
  BY <1>1 DEF Row, Sizes, Whole
<1>7. /\ New \in OpType /\ New.pc = "new" /\ New.voice = None
      /\ Over \in OpType /\ Over.pc = "over" /\ Over.voice = None
  BY DEF Over, New, OpType, Sizes
<1>8. \A m \in Nodes : /\ sync[m] \in SyncType /\ sync[m].pc \in {"boot", "done"}
                       /\ sync[m].todo = {} /\ sync[m].files = {} /\ sync[m].listed = {}
                       /\ sync[m].gone = {}
  <2>1. {v \in Voices : rows[v].state = "deleted"} = {}
    BY <1>5
  <2>2. /\ Booting \in SyncType /\ Booting.pc = "boot" /\ Booting.todo = {} /\ Booting.listed = {}
        /\ Booting.files = {} /\ Booting.gone = {}
    BY <2>1 DEF Booting, SyncType, NoVoice, Sizes
  <2> DEFINE d == [Booting EXCEPT !.pc = "done"]
  <2> HIDE DEF Booting
  <2>3. /\ d \in SyncType /\ d.pc = "done" /\ d.todo = {} /\ d.listed = {}
        /\ d.files = {} /\ d.gone = {}
    BY <2>2 DEF SyncType
  <2> HIDE DEF d
  <2>4. \A m \in Nodes : sync[m] = Booting \/ sync[m] = d
    BY <1>3 DEF d
  <2> QED
    BY <2>2, <2>3, <2>4
<1>9. sync \in [Nodes -> SyncType]
  BY <1>3, <1>8
<1>10. disk \in [Nodes -> [Voices -> Sizes]]
  BY <1>2 DEF Sizes, Whole
<1>11. TypeOK
  <2>1. boots \in 0..MaxBoots
    BY <1>4, NoneIsOther
  <2> QED
    BY <1>4, <1>5, <1>6, <1>7, <1>9, <1>10, <2>1 DEF TypeOK
<1> HIDE DEF New, Over
<1>12. OpInv /\ NewIdInv
  <2>1. \A r \in Requests : op[r] = New \/ op[r] = Over
    BY <1>4
  <2> QED
    BY <1>7, <2>1 DEF OpInv, OpAt, NewIdInv, Busy, Loading
<1>13. NameInv /\ LegacyInv
  BY <1>5, NoneIsOther DEF NameInv, LegacyInv
<1>14. PassInv /\ RepairInv
  BY <1>8 DEF PassInv, PassAt, RepairInv, RepairAt, InHand, At
<1>15. SweepInv
  BY <1>8 DEF SweepInv, SweepAt
<1>16. KeepInv
  <2>1. \A m \in Nodes : ~At(m, "unlink")
    BY <1>8 DEF At
  <2>2. rows[Legacy].blob # None \/ \E m \in Nodes : disk[m][Legacy] \in Whole
    BY <1>2, NoneIsOther DEF Whole
  <2>3. \A m \in Nodes : ~Cutting(m)
    BY <1>8 DEF Cutting, At
  <2> QED
    BY <2>1, <2>2, <2>3 DEF KeepInv
<1> QED
  BY <1>11, <1>12, <1>13, <1>14, <1>15, <1>16 DEF IInv

\* The conjuncts of IInv hold in the first states and no action breaks one: the
\* argument behind the theorems below.
THEOREM Invariance == Spec => []IInv
<1> USE VoiceAssumption
<1>1. Init => IInv
  BY InitInv
<1>2. IInv /\ [Next]_vars => IInv'
  <2> SUFFICES ASSUME IInv, [Next]_vars
               PROVE  IInv'
    OBVIOUS
  <2>1. ASSUME NEW r \in Requests, Request(r)
        PROVE  IInv'
    BY <2>1, CloneKeeps, FindKeeps, CloneVoiceKeeps, CreateRowKeeps, UnlinkKeeps, SoftDeleteKeeps,
       ReadFileKeeps, WriteThroughKeeps DEF Request
  <2>2. ASSUME NEW n \in Nodes, SyncVoiceStorage(n)
        PROVE  IInv'
    BY <2>2, ListKeeps, ReadVoiceKeeps, RepairKeeps, RepairFileKeeps, RewriteKeeps, FillKeeps,
       FillFileKeeps, ReadDirKeeps, CountRowsKeeps, RemoveOrphanKeeps, SyncDoneKeeps
       DEF SyncVoiceStorage
  <2>3. ASSUME NEW n \in Nodes, Boot(n)
        PROVE  IInv'
    BY <2>3, BootKeeps
  <2>4. CASE UNCHANGED vars
    BY <2>4 DEF vars, history, IInv, TypeOK, OpInv, OpAt, NewIdInv, NameInv, LegacyInv, PassInv,
       PassAt, RepairInv, RepairAt, SweepInv, SweepAt, KeepInv, InHand, At, Known, Active, Settled,
       Stored, Cutting
  <2> QED
    BY <2>1, <2>2, <2>3, <2>4 DEF Next
<1> QED
  BY <1>1, <1>2, PTL DEF Spec

\* Rows, files, requests and passes have their types, and a row of this version has a
\* blob that fits from the start (voices.go).
THEOREM TypeCorrect == Spec => []TypeOK
<1>1. IInv => TypeOK
  BY DEF IInv
<1> QED
  BY <1>1, Invariance, PTL

\* Unless the sweep's count can fail, the voices a listing shows have names of their
\* own, and each has its whole embedding somewhere until its deletion is asked for,
\* whatever clones, deletions, passes, failing writes and restarts meet; but for the
\* voice whose truncation in place was cut short, or of which a backfill read a file
\* being written (cloneVoiceCore, SyncVoiceStorage).
THEOREM ListingIsUsable ==
    ASSUME "count" \notin Faults
    PROVE  Spec => []ListedIsUsable
<1> USE VoiceAssumption
<1>1. IInv => ListedIsUsable
  <2> SUFFICES ASSUME IInv
               PROVE  ListedIsUsable
    OBVIOUS
  <2>1. NameUnique
    BY DEF IInv, NameInv, NameUnique, Active
  <2>2. DataKept
    <3> SUFFICES ASSUME NEW v \in Voices, Active(v), v \notin asked \cup spoilt
                 PROVE  \/ rows[v].blob \in Whole
                        \/ \E n \in Nodes : disk[n][v] \in Whole
                        \/ InMemory(v)
      BY DEF DataKept
    <3>1. CASE v = Legacy
      <4>1. rows[Legacy].blob # None \/ \E n \in Nodes : disk[n][Legacy] \in Whole \/ Cutting(n)
        BY <3>1 DEF IInv, KeepInv
      <4>2. rows[Legacy].blob \in Sizes /\ rows[Legacy].blob # "cut"
        BY <3>1, NoneIsOther DEF IInv, LegacyInv, TypeOK, Row
      <4> QED
        BY <3>1, <4>1, <4>2 DEF InMemory, Cutting, Sizes
    <3>2. CASE v # Legacy
      BY <3>2, NoneIsOther DEF IInv, TypeOK, Active, Whole
    <3> QED
      BY <3>1, <3>2
  <2> QED
    BY <2>1, <2>2 DEF ListedIsUsable
<1> QED
  BY <1>1, Invariance, PTL

\* A pass that reports no failure leaves no voice it listed with a blob the loader
\* rejects or with its data on this disk alone, whatever deletes and loads meanwhile,
\* save one spoilt by a write cut short (SyncVoiceStorage).
THEOREM PassRepairs == Spec => []SyncRepairs
<1> USE VoiceAssumption
<1>1. IInv => SyncRepairs
  <2> SUFFICES ASSUME IInv, NEW n \in Nodes, At(n, "done"), ~sync[n].failed,
                      NEW v \in sync[n].listed \ spoilt, rows[v].state = "active"
               PROVE  rows[v].blob # "over" /\ (rows[v].blob = None => disk[n][v] = None)
    BY DEF SyncRepairs
  <2>1. v \in Voices
    BY DEF IInv, TypeOK, SyncType
  <2>2. CASE v = Legacy
    <3>1. sync[n].todo = {} /\ RepairAt(n)
      BY DEF IInv, PassInv, PassAt, RepairInv, At
    <3>2. Settled(n)
      BY <2>2, <3>1 DEF RepairAt, InHand, At
    <3> QED
      BY <2>2, <3>2 DEF Settled, Active
  <2>3. CASE v # Legacy
    BY <2>1, <2>3, NoneIsOther DEF IInv, TypeOK
  <2> QED
    BY <2>2, <2>3
<1> QED
  BY <1>1, Invariance, PTL

\* A voice deleted before a node came up has no file there once the pass is over, and
\* gets none again, but for a file the sweep could not look for or remove
\* (sweepOrphanedVoiceFiles against LoadVoiceData's write-through).
THEOREM SweptStaysGone == Spec => []SweptStayGone
<1>1. IInv => SweptStayGone
  BY DEF IInv, SweepInv, SweepAt, SweptStayGone, At
<1> QED
  BY <1>1, Invariance, PTL

-----------------------------------------------------------------------------
(* Speech                                                                  *)

\* What the request promises of the voice and the backend that speak.
Right(voice, backend) ==
    /\ ask.stored = "no" /\ ~ask.ref =>
          /\ ask.voice \in SP!Backends => voice = ask.voice /\ backend = ask.voice
          /\ ask.voice = "alias" => voice = "pocket"
          /\ ask.voice # "unknown"
          /\ ~SP!Streams /\ ask.model # "other" => backend = ask.model
    /\ ask.stored = "found" /\ ask.endpoint # "tts" /\ ~SP!Streams => voice = "embedding"

\* The call says what was asked for, in every dialect.
Elevenlabs == ask.endpoint \in {"elevenlabs", "elevenlabs_stream"}

CallInv ==
    /\ ask.stored = "no" /\ ~ask.ref =>
          /\ ~call.data /\ ~call.ref
          /\ \/ call.voice = ask.voice
             \/ ask.voice = "alias" /\ call.voice = "pocket" /\ call.backend = "pocket"
          /\ ask.endpoint = "tts" => call.backend = ""
          /\ ask.endpoint = "openai" => call.backend = SP!openAIModelToBackend
          /\ Elevenlabs => call.backend = SP!elevenLabsModelToBackend
    /\ ask.stored = "found" /\ Elevenlabs =>
          call.data /\ call.voice = "default" /\ call.backend # ""

SpeechInv ==
    /\ ask \in SP!Asks /\ engines \subseteq SP!Backends
    /\ default \in [gateway : SP!Backends, sidecar : SP!Backends]
    /\ answers \in Seq(Nat)
    /\ stage \in {"validate", "build"} => answers = <<>>
    /\ stage = "synthesize" => CallInv
    /\ stage # "over" => ~SP!Answered(200)
    /\ stage = "transcode" \/ SP!Answered(200) => Right(heard.voice, heard.backend)

LEMMA AskTyped ==
    ASSUME SpeechInv
    PROVE  /\ ask.endpoint \in SP!Batch \cup {"elevenlabs_stream"}
           /\ ask.voice \in {"default", "pocket", "kokoro", "alias", "unknown"}
           /\ ask.model \in SP!Backends \cup {"other"}
           /\ ask.stored \in {"no", "found", "missing"} /\ ask.ref \in BOOLEAN
           /\ ask.endpoint = "tts" => ask.model = "other" /\ ask.format = "wav"
           /\ ask.endpoint = "openai" => ask.stored = "no"
           /\ default.gateway \in SP!Backends /\ default.sidecar \in SP!Backends
BY DEF SpeechInv, SP!Asks

LEMMA Answering ==
    ASSUME SpeechInv, NEW n \in Nat, SP!Answer(n)
    PROVE  (answers \in Seq(Nat))' /\ (SP!Answered(200)' <=> n = 200)
<1>1. answers \in Seq(Nat) /\ answers' = Append(answers, n)
  BY DEF SpeechInv, SP!Answer
<1>2. answers' \in Seq(Nat) /\ answers' # <<>> /\ answers'[Len(answers')] = n
  BY <1>1
<1> QED
  BY <1>2 DEF SP!Answered

\* What the sidecar speaks is right, if it speaks.
LEMMA ResolveRight ==
    ASSUME NEW voice, NEW backend, NEW explicit \in BOOLEAN,
           NEW r, r = SP!Resolve(voice, backend, explicit), r.status = 200
    PROVE  \/ voice = "default" /\ r.voice = "default" /\ r.backend = backend
           \/ /\ voice \in SP!Backends /\ r.voice = voice /\ r.backend = voice
              /\ explicit => backend = voice
<1>1. CASE voice = "default"
  BY <1>1 DEF SP!Resolve, SP!Ok
<1>2. CASE voice # "default" /\ voice \notin SP!Backends
  BY <1>2 DEF SP!Resolve, SP!Abort
<1>3. CASE voice # "default" /\ voice \in SP!Backends /\ voice # backend /\ explicit
  BY <1>3 DEF SP!Resolve, SP!Abort
<1>4. CASE /\ voice # "default" /\ voice \in SP!Backends /\ ~(voice # backend /\ explicit)
           /\ voice = "kokoro" /\ "kokoro" \notin engines
  BY <1>4 DEF SP!Resolve, SP!Abort
<1>5. CASE /\ voice # "default" /\ voice \in SP!Backends /\ ~(voice # backend /\ explicit)
           /\ ~(voice = "kokoro" /\ "kokoro" \notin engines)
  BY <1>5 DEF SP!Resolve, SP!Ok
<1> QED
  BY <1>1, <1>2, <1>3, <1>4, <1>5

LEMMA SpeakRight ==
    ASSUME NEW r, NEW voice, NEW a \in SP!Speak(r, voice), a.status = 200
    PROVE  r.status = 200 /\ a.backend = r.backend /\ a.voice = voice
<1>1. r.status = 200
  BY DEF SP!Speak
<1>2. r.backend \in engines
  BY <1>1 DEF SP!Speak, SP!Abort
<1>3. a \in {SP!Ok(r.backend, voice), SP!Abort(422), SP!Abort(500)}
  BY <1>1, <1>2 DEF SP!Speak
<1> QED
  BY <1>1, <1>3 DEF SP!Ok, SP!Abort

\* The synthesis of the batch endpoints.
LEMMA SynthesizeRight ==
    ASSUME SpeechInv, CallInv, ~SP!Streams, NEW r \in SP!Synthesize, r.status = 200
    PROVE  Right(r.voice, r.backend)
<1> DEFINE backend == IF call.backend = "" THEN default.sidecar ELSE call.backend
<1> DEFINE Resolved == SP!Resolve(call.voice, backend, call.backend # "")
           Voice == IF Resolved.backend = "pocket" /\ call.data THEN "embedding"
                    ELSE IF Resolved.backend = "pocket" /\ call.ref THEN "reference"
                    ELSE Resolved.voice
<1>1. r \notin {SP!Abort(422)}
  BY DEF SP!Abort
<1>2. ~((call.data \/ call.ref) /\ backend # "pocket") /\ r \in SP!Speak(Resolved, Voice)
  BY <1>1, Zenon DEF SP!Synthesize
<1> HIDE DEF Resolved, Voice
<1>3. PICK res : res = Resolved
  OBVIOUS
<1>4. PICK voice : voice = Voice
  OBVIOUS
<1>5. voice = IF res.backend = "pocket" /\ call.data THEN "embedding"
              ELSE IF res.backend = "pocket" /\ call.ref THEN "reference"
              ELSE res.voice
  BY <1>3, <1>4 DEF Voice
<1>6. r \in SP!Speak(res, voice)
  BY <1>2, <1>3, <1>4, Zenon
<1>7. res.status = 200 /\ r.backend = res.backend /\ r.voice = voice
  BY <1>6, SpeakRight
<1>8. PICK explicit \in BOOLEAN : explicit = (call.backend # "")
  OBVIOUS
<1>9. res = SP!Resolve(call.voice, backend, explicit)
  BY <1>3, <1>8, Zenon DEF Resolved
<1> HIDE DEF backend
<1>10. \/ call.voice = "default" /\ res.voice = "default" /\ res.backend = backend
      \/ /\ call.voice \in SP!Backends /\ res.voice = call.voice /\ res.backend = call.voice
         /\ explicit => backend = call.voice
  BY <1>7, <1>9, ResolveRight
<1> USE DEF backend
<1>11. CASE ask.stored = "no" /\ ~ask.ref
  <2>1. voice = res.voice
    BY <1>11, <1>5 DEF CallInv
  <2>2. CASE call.voice = ask.voice
    <3>1. ask.voice \in SP!Backends => res.voice = ask.voice /\ res.backend = ask.voice
      BY <1>10, <2>2 DEF SP!Backends
    <3>2. ask.voice \notin {"alias", "unknown"}
      BY <1>10, <2>2 DEF SP!Backends
    <3>3. ask.model # "other" => call.backend = ask.model /\ call.backend # ""
      <4>1. ask.endpoint = "tts" \/ ask.endpoint = "openai" \/ Elevenlabs
        BY AskTyped DEF Elevenlabs, SP!Batch
      <4> QED
        BY <1>11, <4>1, AskTyped DEF CallInv, SP!openAIModelToBackend,
           SP!elevenLabsModelToBackend, SP!Backends
    <3>4. ask.model # "other" => res.backend = ask.model
      BY <1>10, <1>8, <3>3
    <3> QED
      BY <1>7, <1>11, <2>1, <3>1, <3>2, <3>4 DEF Right
  <2>3. CASE ask.voice = "alias" /\ call.voice = "pocket" /\ call.backend = "pocket"
    <3>1. res.voice = "pocket" /\ res.backend = "pocket"
      BY <1>10, <2>3
    <3>2. ask.model # "other" => ask.model = "pocket"
      <4>1. ask.endpoint = "tts" \/ ask.endpoint = "openai" \/ Elevenlabs
        BY AskTyped DEF Elevenlabs, SP!Batch
      <4> QED
        BY <1>11, <2>3, <4>1, AskTyped DEF CallInv, SP!openAIModelToBackend,
           SP!elevenLabsModelToBackend, SP!Backends
    <3> QED
      BY <1>7, <1>11, <2>1, <2>3, <3>1, <3>2 DEF Right, SP!Backends
  <2> QED
    BY <1>11, <2>2, <2>3 DEF CallInv
<1>12. CASE ask.stored = "found" /\ ask.endpoint # "tts"
  <2>1. Elevenlabs
    BY <1>12, AskTyped DEF Elevenlabs, SP!Batch
  <2>2. call.data /\ call.voice = "default"
    BY <1>12, <2>1 DEF CallInv
  <2>3. res.backend = "pocket"
    BY <1>2, <1>10, <2>2 DEF SP!Backends
  <2> QED
    BY <1>7, <1>12, <1>5, <2>2, <2>3 DEF Right
<1> QED
  BY <1>11, <1>12 DEF Right

\* The streamed synthesis.
LEMMA StreamRight ==
    ASSUME SpeechInv, CallInv, SP!Streams, NEW r \in SP!SynthesizeStream, r.status = 200
    PROVE  Right(r.voice, r.backend)
<1> DEFINE res == SP!Resolve(call.voice, "pocket", FALSE)
<1>1. r.backend = res.backend /\ r.voice = res.voice
  BY DEF SP!SynthesizeStream, SP!Resolve, SP!Speak, SP!Ok, SP!Abort
<1>2. \/ call.voice = "default" /\ res.voice = "default" /\ res.backend = "pocket"
      \/ /\ call.voice \in SP!Backends /\ res.voice = call.voice /\ res.backend = call.voice
  BY DEF SP!SynthesizeStream, SP!Resolve, SP!Speak, SP!Ok, SP!Abort
<1> HIDE DEF res
<1>3. CASE ask.stored = "no" /\ ~ask.ref
  BY <1>1, <1>2, <1>3, AskTyped DEF CallInv, Right, SP!Backends
<1> QED
  BY <1>3 DEF Right

LEMMA OpenAIBuilds == ASSUME SpeechInv, SP!BuildOpenAI PROVE CallInv'
<1>1. /\ call'.voice = SP!openAIVoiceToPocket /\ call'.backend = SP!openAIModelToBackend
      /\ ~call'.data /\ ~call'.ref
  BY DEF SP!BuildOpenAI, SP!NoCall
<1>2. ask' = ask /\ default' = default /\ ask.endpoint = "openai" /\ ask.stored = "no"
  BY AskTyped DEF SP!BuildOpenAI, SP!fixed
<1>3. SP!openAIModelToBackend' = SP!openAIModelToBackend
  BY <1>2 DEF SP!openAIModelToBackend
<1>4. \/ call'.voice = ask.voice
      \/ ask.voice = "alias" /\ call'.voice = "pocket" /\ call'.backend = "pocket"
  BY <1>1 DEF SP!openAIVoiceToPocket
<1> QED
  BY <1>1, <1>2, <1>3, <1>4 DEF CallInv, Elevenlabs

LEMMA NativeBuilds == ASSUME SpeechInv, SP!BuildNative, stage' = "synthesize" PROVE CallInv'
<1>1. /\ call'.voice = ask.voice /\ call'.data = (ask.stored = "found")
      /\ call'.ref = (ask.ref /\ ask.stored # "found") /\ call'.backend = ""
  BY DEF SP!BuildNative, SP!NoCall
<1>2. ask' = ask /\ ask.endpoint = "tts"
  BY DEF SP!BuildNative, SP!fixed
<1> QED
  BY <1>1, <1>2 DEF CallInv, Elevenlabs

LEMMA ElevenLabsBuilds == ASSUME SpeechInv, SP!BuildElevenLabs PROVE CallInv'
<1>1. ask' = ask /\ default' = default /\ Elevenlabs
  BY DEF SP!BuildElevenLabs, SP!fixed, Elevenlabs
<1>2. CASE ask.stored = "found"
  <2>1. call'.voice = "default" /\ call'.data /\ call'.backend # ""
    BY <1>2 DEF SP!BuildElevenLabs
  <2> QED
    BY <1>1, <1>2, <2>1 DEF CallInv, Elevenlabs
<1>3. CASE ask.stored # "found"
  <2>1. /\ call'.voice = ask.voice /\ ~call'.data /\ ~call'.ref
        /\ call'.backend = SP!elevenLabsModelToBackend
    BY <1>3 DEF SP!BuildElevenLabs, SP!NoCall
  <2>2. SP!elevenLabsModelToBackend' = SP!elevenLabsModelToBackend
    BY <1>1 DEF SP!elevenLabsModelToBackend
  <2> QED
    BY <1>1, <1>3, <2>1, <2>2 DEF CallInv, Elevenlabs
<1> QED
  BY <1>2, <1>3

\* Whatever is called: only what is right is heard.
LEMMA CalledRight ==
    ASSUME SpeechInv, NEW results, SP!Called(results),
           \A r \in results : r.status = 200 => Right(r.voice, r.backend),
           \A r \in results : r.status \in Nat
    PROVE  SpeechInv'
<1> PICK r \in results \cup {SP!Abort(0)} :
      /\ said' = r.status
      /\ IF r.status = 200
         THEN /\ heard' = [voice |-> r.voice, backend |-> r.backend]
              /\ IF ask.format = "coded" THEN stage' = "transcode" /\ UNCHANGED answers
                 ELSE stage' = "over" /\ SP!Answer(200)
         ELSE SP!Answer(SP!Forward(r.status)) /\ stage' = "over" /\ UNCHANGED heard
  BY DEF SP!Called
<1>1. stage = "synthesize" /\ UNCHANGED <<ask, engines, default, call>>
  BY DEF SP!Called, SP!fixed
<1>2. /\ (ask \in SP!Asks)' /\ (engines \subseteq SP!Backends)'
      /\ (default \in [gateway : SP!Backends, sidecar : SP!Backends])'
  BY <1>1 DEF SpeechInv, SP!Asks, SP!Backends, SP!Batch
<1>3. Right(heard.voice, heard.backend)' <=> Right(heard'.voice, heard'.backend)
  BY <1>1 DEF Right, SP!Streams
<1>4. CASE r.status = 200
  <2>1. Right(r.voice, r.backend)
    BY <1>4 DEF SP!Abort
  <2>2. heard'.voice = r.voice /\ heard'.backend = r.backend
    BY <1>4
  <2>3. Right(heard.voice, heard.backend)'
    BY <1>3, <2>1, <2>2
  <2>4. (answers \in Seq(Nat))' /\ stage' \in {"transcode", "over"}
    BY <1>4, Answering DEF SpeechInv
  <2>5. stage' # "over" => ~SP!Answered(200)'
    BY <1>1, <1>4 DEF SpeechInv, SP!Answered, SP!Answer
  <2> QED
    BY <1>2, <2>3, <2>4, <2>5 DEF SpeechInv
<1>5. CASE r.status # 200
  <2>1. r.status \in Nat
    BY DEF SP!Abort
  <2>2. SP!Forward(r.status) \in Nat /\ SP!Forward(r.status) # 200
    BY <2>1 DEF SP!Forward
  <2>3. (answers \in Seq(Nat))' /\ ~SP!Answered(200)' /\ stage' = "over"
    BY <1>5, <2>2, Answering
  <2> QED
    BY <1>2, <2>3 DEF SpeechInv
<1> QED
  BY <1>4, <1>5

LEMMA StatusTyped ==
    ASSUME NEW r \in SP!Synthesize \cup SP!SynthesizeStream
    PROVE  r.status \in Nat
<1>1. ASSUME NEW v, NEW b, NEW e  PROVE SP!Resolve(v, b, e).status \in Nat
  BY DEF SP!Resolve, SP!Ok, SP!Abort
<1>2. ASSUME NEW q, q.status \in Nat, NEW v, NEW a \in SP!Speak(q, v)  PROVE a.status \in Nat
  BY <1>2 DEF SP!Speak, SP!Ok, SP!Abort
<1>3. CASE r \in SP!Synthesize
  <2> DEFINE backend == IF call.backend = "" THEN default.sidecar ELSE call.backend
             res == SP!Resolve(call.voice, backend, call.backend # "")
             voice == IF res.backend = "pocket" /\ call.data THEN "embedding"
                      ELSE IF res.backend = "pocket" /\ call.ref THEN "reference"
                      ELSE res.voice
  <2>1. r = SP!Abort(422) \/ r \in SP!Speak(res, voice)
    BY <1>3 DEF SP!Synthesize
  <2>2. res.status \in Nat
    BY <1>1
  <2> HIDE DEF res, voice
  <2>3. r \in SP!Speak(res, voice) => r.status \in Nat
    BY <1>2, <2>2
  <2> QED
    BY <2>1, <2>3 DEF SP!Abort
<1>4. CASE r \in SP!SynthesizeStream
  <2> DEFINE res == SP!Resolve(call.voice, "pocket", FALSE)
  <2>1. r = SP!Abort(501) \/ r \in SP!Speak(res, res.voice)
    BY <1>4 DEF SP!SynthesizeStream
  <2>2. res.status \in Nat
    BY <1>1
  <2> HIDE DEF res
  <2>3. r \in SP!Speak(res, res.voice) => r.status \in Nat
    BY <1>2, <2>2
  <2> QED
    BY <2>1, <2>3 DEF SP!Abort
<1> QED
  BY <1>3, <1>4

LEMMA SpeechStep == ASSUME SpeechInv, [SP!Next]_(SP!vars) PROVE SpeechInv'
<1> DEFINE Fixed == /\ (ask \in SP!Asks)' /\ (engines \subseteq SP!Backends)'
                    /\ (default \in [gateway : SP!Backends, sidecar : SP!Backends])'
<1>1. ASSUME UNCHANGED <<ask, engines, default>>  PROVE Fixed
  BY <1>1 DEF SpeechInv, SP!Asks, SP!Backends, SP!Batch
<1>2. ASSUME UNCHANGED <<ask, engines, default>>, stage' # "transcode", ~SP!Answered(200)',
             (answers \in Seq(Nat))', stage' \in {"validate", "build"} => answers' = <<>>,
             stage' = "synthesize" => CallInv'
      PROVE  SpeechInv'
  BY <1>1, <1>2 DEF SpeechInv
<1>3. CASE SP!Validate
  <2>1. SP!Invalid \in {0, 400, 501}
    BY DEF SP!Invalid
  <2>2. answers = <<>>
    BY <1>3 DEF SP!Validate, SpeechInv
  <2>3. /\ stage' \in {"over", "build"} /\ (answers \in Seq(Nat))' /\ ~SP!Answered(200)'
        /\ stage' = "build" => answers' = <<>>
    <3>1. CASE SP!Invalid # 0 /\ SP!Answer(SP!Invalid) /\ stage' = "over"
      BY <2>1, <3>1, Answering
    <3>2. CASE stage' = "build" /\ answers' = answers
      BY <2>2, <3>2 DEF SP!Answered
    <3> QED
      BY <1>3, <3>1, <3>2 DEF SP!Validate
  <2> QED
    BY <1>3, <1>2, <2>3 DEF SP!Validate, SP!fixed
<1>4. CASE SP!BuildOpenAI
  <2>1. answers' = answers /\ stage' = "synthesize" /\ UNCHANGED <<ask, engines, default>>
    BY <1>4 DEF SP!BuildOpenAI, SP!fixed
  <2>2. answers = <<>>
    BY <1>4 DEF SP!BuildOpenAI, SpeechInv
  <2> QED
    BY <1>4, <1>2, <2>1, <2>2, OpenAIBuilds DEF SP!Answered
<1>5. CASE SP!BuildNative
  <2>1. answers = <<>>
    BY <1>5 DEF SP!BuildNative, SpeechInv
  <2>2. /\ stage' \in {"over", "synthesize"} /\ (answers \in Seq(Nat))' /\ ~SP!Answered(200)'
    <3>1. CASE SP!Answer(404) /\ stage' = "over"
      BY <3>1, Answering
    <3>2. CASE stage' = "synthesize" /\ answers' = answers
      BY <2>1, <3>2 DEF SP!Answered
    <3> QED
      BY <1>5, <3>1, <3>2 DEF SP!BuildNative
  <2> QED
    BY <1>5, <1>2, <2>2, NativeBuilds DEF SP!BuildNative, SP!fixed
<1>6. CASE SP!BuildElevenLabs
  <2>1. answers = <<>>
    BY <1>6 DEF SP!BuildElevenLabs, SpeechInv
  <2>2. /\ stage' = "synthesize" /\ (answers \in Seq(Nat))' /\ ~SP!Answered(200)'
    <3>0. stage' = "synthesize" /\ (SP!Answer(404) \/ answers' = answers)
      BY <1>6, Zenon DEF SP!BuildElevenLabs
    <3>1. CASE SP!Answer(404)
      BY <3>0, <3>1, Answering
    <3>2. CASE answers' = answers
      BY <2>1, <3>0, <3>2 DEF SpeechInv, SP!Answered
    <3> QED
      BY <3>0, <3>1, <3>2
  <2> QED
    BY <1>6, <1>2, <2>2, ElevenLabsBuilds DEF SP!BuildElevenLabs, SP!fixed
<1>7. CASE SP!Call
  <2>1. CallInv
    BY <1>7 DEF SP!Call, SP!CallNative, SP!CallOpenAI, SP!SynthesizeBatch,
       SP!SynthesizeStreaming, SP!Called, SpeechInv
  <2>2. CASE SP!Called(SP!Synthesize) /\ ~SP!Streams
    BY <2>1, <2>2, SynthesizeRight, StatusTyped, CalledRight
  <2>3. CASE SP!Called(SP!SynthesizeStream) /\ SP!Streams
    BY <2>1, <2>3, StreamRight, StatusTyped, CalledRight
  <2> QED
    BY <1>7, <2>2, <2>3 DEF SP!Call, SP!CallNative, SP!CallOpenAI, SP!SynthesizeBatch,
       SP!SynthesizeStreaming, SP!Streams
<1>8. CASE SP!Transcode
  <2>1. Right(heard.voice, heard.backend) /\ UNCHANGED <<ask, engines, default, heard>>
    BY <1>8 DEF SP!Transcode, SP!fixed, SpeechInv
  <2>2. Right(heard.voice, heard.backend)'
    BY <2>1 DEF Right, SP!Streams
  <2>3. stage' = "over" /\ (answers \in Seq(Nat))'
    BY <1>8, Answering DEF SP!Transcode
  <2> QED
    BY <1>1, <2>1, <2>2, <2>3 DEF SpeechInv
<1>9. CASE UNCHANGED SP!vars
  <2>1. Right(heard.voice, heard.backend)' <=> Right(heard.voice, heard.backend)
    BY <1>9 DEF SP!vars, Right, SP!Streams
  <2>2. CallInv' <=> CallInv
    BY <1>9 DEF SP!vars, CallInv, Elevenlabs, SP!openAIModelToBackend,
       SP!elevenLabsModelToBackend
  <2> QED
    BY <1>1, <1>9, <2>1, <2>2 DEF SP!vars, SpeechInv, SP!Answered
<1> QED
  BY <1>3, <1>4, <1>5, <1>6, <1>7, <1>8, <1>9 DEF SP!Next

\* A voice named by a client is heard or refused on every endpoint; the backend a client
\* chose by its model, and a cloned voice, are in the dialects' answers that are not
\* streamed.  The native endpoint, which takes no model, and raw streams are exempt there.
THEOREM VoiceIsHonoured == SP!Spec => []VoiceHonoured
<1>1. SP!Init => SpeechInv
  BY DEF SP!Init, SpeechInv, SP!Answered
<1>2. SpeechInv /\ [SP!Next]_(SP!vars) => SpeechInv'
  BY SpeechStep
<1>3. SpeechInv => VoiceHonoured
  <2> SUFFICES ASSUME SpeechInv, SP!Answered(200)  PROVE VoiceHonoured
    BY DEF VoiceHonoured, SP!VoiceHonoured, SP!NamedVoiceHeard, SP!ClonedVoiceKept
  <2>1. Right(heard.voice, heard.backend)
    BY DEF SpeechInv
  <2> QED
    BY <2>1 DEF VoiceHonoured, SP!VoiceHonoured, SP!NamedVoiceHeard, SP!ClonedVoiceKept, Right
<1> QED
  BY <1>1, <1>2, <1>3, PTL DEF SP!Spec
=============================================================================
