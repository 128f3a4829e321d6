---------------------------- MODULE VoiceStorage ----------------------------
(***************************************************************************)
(* The embeddings of cloned voices (internal/handlers/voices.go): a row with *)
(* the embedding as a blob in the database all gateway nodes share, and on    *)
(* each node a file that caches it.  Nodes clone, delete and load voices      *)
(* while SyncVoiceStorage, started at every boot, reconciles rows and files.  *)
(*                                                                           *)
(* One user; an embedding is known by the voice it belongs to and by whether *)
(* it fits the loader's cap of 125 frames.  os.WriteFile truncates a file     *)
(* before it writes it, so a file, and what is read from it, may be cut.  The *)
(* database, the file system and the sidecar that extracts embeddings are    *)
(* external.                                                                 *)
(***************************************************************************)
EXTENDS Naturals, FiniteSets

CONSTANTS
    Nodes,
    Requests,
    Voices,    \* voice ids, the legacy voice's and those of voices to come
    Names,     \* voice names
    Legacy,    \* the voice that is there at first, from an older version
    Faults,    \* operations on the database and the file system that may fail
    MaxBoots,  \* restarts of nodes, altogether
    None

ASSUME VoiceAssumption ==
    /\ Legacy \in Voices
    /\ Faults \subseteq {"insert", "update", "delete", "count", "list",
                          "write", "remove", "readdir"}
    /\ MaxBoots \in Nat
    /\ None \notin Nodes \cup Voices \cup Names \cup {"cut", "fits", "over"}

VARIABLES
    rows,  \* the voices table
    disk,  \* per node: the size of each voice's file, or None
    op,    \* the progress of each request
    sync,  \* per node: the state of SyncVoiceStorage
    boots,
    asked, \* history variables: voices whose deletion has been asked for, and
    spoilt \* those of which a cut file passed for the embedding

history == <<asked, spoilt>>
vars    == <<rows, disk, op, sync, boots, history>>

Whole == {"fits", "over"}
Sizes == Whole \cup {None, "cut"}

Row == [state : {"absent", "active", "deleted"}, name : Names \cup {None}, blob : Sizes]

New == [pc |-> "new", node |-> None, voice |-> None, name |-> None, blob |-> None]

Over == [New EXCEPT !.pc = "over"]

OpType == [pc : {"new", "over", "extracting", "written", "found", "unlinked", "loading", "missed",
                 "storing"},
           node : Nodes \cup {None}, voice : Voices \cup {None},
           name : Names \cup {None}, blob : Sizes]

\* todo, cur: rows as listed, and the one in hand with the file it had; listed, gone:
\* the voices listed, and those deleted when the node came up; left: the voices whose
\* files the sweep could not look for or remove.
SyncType == [pc : {"boot", "voices", "repair", "truncate", "rewrite", "rewriting", "fill",
                   "filling", "sweep", "unlink", "done"},
             todo : SUBSET [voice : Voices, blob : Sizes],
             cur : [voice : Voices \cup {None}, blob : Sizes, file : Sizes],
             files : SUBSET Voices, listed : SUBSET Voices, gone : SUBSET Voices,
             left : SUBSET Voices, failed : BOOLEAN]

NoVoice == [voice |-> None, blob |-> None, file |-> None]

Active(v) == rows[v].state = "active"

Booting == [pc |-> "boot", todo |-> {}, cur |-> NoVoice, files |-> {}, listed |-> {},
            gone |-> {v \in Voices : rows[v].state = "deleted"}, left |-> {},
            failed |-> FALSE]

\* What this version clones has its blob from the start, and fits.
TypeOK ==
    /\ rows \in [Voices -> Row]
    /\ disk \in [Nodes -> [Voices -> Sizes]]
    /\ op \in [Requests -> OpType]
    /\ sync \in [Nodes -> SyncType]
    /\ boots \in 0..MaxBoots /\ asked \subseteq Voices /\ spoilt \subseteq Voices
    /\ \A v \in Voices \ {Legacy} :
          rows[v].blob = IF rows[v].state = "absent" THEN None ELSE "fits"
    /\ \A r \in Requests : op[r].pc \in {"missed", "storing"} => op[r].blob # None

\* A legacy voice was stored before there were blobs, on the node that cloned it,
\* or before the cap, when its blob and the files made from it were longer.  Some
\* nodes come up, with this version; the others have been up for long.
Init ==
    /\ \E b \in {None, "over"}, name \in Names :
          rows = [v \in Voices |->
                    IF v = Legacy THEN [state |-> "active", name |-> name, blob |-> b]
                    ELSE [state |-> "absent", name |-> None, blob |-> None]]
    /\ \E S \in SUBSET Nodes, size \in {"fits", "over"} :
          /\ rows[Legacy].blob = "over" => size = "over"
          /\ rows[Legacy].blob = None => S # {}
          /\ disk = [n \in Nodes |-> [v \in Voices |->
                       IF v = Legacy /\ n \in S THEN size ELSE None]]
    /\ op \in [Requests -> {New, Over}]
    /\ sync \in [Nodes -> {Booting, [Booting EXCEPT !.pc = "done"]}]
    /\ boots = 0 /\ asked = {} /\ spoilt = {}

MayFail(what) == {TRUE} \cup (IF what \in Faults THEN {FALSE} ELSE {})

\* os.WriteFile: open and truncate, then write.  What is written to a file that was
\* removed meanwhile is lost, and one that was written meanwhile gets no shorter.
Truncate(n, v) == disk' = [disk EXCEPT ![n][v] = "cut"]

Write(n, v, size) ==
    disk' = [disk EXCEPT ![n][v] = IF @ \in {None, "over"} THEN @ ELSE size]

\* os.Remove
Remove(n, v, ok) == disk' = [disk EXCEPT ![n][v] = IF ok THEN None ELSE @]

-----------------------------------------------------------------------------
(* Cloning: cloneVoiceCore                                                 *)

\* The name is free; the audio goes to the sidecar.
Clone(r, n, name) ==
    /\ op[r].pc = "new"
    /\ ~\E v \in Voices : Active(v) /\ rows[v].name = name
    /\ op' = [op EXCEPT ![r] = [New EXCEPT !.pc = "extracting", !.node = n, !.name = name]]
    /\ UNCHANGED <<rows, disk, sync, boots, history>>

\* uuid.New(): an id nobody holds.
Fresh(v) ==
    /\ rows[v].state = "absent"
    /\ \A r \in Requests : op[r].voice # v
    /\ \A n \in Nodes : disk[n][v] = None /\ v \notin sync[n].files /\ sync[n].cur.voice # v

\* The embedding is written to this node's disk; extraction or the write may fail,
\* which leaves no file, or a cut one.  Nobody looks at the file before the row is
\* there, but the sweep, which does not read it.
CloneVoice(r) ==
    /\ op[r].pc = "extracting"
    /\ \/ /\ op' = [op EXCEPT ![r] = Over]
          /\ UNCHANGED disk
       \/ \E v \in Voices, ok \in MayFail("write") :
             /\ Fresh(v)
             /\ op' = [op EXCEPT ![r] = IF ok THEN [@ EXCEPT !.pc = "written", !.voice = v]
                                        ELSE Over]
             /\ disk' = [disk EXCEPT ![op[r].node][v] = IF ok THEN "fits" ELSE "cut"]
    /\ UNCHANGED <<rows, sync, boots, history>>

\* idx_voice_user_name, a unique index that knows nothing of soft deletes.
NameTaken(name) == \E v \in Voices : rows[v].state # "absent" /\ rows[v].name = name

\* Mutant: no unique index.
CreateRowUnchecked(r) ==
    /\ op[r].pc = "written"
    /\ rows' = [rows EXCEPT ![op[r].voice] =
                  [state |-> "active", name |-> op[r].name, blob |-> "fits"]]
    /\ op' = [op EXCEPT ![r] = Over]
    /\ UNCHANGED <<disk, sync, boots, history>>

\* Mutant: the row holds the path only.
CreateRowNoBlob(r) ==
    /\ op[r].pc = "written"
    /\ ~NameTaken(op[r].name)
    /\ rows' = [rows EXCEPT ![op[r].voice] =
                  [state |-> "active", name |-> op[r].name, blob |-> None]]
    /\ op' = [op EXCEPT ![r] = Over]
    /\ UNCHANGED <<disk, sync, boots, history>>

\* db.Create; on an error the file is removed again, if that works.
CreateRow(r) ==
    /\ op[r].pc = "written"
    /\ \/ /\ ~NameTaken(op[r].name)
          /\ rows' = [rows EXCEPT ![op[r].voice] =
                         [state |-> "active", name |-> op[r].name, blob |-> "fits"]]
          /\ UNCHANGED disk
       \/ /\ NameTaken(op[r].name) \/ "insert" \in Faults
          /\ \E ok \in MayFail("remove") : Remove(op[r].node, op[r].voice, ok)
          /\ UNCHANGED rows
    /\ op' = [op EXCEPT ![r] = Over]
    /\ UNCHANGED <<sync, boots, history>>

-----------------------------------------------------------------------------
(* Deleting: deleteVoiceCore, and loading: LoadVoiceData                     *)

Find(r, n, v) ==
    /\ op[r].pc = "new" /\ Active(v)
    /\ \E pc \in {"found", "loading"} :
       /\ op' = [op EXCEPT ![r] = [New EXCEPT !.pc = pc, !.node = n, !.voice = v,
                                               !.blob = rows[v].blob]]
       /\ asked' = IF pc = "found" THEN asked \cup {v} ELSE asked
    /\ UNCHANGED <<rows, disk, sync, boots, spoilt>>

\* A file that cannot be removed is left behind.
Unlink(r) ==
    /\ op[r].pc = "found"
    /\ \E ok \in MayFail("remove") : Remove(op[r].node, op[r].voice, ok)
    /\ op' = [op EXCEPT ![r].pc = "unlinked"]
    /\ UNCHANGED <<rows, sync, boots, history>>

\* The row stays, with its blob, and is hidden from queries.
SoftDelete(r) ==
    /\ op[r].pc = "unlinked"
    /\ \E ok \in MayFail("delete") :
          rows' = [rows EXCEPT ![op[r].voice].state = IF ok THEN "deleted" ELSE @]
    /\ op' = [op EXCEPT ![r] = Over]
    /\ UNCHANGED <<disk, sync, boots, history>>

\* A file is served as it is; without one the blob is, if the row had one.
ReadFile(r) ==
    /\ op[r].pc = "loading"
    /\ op' = [op EXCEPT ![r] =
                IF disk[op[r].node][op[r].voice] # None \/ op[r].blob = None THEN Over
                ELSE [op[r] EXCEPT !.pc = "missed"]]
    /\ UNCHANGED <<rows, disk, sync, boots, history>>

\* The file is written for the next reader, if that works: an error is only logged.
WriteThrough(r) ==
    /\ op[r].pc = "missed"
    /\ \/ /\ Truncate(op[r].node, op[r].voice)
          /\ op' = [op EXCEPT ![r].pc = "storing"]
       \/ /\ "write" \in Faults
          /\ op' = [op EXCEPT ![r] = Over]
          /\ UNCHANGED disk
    /\ UNCHANGED <<rows, sync, boots, history>>

Store(r) ==
    /\ op[r].pc = "storing"
    /\ \/ Write(op[r].node, op[r].voice, op[r].blob)
       \/ "write" \in Faults /\ UNCHANGED disk
    /\ op' = [op EXCEPT ![r] = Over]
    /\ UNCHANGED <<rows, sync, boots, history>>

-----------------------------------------------------------------------------
(* SyncVoiceStorage                                                        *)

At(n, pc) == sync[n].pc = pc

\* If the rows cannot be listed, that is all of the pass.
List(n) ==
    /\ At(n, "boot")
    /\ \/ LET listed == {v \in Voices : Active(v)}
          IN  sync' = [sync EXCEPT ![n].pc = "voices", ![n].listed = listed,
                                   ![n].todo = {[voice |-> v, blob |-> rows[v].blob] : v \in listed}]
       \/ /\ "list" \in Faults
          /\ sync' = [sync EXCEPT ![n].pc = "done", ![n].left = Voices, ![n].failed = TRUE]
    /\ UNCHANGED <<rows, disk, op, boots, history>>

Oversize(blob, file) == blob = "over" \/ (blob = None /\ file = "over")

ReadVoice(n) ==
    /\ At(n, "voices")
    /\ \E e \in sync[n].todo :
          LET file == disk[n][e.voice]
          IN  sync' = [sync EXCEPT ![n].todo = @ \ {e},
                         ![n].pc = IF Oversize(e.blob, file) THEN "repair" ELSE "fill",
                         ![n].cur = [voice |-> e.voice, blob |-> e.blob, file |-> file]]
    /\ UNCHANGED <<rows, disk, op, boots, history>>

\* db.Model(...).Where("id = ?").Update: a row deleted meanwhile is not found.
SetBlob(v, size) == [rows EXCEPT ![v].blob = IF Active(v) THEN size ELSE @]

GoOn(n, failed) ==
    [sync EXCEPT ![n].pc = "voices", ![n].cur = NoVoice, ![n].failed = @ \/ failed]

\* Mutant: blobs are not truncated.
RepairFilesOnly(n) ==
    /\ At(n, "repair")
    /\ sync' = [sync EXCEPT ![n].pc = "fill"]
    /\ UNCHANGED <<rows, disk, op, boots, history>>

\* An oversize blob is truncated, in the database first; an oversize file is, in
\* place, when there is no blob.
Repair(n) ==
    /\ At(n, "repair")
    /\ LET cur == sync[n].cur
       IN  \/ /\ cur.blob = "over"
              /\ rows' = SetBlob(cur.voice, "fits")
              /\ sync' = [sync EXCEPT ![n].pc = IF cur.file = None THEN "fill" ELSE "rewrite",
                                      ![n].cur.blob = "fits"]
              /\ UNCHANGED disk
           \/ /\ cur.blob = None
              /\ Truncate(n, cur.voice)
              /\ sync' = [sync EXCEPT ![n].pc = "truncate"]
              /\ UNCHANGED rows
           \/ /\ (IF cur.blob = None THEN "write" ELSE "update") \in Faults
              /\ sync' = GoOn(n, TRUE)
              /\ UNCHANGED <<rows, disk>>
    /\ UNCHANGED <<op, boots, history>>

\* The only copy may be the one in memory: a write that fails loses it.
RepairFile(n) ==
    /\ At(n, "truncate")
    /\ LET v == sync[n].cur.voice
       IN  \/ /\ Write(n, v, "fits")
              /\ sync' = [sync EXCEPT ![n].pc = "fill", ![n].cur.file = "fits"]
              /\ UNCHANGED spoilt
           \/ /\ "write" \in Faults
              /\ sync' = GoOn(n, TRUE)
              /\ spoilt' = spoilt \cup {v}
              /\ UNCHANGED disk
    /\ UNCHANGED <<rows, op, boots, asked>>

\* The file of a truncated blob follows it; an error is only logged.
Rewrite(n) ==
    /\ At(n, "rewrite")
    /\ \/ /\ Truncate(n, sync[n].cur.voice)
          /\ sync' = [sync EXCEPT ![n].pc = "rewriting"]
       \/ /\ "write" \in Faults
          /\ sync' = [sync EXCEPT ![n].pc = "fill"]
          /\ UNCHANGED disk
    /\ UNCHANGED <<rows, op, boots, history>>

RewriteFile(n) ==
    /\ At(n, "rewriting")
    /\ \/ Write(n, sync[n].cur.voice, "fits")
       \/ "write" \in Faults /\ UNCHANGED disk
    /\ sync' = [sync EXCEPT ![n].pc = "fill"]
    /\ UNCHANGED <<rows, op, boots, history>>

\* What a backfill stores of a file that was read as it was being written: as much as
\* was there, or nothing at all.
ReadAs(file) == IF file = "cut" THEN {None, "cut"} ELSE {file}

\* Backfill, forward-fill, or nothing to do.
Fill(n) ==
    /\ At(n, "fill")
    /\ LET cur == sync[n].cur
       IN  \/ /\ cur.blob = None /\ cur.file # None
              /\ \/ /\ \E size \in ReadAs(cur.file) : rows' = SetBlob(cur.voice, size)
                    /\ sync' = GoOn(n, FALSE)
                    /\ spoilt' = IF cur.file = "cut" THEN spoilt \cup {cur.voice} ELSE spoilt
                 \/ /\ "update" \in Faults
                    /\ sync' = GoOn(n, TRUE)
                    /\ UNCHANGED <<rows, spoilt>>
              /\ UNCHANGED disk
           \/ /\ cur.blob # None /\ cur.file = None
              /\ \/ /\ Truncate(n, cur.voice)
                    /\ sync' = [sync EXCEPT ![n].pc = "filling"]
                 \/ /\ "write" \in Faults
                    /\ sync' = GoOn(n, TRUE)
                    /\ UNCHANGED disk
              /\ UNCHANGED <<rows, spoilt>>
           \/ /\ (cur.blob = None) = (cur.file = None)
              /\ sync' = GoOn(n, FALSE)
              /\ UNCHANGED <<rows, disk, spoilt>>
    /\ UNCHANGED <<op, boots, asked>>

FillFile(n) ==
    /\ At(n, "filling")
    /\ \/ /\ Write(n, sync[n].cur.voice, sync[n].cur.blob)
          /\ sync' = GoOn(n, FALSE)
       \/ /\ "write" \in Faults
          /\ sync' = GoOn(n, TRUE)
          /\ UNCHANGED disk
    /\ UNCHANGED <<rows, op, boots, history>>

\* sweepOrphanedVoiceFiles, when all rows are dealt with.
ReadDir(n) ==
    /\ At(n, "voices") /\ sync[n].todo = {}
    /\ \/ sync' = [sync EXCEPT ![n].pc = "sweep",
                               ![n].files = {v \in Voices : disk[n][v] # None}]
       \/ "readdir" \in Faults /\ sync' = [sync EXCEPT ![n].pc = "sweep", ![n].left = Voices]
    /\ UNCHANGED <<rows, disk, op, boots, history>>

\* Mutant: soft-deleted rows are counted, too.
CountUnscoped(n) ==
    /\ At(n, "sweep")
    /\ \E v \in sync[n].files :
          sync' = [sync EXCEPT ![n].files = @ \ {v},
                      ![n].cur.voice = IF rows[v].state # "absent" THEN None ELSE v,
                      ![n].pc = IF rows[v].state # "absent" THEN "sweep" ELSE "unlink"]
    /\ UNCHANGED <<rows, disk, op, boots, history>>

\* The rows with the file's id are counted; a query that fails counts none.
CountRows(n) ==
    /\ At(n, "sweep")
    /\ \E v \in sync[n].files, ok \in MayFail("count") :
          LET keep == ok /\ Active(v)
          IN  sync' = [sync EXCEPT ![n].files = @ \ {v},
                          ![n].cur.voice = IF keep THEN None ELSE v,
                          ![n].pc = IF keep THEN "sweep" ELSE "unlink"]
    /\ UNCHANGED <<rows, disk, op, boots, history>>

RemoveOrphan(n) ==
    /\ At(n, "unlink")
    /\ LET v == sync[n].cur.voice
       IN  \E ok \in MayFail("remove") :
              /\ Remove(n, v, ok)
              /\ sync' = [sync EXCEPT ![n].pc = "sweep", ![n].cur = NoVoice,
                                      ![n].left = IF ok THEN @ ELSE @ \cup {v}]
    /\ UNCHANGED <<rows, op, boots, history>>

SyncDone(n) ==
    /\ At(n, "sweep") /\ sync[n].files = {}
    /\ sync' = [sync EXCEPT ![n].pc = "done"]
    /\ UNCHANGED <<rows, disk, op, boots, history>>

\* A node goes down, with the requests it was at, and comes up again.
Boot(n) ==
    /\ boots < MaxBoots /\ boots' = boots + 1
    /\ op' = [r \in Requests |-> IF op[r].node = n THEN Over ELSE op[r]]
    /\ sync' = [sync EXCEPT ![n] = Booting]
    /\ spoilt' = IF At(n, "truncate") THEN spoilt \cup {sync[n].cur.voice} ELSE spoilt
    /\ UNCHANGED <<rows, disk, asked>>

-----------------------------------------------------------------------------
Request(r) ==
    \/ \E n \in Nodes, name \in Names : Clone(r, n, name)
    \/ \E n \in Nodes, v \in Voices : Find(r, n, v)
    \/ CloneVoice(r) \/ CreateRow(r) \/ Unlink(r) \/ SoftDelete(r)
    \/ ReadFile(r) \/ WriteThrough(r) \/ Store(r)

SyncVoiceStorage(n) ==
    \/ List(n) \/ ReadVoice(n) \/ Repair(n) \/ RepairFile(n)
    \/ Rewrite(n) \/ RewriteFile(n) \/ Fill(n) \/ FillFile(n)
    \/ ReadDir(n) \/ CountRows(n) \/ RemoveOrphan(n) \/ SyncDone(n)

Next ==
    \/ \E r \in Requests : Request(r)
    \/ \E n \in Nodes : SyncVoiceStorage(n) \/ Boot(n)

Spec == Init /\ [][Next]_vars

-----------------------------------------------------------------------------
(* Properties                                                              *)

\* Two requests that both found a name free do not both get it.
NameUnique ==
    \A v, w \in Voices : Active(v) /\ Active(w) /\ rows[v].name = rows[w].name => v = w

\* The pass that truncates the file of voice v in place has the embedding in memory.
InMemory(v) == \E n \in Nodes : At(n, "truncate") /\ sync[n].cur.voice = v

\* A voice that can be found has its whole embedding in the database or on some node,
\* until somebody asks for its deletion, whatever passes, sweeps and crashes go on.
\* But for one way to lose it: there was no blob yet, and the truncation of a file in
\* place was cut short, or a backfill took what was there of a file being written.
DataKept ==
    \A v \in Voices :
       Active(v) /\ v \notin asked \cup spoilt =>
          \/ rows[v].blob \in Whole
          \/ \E n \in Nodes : disk[n][v] \in Whole
          \/ InMemory(v)

\* Both: what a listing shows can be told apart and can be spoken.
ListedIsUsable == NameUnique /\ DataKept

\* A pass that reports no failure leaves no voice it listed with a blob the loader
\* would reject, or with its data on this node's disk alone, save those spoilt as above.
SyncRepairs ==
    \A n \in Nodes : At(n, "done") /\ ~sync[n].failed =>
       \A v \in sync[n].listed \ spoilt :
          rows[v].state = "active" =>
             rows[v].blob # "over" /\ (rows[v].blob = None => disk[n][v] = None)

\* A voice that was deleted on any node before this one came up has no file here
\* once the pass is over, and gets none again; but for the files the pass could not
\* get at, of which it only logs those it failed to remove.
SweptStayGone ==
    \A n \in Nodes, v \in Voices :
       At(n, "done") /\ v \in sync[n].gone \ sync[n].left => disk[n][v] = None

-----------------------------------------------------------------------------
(* Statements of comments in the code                                      *)

\* Oversize embeddings are cut in both the blob and the disk file, so that no pass
\* leaves a file the loader rejects (voices.go, SyncVoiceStorage).
OversizeRepaired ==
    \A n \in Nodes : At(n, "done") /\ ~sync[n].failed =>
       \A v \in sync[n].listed : disk[n][v] # "over"

\* The soft delete also drops the shared embedding blob (voices.go, deleteVoiceCore).
DeleteDropsBlob == \A v \in Voices : rows[v].state = "deleted" => rows[v].blob = None

\* The deletion of a voice removes this node's file.
DeleteRemovesFile ==
    [][\A r \in Requests : op[r].pc = "unlinked" /\ op'[r].pc = "over" =>
          disk'[op[r].node][op[r].voice] = None]_vars

\* "Safe to run on every node boot" (voices.go, SyncVoiceStorage): it loses no voice.
SafeOnEveryBoot ==
    \A v \in Voices :
       Active(v) /\ v \notin asked =>
          \/ rows[v].blob \in Whole
          \/ \E n \in Nodes : disk[n][v] \in Whole
          \/ InMemory(v)

\* The orphan sweep "is how deletions propagate to other nodes' caches" (voices.go,
\* SyncVoiceStorage): a voice deleted before the node came up has no file after it.
DeletionsPropagate ==
    \A n \in Nodes, v \in Voices :
       At(n, "done") /\ v \in sync[n].gone => disk[n][v] = None
=============================================================================
