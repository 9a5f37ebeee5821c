----------------------------- MODULE MediaSync -----------------------------
(***************************************************************************)
(* The media files of a form: users upload and delete them in KPI, and a   *)
(* task that each deployment queues copies them to KoBoCAT, with requests  *)
(* that may fail and on two lists, KoBoCAT's and KPI's, that are read once *)
(* at its start.                                                           *)
(***************************************************************************)
EXTENDS Naturals, FiniteSets

CONSTANTS
    Names,        \* file names (`backend_media_id`)
    Hashes,       \* contents, as their hash tells them apart
    MaxUploads,   \* bound: the uploads to KPI
    MaxDirect,    \* bound: what is done to KoBoCAT's files without KPI
    MaxSyncs      \* bound: the tasks, which may all run at once

ASSUME MediaAssumption ==
    MaxUploads \in Nat /\ MaxDirect \in Nat /\ MaxSyncs \in Nat

VARIABLES
    asset_files,  \* the rows of KPI, by number; a deleted one is first flagged
    uploads,      \* how many there have been
    uploading,    \* those that are validated and not yet saved
    kc,           \* KoBoCAT's file of each name that has one
    directs,      \* how many of MaxDirect have been used
    sync,         \* the tasks
    settled       \* history: the last task to start began alone, when no two live
                  \* files had one name, and nothing has failed or changed, and no
                  \* other has started, since

mediaVars == <<asset_files, uploads, uploading, kc, directs, sync, settled>>

Files == 1 .. MaxUploads
Syncs == 1 .. MaxSyncs
AssetFile == [name: Names, hash: Hashes, deleted: BOOLEAN]
KcFile == [pk: 1 .. MaxSyncs + 1, hash: Hashes, from_kpi: BOOLEAN]
MediaCopies == [f: Files, name: Names, hash: Hashes, deleted: BOOLEAN]
NoFile == [f |-> 0]

\* load: KoBoCAT's list (kc_files) is read, KPI's is not; next: at the next file;
\* post, vacuum: the second step for `file`.
MediaTypeOK ==
    /\ DOMAIN asset_files \subseteq 1 .. uploads
    /\ asset_files \in [DOMAIN asset_files -> AssetFile]
    /\ uploads \in 0 .. MaxUploads
    /\ uploading \subseteq [f: 1 .. uploads, name: Names, hash: Hashes]
    /\ DOMAIN kc \subseteq Names
    /\ kc \in [DOMAIN kc -> KcFile]
    /\ directs \in 0 .. MaxDirect
    /\ \A y \in Syncs :
         /\ sync[y].pc \in {"queued", "load", "next", "post", "vacuum", "done"}
         /\ DOMAIN sync[y].kc_files \subseteq Names
         /\ sync[y].todo \subseteq MediaCopies
         /\ sync[y].pc \in {"post", "vacuum"} => sync[y].file \in MediaCopies
    /\ settled \in BOOLEAN

MediaInit ==
    /\ asset_files = << >>
    /\ uploads = 0
    /\ uploading = {}
    /\ kc = << >>
    /\ directs = 0
    /\ sync = [y \in Syncs |-> [pc |-> "queued", kc_files |-> << >>, todo |-> {},
                                file |-> NoFile]]
    /\ settled = FALSE

----------------------------------------------------------------------------
(* The users of KPI and of KoBoCAT *)

Live == {f \in DOMAIN asset_files : ~asset_files[f].deleted}
Put(function, x, value) ==
    [y \in DOMAIN function \cup {x} |-> IF y = x THEN value ELSE function[y]]
Cut(function, x) == [y \in DOMAIN function \ {x} |-> function[y]]

\* A key for a new file of that name: one that no task remembers.
NewKey(n) ==
    CHOOSE pk \in 1 .. MaxSyncs + 1 :
        \A y \in Syncs : n \in DOMAIN sync[y].kc_files => sync[y].kc_files[n].pk # pk

NamesAreUnique == \A f, g \in Live : asset_files[f].name = asset_files[g].name => f = g

\* `_validate_duplicate`: no live file has the name.  No row and no lock holds it.
ValidateUpload(n, hash) ==
    /\ uploads < MaxUploads
    /\ \A f \in Live : asset_files[f].name # n
    /\ uploads' = uploads + 1
    /\ uploading' = uploading \cup {[f |-> uploads', name |-> n, hash |-> hash]}
    /\ UNCHANGED <<asset_files, kc, directs, sync, settled>>

\* `perform_create`, after the validation of any other upload.
SaveUpload(u) ==
    /\ uploading' = uploading \ {u}
    /\ asset_files' = Put(asset_files, u.f, [name |-> u.name, hash |-> u.hash, deleted |-> FALSE])
    /\ settled' = FALSE
    /\ UNCHANGED <<uploads, kc, directs, sync>>

\* `AssetFile.delete` of a form media file only flags it.
DeleteFile(f) ==
    /\ f \in Live
    /\ asset_files' = [asset_files EXCEPT ![f].deleted = TRUE]
    /\ settled' = FALSE
    /\ UNCHANGED <<uploads, uploading, kc, directs, sync>>

UploadToKc(n, hash) ==
    /\ directs < MaxDirect
    /\ n \notin DOMAIN kc
    /\ directs' = directs + 1
    /\ kc' = Put(kc, n, [pk |-> NewKey(n), hash |-> hash, from_kpi |-> FALSE])
    /\ settled' = FALSE
    /\ UNCHANGED <<asset_files, uploads, uploading, sync>>

DeleteFromKc(n) ==
    /\ directs < MaxDirect
    /\ n \in DOMAIN kc
    /\ directs' = directs + 1
    /\ kc' = Cut(kc, n)
    /\ settled' = FALSE
    /\ UNCHANGED <<asset_files, uploads, uploading, sync>>

----------------------------------------------------------------------------
(* The requests of a task.  KoBoCAT refuses a second file of a name, and does *)
(* not find a file that is gone; any answer but the expected one ends it.     *)

Ended == [pc |-> "done", kc_files |-> << >>, todo |-> {}, file |-> NoFile]
SyncIs(y, next) == sync' = [sync EXCEPT ![y] = next]

RequestDelete(y, n, next) ==
    IF n \in DOMAIN kc /\ kc[n].pk = sync[y].kc_files[n].pk
    THEN kc' = Cut(kc, n) /\ SyncIs(y, next)
    ELSE UNCHANGED kc /\ SyncIs(y, Ended)

\* `__save_kc_metadata`: the row is saved after the request, if it is still there.
RequestPost(y, file, next) ==
    IF file.name \in DOMAIN kc
    THEN SyncIs(y, Ended) /\ UNCHANGED kc
    ELSE /\ kc' = Put(kc, file.name, [pk |-> NewKey(file.name), hash |-> file.hash, from_kpi |-> TRUE])
         /\ SyncIs(y, IF file.f \in DOMAIN asset_files THEN next ELSE Ended)

----------------------------------------------------------------------------
(* `sync_media_files` *)

StartSync(y) ==
    /\ sync[y].pc = "queued"
    /\ \A z \in Syncs : z < y => sync[z].pc # "queued"
    /\ SyncIs(y, [sync[y] EXCEPT !.pc = "load", !.kc_files = kc])
    /\ settled' = (NamesAreUnique /\ \A z \in Syncs : sync[z].pc \in {"queued", "done"})
    /\ UNCHANGED <<asset_files, uploads, uploading, kc, directs>>

LoadFiles(y) ==
    /\ sync[y].pc = "load"
    /\ SyncIs(y, [sync[y] EXCEPT
         !.pc = "next",
         !.todo = {[f |-> f, name |-> asset_files[f].name, hash |-> asset_files[f].hash,
                    deleted |-> asset_files[f].deleted] : f \in DOMAIN asset_files}])
    /\ UNCHANGED <<asset_files, uploads, uploading, kc, directs, settled>>

\* Deleted files come first, otherwise the order is the database's.
First(todo) ==
    LET deleted == {file \in todo : file.deleted}
    IN  IF deleted = {} THEN todo ELSE deleted

\* Mutant: KoBoCAT's file is still taken for an orphan.
HandledKept(j, file) == [j EXCEPT !.pc = "next", !.todo = @ \ {file}, !.file = NoFile]

\* The file is done with, and KoBoCAT's of that name accounted for.
Handled(j, file) ==
    [j EXCEPT !.pc = "next", !.todo = @ \ {file}, !.file = NoFile,
              !.kc_files = Cut(@, file.name)]

\* KoBoCAT has no file of that name: a new file is posted, an old one vacuumed.
SyncAbsent(y, file) ==
    LET j == sync[y]
    IN  /\ file.name \notin DOMAIN j.kc_files
        /\ SyncIs(y, [j EXCEPT !.pc = IF file.deleted THEN "vacuum" ELSE "post",
                                !.file = file])
        /\ UNCHANGED kc

\* It has one: unless the hash is the same it is replaced, whoever uploaded it.
SyncPresent(y, file) ==
    LET j == sync[y]
    IN  /\ file.name \in DOMAIN j.kc_files
        /\ ~file.deleted
        /\ IF file.hash = j.kc_files[file.name].hash
           THEN SyncIs(y, Handled(j, file)) /\ UNCHANGED kc
           ELSE RequestDelete(y, file.name,
                              [j EXCEPT !.pc = "post", !.file = file])

\* Mutant: whoever uploaded KoBoCAT's file, it goes with KPI's.
SyncDeletedAll(y, file) ==
    LET j == sync[y]
    IN  /\ file.name \in DOMAIN j.kc_files
        /\ file.deleted
        /\ RequestDelete(y, file.name, [j EXCEPT !.pc = "vacuum", !.file = file])

\* The file was deleted in KPI: KoBoCAT's goes too if it came from KPI; if not it
\* stays, also in `kc_files`, for a new file of that name.
SyncDeleted(y, file) ==
    LET j == sync[y]
    IN  /\ file.name \in DOMAIN j.kc_files
        /\ file.deleted
        /\ IF j.kc_files[file.name].from_kpi
           THEN RequestDelete(y, file.name,
                              [j EXCEPT !.pc = "vacuum", !.file = file])
           ELSE /\ SyncIs(y, [j EXCEPT !.pc = "vacuum", !.file = file])
                /\ UNCHANGED kc

SyncFile(y) ==
    /\ sync[y].pc = "next"
    /\ \E file \in First(sync[y].todo) :
         SyncAbsent(y, file) \/ SyncPresent(y, file) \/ SyncDeleted(y, file)
    /\ UNCHANGED <<asset_files, uploads, uploading, directs, settled>>

PostFile(y) ==
    /\ sync[y].pc = "post"
    /\ RequestPost(y, sync[y].file, Handled(sync[y], sync[y].file))
    /\ UNCHANGED <<asset_files, uploads, uploading, directs, settled>>

\* `delete(force=True)`: the row and its content go, if they are still there.
Vacuum(y) ==
    LET j == sync[y]
        spared == j.file.name \in DOMAIN j.kc_files /\ ~j.kc_files[j.file.name].from_kpi
    IN  /\ j.pc = "vacuum"
        /\ asset_files' = Cut(asset_files, j.file.f)
        /\ SyncIs(y, IF spared THEN [j EXCEPT !.pc = "next", !.todo = @ \ {j.file},
                                               !.file = NoFile]
                      ELSE Handled(j, j.file))
        /\ UNCHANGED <<uploads, uploading, kc, directs, settled>>

\* What is left in `kc_files` was uploaded through KPI, or directly.
RemoveOrphan(y) ==
    LET j == sync[y]
        orphans == {n \in DOMAIN j.kc_files : j.kc_files[n].from_kpi}
    IN  /\ j.pc = "next" /\ j.todo = {}
        /\ IF orphans = {} THEN SyncIs(y, Ended) /\ UNCHANGED kc
           ELSE \E n \in orphans :
                  RequestDelete(y, n,
                                [j EXCEPT !.kc_files = Cut(@, n)])
        /\ UNCHANGED <<asset_files, uploads, uploading, directs, settled>>

\* The process dies, or a request fails before or (two steps) after it has had
\* its effect: nothing runs the task again.
KillSync(y) ==
    /\ sync[y].pc \notin {"queued", "done"}
    /\ SyncIs(y, Ended)
    /\ settled' = FALSE
    /\ UNCHANGED <<asset_files, uploads, uploading, kc, directs>>

MediaNext ==
    \/ \E n \in Names :
         \/ \E hash \in Hashes : ValidateUpload(n, hash) \/ UploadToKc(n, hash)
         \/ DeleteFromKc(n)
    \/ \E u \in uploading : SaveUpload(u)
    \/ \E f \in DOMAIN asset_files : DeleteFile(f)
    \/ \E y \in Syncs :
         \/ StartSync(y) \/ LoadFiles(y) \/ SyncFile(y) \/ PostFile(y) \/ Vacuum(y)
         \/ RemoveOrphan(y) \/ KillSync(y)

MediaSpec == MediaInit /\ [][MediaNext]_mediaVars

----------------------------------------------------------------------------
(* Properties *)

\* KoBoCAT has the live files of KPI, and of KPI no other; nothing waits to be
\* vacuumed.
Mirrored ==
    /\ \A f \in DOMAIN asset_files :
         /\ f \in Live
         /\ asset_files[f].name \in DOMAIN kc
         /\ kc[asset_files[f].name].hash = asset_files[f].hash
    /\ \A n \in DOMAIN kc :
         kc[n].from_kpi => \E f \in Live : asset_files[f].name = n

\* Whatever failed tasks, overlapping tasks and direct uploads have left behind,
\* one task that runs alone to its end repairs it.  The exception is two live files
\* of one name, which two overlapping uploads leave (`settled`): KoBoCAT refuses the
\* second of them, which ends every task until one is deleted.
MirrorsWhenAlone ==
    settled /\ (\A y \in Syncs : sync[y].pc \in {"queued", "done"}) => Mirrored

\* A file that was uploaded directly to KoBoCAT is not KPI's to delete, unless
\* KPI has another file to put in its place.
DirectFilesStay ==
    [][\A n \in DOMAIN kc :
         ~kc[n].from_kpi /\ directs' = directs /\ ~(n \in DOMAIN kc' /\ kc'[n].pk = kc[n].pk)
           => \E y \in Syncs : sync'[y].pc = "post" /\ sync'[y].file.name = n]_mediaVars
=============================================================================
