------------------------------ MODULE MediaBackups ------------------------------
(***************************************************************************)
(* The media library and the backups of one process: uploads and deletions   *)
(* work on a file and then on its row; a backup dumps the rows and then      *)
(* archives the files, one of them at a time, while the library goes on; a   *)
(* restore puts a dump or an archive back.  The lock of the Manager admits   *)
(* one backup or restore, whoever asks (an administrator or the scheduler);  *)
(* deleting a backup by hand asks for no lock.                               *)
(*                                                                          *)
(* A file is whole or only a part, a dump is the set of rows in it, and a    *)
(* name is the second of its creation with the suffix that made it unique.   *)
(* The upload directory is on the local disk, as the server configures it.   *)
(***************************************************************************)
EXTENDS Integers, Sequences, FiniteSets, Functions, TLC

CONSTANTS
    Media,        \* files with their rows: the name is a hash, never used twice
    Users,        \* requests of the library at work at the same time
    Drivers,      \* of the database: among "postgres", "mysql", "sqlite"
    MaxBackups,   \* retention, per kind of backup
    MaxSeconds,   \* bound: the clock
    MaxJobs,      \* bound: backups, restores and deletions of a backup
    MaxFailures   \* bound: failing steps and deaths of the process

ASSUME BackupBounds ==
    /\ {MaxBackups, MaxSeconds, MaxJobs, MaxFailures} \subseteq Nat
    /\ MaxSeconds # 0

VARIABLES
    driver,       \* the database
    mediaRows, files,
    library,      \* library[u]: what request u does
    store,        \* the backup directory: what each file in it holds
    job,          \* what the Manager's lock is held for
    open,         \* FALSE when a restore of SQLite has closed the connection
    second, jobs, failures,
    bare,         \* history: rows without file that a failed or dead deletion
                  \* or a restored dump left behind
    clipped       \* history: files overwritten by a truncated copy of an archive

backupVars == <<driver, mediaRows, files, library, store, job, open, second, jobs,
                failures, bare, clipped>>

Kinds   == {"db", "media"}
Names   == [kind : Kinds, second : 1 .. MaxSeconds, suffix : 0 .. MaxJobs]
Content == [state : {"growing", "head", "data", "whole"},
            meant : SUBSET Media, holds : SUBSET Media, clips : SUBSET Media]
Jobs    == [op : {"db", "media", "all", "restore"},
            step : {"begin", "dump", "read", "retain", "apply", "extract", "answer",
                     "restored"},
            parts : {<<>>, <<"db">>, <<"media">>, <<"db", "media">>},
            name : Names \cup {[none |-> TRUE]}, left : SUBSET Media,
            rows : SUBSET Media, holds : SUBSET Media, clips : SUBSET Media,
            gone : SUBSET Media, dropped : SUBSET Names, kept : SUBSET Names,
            how : {"", "head", "data", "whole", "failed"}]
NoCall    == [step |-> "idle"]
Calls   == [op : {"upload", "delete"}, step : {"write", "row", "files"},
            ids : SUBSET Media, left : SUBSET Media]

BackupsTypeOK ==
    /\ driver \in Drivers
    /\ mediaRows \subseteq Media
    /\ files \in [Media -> {"never", "none", "part", "whole"}]
    /\ \A u \in Users : library[u] = NoCall \/ library[u] \in Calls
    /\ DOMAIN store \subseteq Names /\ \A n \in DOMAIN store : store[n] \in Content
    /\ job = NoCall \/ job \in Jobs
    /\ open \in BOOLEAN
    /\ second \in 1 .. MaxSeconds /\ jobs \in 0 .. MaxJobs /\ failures \in 0 .. MaxFailures
    /\ bare \subseteq Media /\ clipped \subseteq Media

BackupsInit ==
    /\ driver \in Drivers
    /\ mediaRows = {} /\ files = [m \in Media |-> "never"]
    /\ library = [u \in Users |-> NoCall]
    /\ store = <<>> /\ job = NoCall /\ open = TRUE
    /\ second = 1 /\ jobs = 0 /\ failures = 0
    /\ bare = {} /\ clipped = {}

MayFail == failures < MaxFailures /\ failures' = failures + 1

Whole(m) == files[m] = "whole"
OnDisk   == {m \in Media : files[m] \in {"part", "whole"}}
Deleting == {u \in Users : library[u] # NoCall /\ library[u].op = "delete"}

---------------------------------------------------------------------------------
(* The media library.                                                        *)

backupSide == <<driver, store, job, open, second, jobs>>

(* An upload creates its file under a name of its own,                       *)
StartUpload(u, m) ==
    /\ library[u] = NoCall /\ files[m] = "never"
    /\ files' = [files EXCEPT ![m] = "part"]
    /\ library' = [library EXCEPT ![u] =
                     [op |-> "upload", step |-> "write", ids |-> {m}, left |-> {}]]
    /\ UNCHANGED <<mediaRows, failures, bare, clipped, backupSide>>

(* writes it out, unless an extraction has cut it meanwhile,                 *)
WriteFile(u, m) ==
    /\ library[u].step = "write" /\ library[u].ids = {m}
    /\ files' = [files EXCEPT ![m] = IF m \in clipped THEN "part" ELSE "whole"]
    /\ library' = [library EXCEPT ![u].step = "row"]
    /\ UNCHANGED <<mediaRows, failures, bare, clipped, backupSide>>

(* and inserts the row.                                                      *)
InsertRow(u, m) ==
    /\ library[u] # NoCall /\ library[u].op = "upload" /\ library[u].step = "row"
    /\ library[u].ids = {m} /\ open
    /\ mediaRows' = mediaRows \cup {m}
    /\ library' = [library EXCEPT ![u] = NoCall]
    /\ UNCHANGED <<files, failures, bare, clipped, backupSide>>

(* A write or an insert that fails takes the file away again.                *)
UploadFails(u, m) ==
    /\ library[u] # NoCall /\ library[u].op = "upload" /\ library[u].ids = {m}
    /\ IF library[u].step = "row" /\ ~open THEN UNCHANGED failures ELSE MayFail
    /\ files' = [files EXCEPT ![m] = "none"]
    /\ clipped' = clipped \ {m}
    /\ library' = [library EXCEPT ![u] = NoCall]
    /\ UNCHANGED <<mediaRows, bare, backupSide>>

(* Delete and BulkDelete find the rows and take their files away, one by     *)
(* one; a single deletion of no row is refused.                              *)
StartDelete(u, ids) ==
    /\ library[u] = NoCall /\ open
    /\ ids \cap mediaRows # {} \/ Cardinality(ids) > 1
    /\ library' = [library EXCEPT ![u] =
                     [op |-> "delete", ids |-> ids, left |-> ids \cap mediaRows,
                      step |-> IF ids \cap mediaRows = {} THEN "row" ELSE "files"]]
    /\ UNCHANGED <<mediaRows, files, failures, bare, clipped, backupSide>>

removeStoredFile(u, m) ==
    /\ library[u].step = "files" /\ m \in library[u].left
    /\ files' = [files EXCEPT ![m] = "none"]
    /\ clipped' = clipped \ {m}
    /\ library' = [library EXCEPT ![u].left = @ \ {m},
                                  ![u].step = IF library[u].left = {m} THEN "row" ELSE @]
    /\ job' = IF job # NoCall /\ job.op = "all" THEN [job EXCEPT !.gone = @ \cup {m}] ELSE job
    /\ UNCHANGED <<driver, mediaRows, store, open, second, jobs, failures, bare>>

(* The deletion of the rows names all the ids of the request.                *)
DeletedIds(ids) == ids

DeleteByIDs(u) ==
    /\ library[u] # NoCall /\ library[u].op = "delete" /\ library[u].step = "row" /\ open
    /\ mediaRows' = mediaRows \ DeletedIds(library[u].ids)
    /\ bare' = bare \ library[u].ids
    /\ library' = [library EXCEPT ![u] = NoCall]
    /\ UNCHANGED <<files, failures, clipped, backupSide>>

DeleteFails(u) ==
    /\ library[u] # NoCall /\ library[u].op = "delete" /\ library[u].step = "row"
    /\ IF open THEN MayFail ELSE UNCHANGED failures
    /\ library' = [library EXCEPT ![u] = NoCall]
    /\ bare' = bare \cup (library[u].ids \cap mediaRows)
    /\ UNCHANGED <<mediaRows, files, clipped, backupSide>>

---------------------------------------------------------------------------------
(* The backup directory.                                                     *)

OfKind(kind) == {n \in DOMAIN store : n.kind = kind}

Name(kind, at, i) == [kind |-> kind, second |-> at, suffix |-> i]

(* The first free name: the plain one, or else "-1", "-2", ...               *)
uniquePath(kind, at) ==
    Name(kind, at, CHOOSE i \in 0 .. MaxJobs :
                     /\ Name(kind, at, i) \notin DOMAIN store
                     /\ \A k \in 0 .. i - 1 : Name(kind, at, k) \in DOMAIN store)

(* The order of the names: '-' comes before '.', so within one second the    *)
(* plain name is the last.                                                   *)
SortsBefore(a, b) ==
    \/ a.second < b.second
    \/ /\ a.second = b.second /\ a.suffix # 0
       /\ b.suffix = 0 \/ a.suffix < b.suffix

(* What retention removes: the first names beyond MaxBackups.                *)
Surplus(kind) ==
    IF MaxBackups = 0 THEN {}
    ELSE {n \in OfKind(kind) : Cardinality({k \in OfKind(kind) : SortsBefore(k, n)})
                                 < Cardinality(OfKind(kind)) - MaxBackups}

(* A file that was deleted by hand while it was written stays away.          *)
Put(n, content) ==
    store' = IF n \in DOMAIN store THEN [store EXCEPT ![n] = content] ELSE store

DeleteBackup(n) ==
    /\ n \in DOMAIN store /\ jobs < MaxJobs
    /\ jobs' = jobs + 1
    /\ store' = Restrict(store, DOMAIN store \ {n})
    /\ UNCHANGED <<driver, mediaRows, files, library, job, open, second, failures,
                   bare, clipped>>

---------------------------------------------------------------------------------
(* Backups.                                                                  *)

atLibrary   == <<driver, mediaRows, files, library, open, bare, clipped>>
librarySide == <<second, atLibrary>>

(* For the mutant: the files first.                                          *)
PartsFilesFirst(op) ==
    CASE op = "db" -> <<"db">> [] op = "media" -> <<"media">> [] op = "all" -> <<"media", "db">>

Parts(op) ==
    CASE op = "db" -> <<"db">> [] op = "media" -> <<"media">> [] op = "all" -> <<"db", "media">>

(* The lock is tried once; whoever finds it taken is refused.                *)
TryLock(op) ==
    /\ job = NoCall /\ jobs < MaxJobs
    /\ jobs' = jobs + 1
    /\ job' = [op |-> op, step |-> "begin", parts |-> Parts(op), name |-> [none |-> TRUE],
               left |-> {}, rows |-> {}, holds |-> {}, clips |-> {},
               gone |-> {}, dropped |-> {}, kept |-> {}, how |-> ""]
    /\ UNCHANGED <<store, failures, librarySide>>

(* A part begins with a name made of the time of day.                        *)
NewFile(kind, meant) ==
    \E at \in second .. MaxSeconds :
        LET n == uniquePath(kind, at)
        IN  /\ second' = at
            /\ store' = [k \in DOMAIN store \cup {n} |->
                            IF k \in DOMAIN store THEN store[k]
                            ELSE [state |-> "growing", meant |-> meant,
                                  holds |-> {}, clips |-> {}]]
            /\ job' = [job EXCEPT !.name = n, !.dropped = {}, !.kept = {},
                          !.step = IF kind = "db" THEN "dump" ELSE "read",
                          !.rows = IF kind = "db" THEN meant ELSE @,
                          !.left = IF kind = "db" THEN {} ELSE OnDisk,
                          !.gone = IF job.op = "all" THEN @ \cup {m \in meant : ~Whole(m)}
                                   ELSE @]

(* The dump is a snapshot of the rows as they are when it begins.            *)
backupDB ==
    /\ job.step = "begin" /\ Head(job.parts) = "db" /\ open
    /\ NewFile("db", mediaRows)
    /\ UNCHANGED <<jobs, failures, atLibrary>>

(* Without connection there is no dump and no file.                          *)
backupDBRefused ==
    /\ job.step = "begin" /\ Head(job.parts) = "db" /\ ~open
    /\ job' = NoCall
    /\ UNCHANGED <<store, jobs, failures, librarySide>>

dumpTo ==
    /\ job.step = "dump"
    /\ Put(job.name, [state |-> "whole", meant |-> job.rows, holds |-> job.rows, clips |-> {}])
    /\ job' = [job EXCEPT !.step = "retain"]
    /\ UNCHANGED <<jobs, failures, librarySide>>

(* The walk lists the directory before it reads the files.                   *)
backupMediaImpl ==
    /\ job.step = "begin" /\ Head(job.parts) = "media"
    /\ NewFile("media", {})
    /\ UNCHANGED <<jobs, failures, atLibrary>>

(* A file still being written is archived as far as it goes.                 *)
ReadFile(m) ==
    /\ job.step = "read" /\ m \in job.left /\ m \in OnDisk
    /\ job' = [job EXCEPT !.left = @ \ {m},
                          !.holds = IF Whole(m) THEN @ \cup {m} ELSE @,
                          !.clips = IF Whole(m) THEN @ ELSE @ \cup {m}]
    /\ UNCHANGED <<store, jobs, failures, librarySide>>

tarGz ==
    /\ job.step = "read" /\ job.left = {}
    /\ Put(job.name, [state |-> "whole", meant |-> {}, holds |-> job.holds, clips |-> job.clips])
    /\ job' = [job EXCEPT !.step = "retain"]
    /\ UNCHANGED <<jobs, failures, librarySide>>

(* What is left of a file whose writing stopped: a dump without all its      *)
(* tables or its version, or one cut in its data; an archive up to some      *)
(* file, possibly with an entry cut short.                                   *)
CutShort ==
    \/ /\ job.step = "dump"
       /\ \E state \in {"head", "data"}, held \in SUBSET job.rows :
             /\ state = "head" => held = {}
             /\ Put(job.name, [state |-> state, meant |-> job.rows, holds |-> held, clips |-> {}])
    \/ /\ job.step = "read"
       /\ \E half \in SUBSET job.left :
             /\ Cardinality(half) <= 1
             /\ Put(job.name, [state |-> "data", meant |-> {}, holds |-> job.holds,
                               clips |-> job.clips \cup half])

(* A dump fails, or a file was removed or grew after the walk listed it; the *)
(* unfinished file stays in the directory.                                   *)
BackupFails ==
    /\ job.step \in {"dump", "read"}
    /\ IF \E m \in job.left : ~Whole(m) THEN UNCHANGED failures ELSE MayFail
    /\ CutShort
    /\ job' = NoCall
    /\ UNCHANGED <<jobs, librarySide>>

cleanup ==
    /\ job.step = "retain"
    /\ LET dropped == Surplus(job.name.kind)
       IN  /\ store' = Restrict(store, DOMAIN store \ dropped)
           /\ job' = [job EXCEPT !.parts = Tail(@),
                                 !.step = IF Tail(job.parts) = <<>> THEN "answer" ELSE "begin",
                                 !.dropped = dropped,
                                 !.kept = OfKind(job.name.kind) \ dropped]
    /\ UNCHANGED <<jobs, failures, librarySide>>

---------------------------------------------------------------------------------
(* Restores.                                                                 *)

(* A dump is accepted when its version and all the tables are in it.         *)
Verified(n) == open /\ store[n].state \in {"data", "whole"}

RestoreJob(n, step, left) ==
    [op |-> "restore", step |-> step, parts |-> <<>>, name |-> n, left |-> left,
     rows |-> {}, holds |-> store[n].holds, clips |-> store[n].clips, gone |-> {},
     dropped |-> {}, kept |-> {}, how |-> ""]

(* SQLite is closed before its file is overwritten.                          *)
restoreDB(n) ==
    /\ job = NoCall /\ jobs < MaxJobs
    /\ n \in OfKind("db") /\ Verified(n)
    /\ jobs' = jobs + 1
    /\ job' = RestoreJob(n, "apply", {})
    /\ open' = (driver # "sqlite")
    /\ UNCHANGED <<driver, mediaRows, files, library, store, second, failures, bare, clipped>>

(* The rows become those of the dump.                                        *)
BecomeRows(rows, how) ==
    /\ mediaRows' = rows
    /\ bare' = {m \in rows : ~Whole(m)}
    /\ job' = [job EXCEPT !.step = "restored", !.rows = store[job.name].meant,
                          !.holds = rows, !.how = how]

ApplyDump ==
    /\ job.step = "apply" /\ job.name \in DOMAIN store
    /\ BecomeRows(store[job.name].holds, store[job.name].state)
    /\ UNCHANGED <<driver, files, library, store, open, second, jobs, failures, clipped>>

(* The dump fails to apply, or was deleted before it was opened; only        *)
(* PostgreSQL applies it in a transaction, and what the others leave of a    *)
(* restore that stops half way is any part of it.                            *)
ApplyFails ==
    /\ job.step = "apply"
    /\ IF job.name \in DOMAIN store THEN MayFail ELSE UNCHANGED failures
    /\ IF driver = "postgres" \/ job.name \notin DOMAIN store
       THEN job' = NoCall /\ UNCHANGED <<mediaRows, bare>>
       ELSE \E rows \in SUBSET store[job.name].holds : BecomeRows(rows, "failed")
    /\ UNCHANGED <<driver, files, library, store, open, second, jobs, clipped>>

(* An archive is extracted unseen, whatever is in it,                        *)
restoreMediaImpl(n) ==
    /\ job = NoCall /\ jobs < MaxJobs
    /\ n \in OfKind("media")
    /\ jobs' = jobs + 1
    /\ job' = RestoreJob(n, "extract", store[n].holds \cup store[n].clips)
    /\ UNCHANGED <<store, failures, librarySide>>

(* one file over another: it overwrites and adds, and never removes.         *)
untarGz(m) ==
    /\ job.step = "extract" /\ m \in job.left
    /\ files' = [files EXCEPT ![m] = IF m \in job.clips THEN "part" ELSE "whole"]
    /\ clipped' = IF m \in job.clips THEN clipped \cup {m} ELSE clipped \ {m}
    /\ job' = [job EXCEPT !.left = @ \ {m}]
    /\ UNCHANGED <<driver, mediaRows, library, store, open, second, jobs, failures, bare>>

(* It ends, or fails before its end.                                         *)
ExtractEnds ==
    /\ job.step = "extract"
    /\ IF job.left = {} THEN UNCHANGED failures ELSE MayFail
    /\ job' = NoCall
    /\ UNCHANGED <<store, jobs, librarySide>>

---------------------------------------------------------------------------------
(* The backup or the restore of a dump returns and gives the lock back.      *)
Unlock ==
    /\ job.step \in {"answer", "restored"}
    /\ job' = NoCall
    /\ UNCHANGED <<store, jobs, failures, librarySide>>

(* The process dies and starts anew: no request goes on, the lock is free,   *)
(* and the connection is opened anew.  A dump half applied by then is the    *)
(* case of ApplyFails followed by a restart.                                 *)
Restart ==
    /\ MayFail
    /\ library' = [u \in Users |-> NoCall]
    /\ bare' = bare \cup (mediaRows \cap UNION {library[u].ids : u \in Deleting})
    /\ IF job.step \in {"dump", "read"} THEN CutShort ELSE UNCHANGED store
    /\ job' = NoCall /\ open' = TRUE
    /\ UNCHANGED <<driver, mediaRows, files, second, jobs, clipped>>

BackupsNext ==
    \/ \E u \in Users, m \in Media :
          \/ StartUpload(u, m) \/ WriteFile(u, m) \/ InsertRow(u, m) \/ UploadFails(u, m)
          \/ removeStoredFile(u, m)
    \/ \E u \in Users, ids \in SUBSET Media : StartDelete(u, ids)
    \/ \E u \in Users : DeleteByIDs(u) \/ DeleteFails(u)
    \/ \E n \in DOMAIN store : DeleteBackup(n) \/ restoreDB(n) \/ restoreMediaImpl(n)
    \/ \E op \in {"db", "media", "all"} : TryLock(op)
    \/ backupDB \/ backupDBRefused \/ dumpTo \/ backupMediaImpl \/ tarGz \/ BackupFails
    \/ cleanup \/ Unlock
    \/ \E m \in Media : ReadFile(m) \/ untarGz(m)
    \/ ApplyDump \/ ApplyFails \/ ExtractEnds
    \/ Restart

---------------------------------------------------------------------------------
(* A row has its whole file, unless a deletion is taking it away or died or  *)
(* failed before the row, a dump brought the row back, or an archive that    *)
(* caught the upload half way was extracted over it.                         *)
RowsHaveFiles ==
    \A m \in mediaRows :
        \/ Whole(m) \/ m \in bare \cup clipped
        \/ \E u \in Deleting : m \in library[u].ids

(* The rows of a full backup have their files in its archive, although the   *)
(* library went on between dump and archive, unless the file was missing     *)
(* already or a deletion took it away during the backup.                     *)
PairsAreComplete ==
    job.step = "answer" /\ job.op = "all" => job.rows \ job.holds \subseteq job.gone

(* Retention never removes a file of a later second than one it keeps, keeps *)
(* as many as configured, and only drops the backup just made for others of  *)
(* the same second.                                                          *)
KeptAreNewest ==
    job # NoCall /\ job.dropped # {} =>
        /\ Cardinality(job.kept) = MaxBackups
        /\ \A d \in job.dropped, k \in job.kept : d.second <= k.second

(* The rows are those of the dump's snapshot after every restore, except of  *)
(* a dump cut in its data, whose tables are all there, and of a restore that *)
(* stopped half way outside a transaction.                                   *)
RestoredIsWhole ==
    job.step = "restored" /\ job.holds # job.rows =>
        \/ job.how = "data"
        \/ job.how = "failed" /\ driver # "postgres"

(* Files, rows and backups agree.                                            *)
BackupsHold == RowsHaveFiles /\ PairsAreComplete /\ KeptAreNewest /\ RestoredIsWhole
=================================================================================
