---------------------------- MODULE OperationsProofs ----------------------------
(***************************************************************************)
(* Proofs about the library with its backups, the tree of categories and the *)
(* tags: what the run of MCOperations checks of them, for every value of the *)
(* constants.  Each of the three has an inductive invariant of its own       *)
(* (BackupInv, TreeInv, TagInv), kept by its steps and by rest.              *)
(***************************************************************************)
EXTENDS MCOperations, FiniteSetTheorems, SequenceTheorems, WellFoundedInduction, TLAPS

(* What a request of the library is at.                                      *)

AtCall(u)  == library[u] # NoCall
Uploads(u) == AtCall(u) /\ library[u].op = "upload"
Deletes(u) == AtCall(u) /\ library[u].op = "delete"

CallFits(c) ==
    /\ c.op = "upload" => c.step \in {"write", "row"} /\ \E m \in Media : c.ids = {m}
    /\ c.op = "delete" => c.step \in {"row", "files"} /\ c.left \subseteq c.ids

BackupTypes ==
    /\ BackupsTypeOK
    /\ library \in [Users -> Calls \cup {NoCall}]
    /\ store \in [DOMAIN store -> Content]
    /\ \A u \in Users : AtCall(u) => CallFits(library[u])

LEMMA BackupNats ==
    /\ MaxBackups \in Nat /\ MaxSeconds \in Nat /\ MaxJobs \in Nat /\ MaxFailures \in Nat
    /\ MaxSeconds # 0
  BY BackupBounds

LEMMA JobOrNone ==
    ASSUME BackupTypes
    PROVE  /\ job \in Jobs \/ job = NoCall
           /\ job # NoCall <=> job \in Jobs
           /\ job = NoCall => job.step = "idle"
           /\ job \in Jobs => job.step # "idle"
  <1>1. \A j \in Jobs : j.step # "idle"
    BY DEF Jobs
  <1>2. NoCall.step = "idle"
    BY DEF NoCall
  <1> QED
    BY <1>1, <1>2 DEF BackupTypes, BackupsTypeOK

LEMMA JobFields ==
    ASSUME NEW j \in Jobs
    PROVE  /\ j.op \in {"db", "media", "all", "restore"}
           /\ j.step \in {"begin", "dump", "read", "retain", "apply", "extract", "answer", "restored"}
           /\ j.parts \in {<<>>, <<"db">>, <<"media">>, <<"db", "media">>}
           /\ j.name \in Names \cup {[none |-> TRUE]}
           /\ j.left \subseteq Media /\ j.rows \subseteq Media /\ j.holds \subseteq Media
           /\ j.clips \subseteq Media /\ j.gone \subseteq Media
           /\ j.dropped \subseteq Names /\ j.kept \subseteq Names
           /\ j.how \in {"", "head", "data", "whole", "failed"}
  BY DEF Jobs

LEMMA CallOrNone ==
    ASSUME BackupTypes, NEW u \in Users
    PROVE  /\ library[u] \in Calls \/ library[u] = NoCall
           /\ AtCall(u) <=> library[u] \in Calls
           /\ AtCall(u) <=> library[u].step # "idle"
           /\ AtCall(u) => /\ library[u].op \in {"upload", "delete"}
                           /\ library[u].step \in {"write", "row", "files"}
                           /\ library[u].ids \subseteq Media /\ library[u].left \subseteq Media
                           /\ CallFits(library[u])
  <1>1. \A c \in Calls : /\ c.step \in {"write", "row", "files"} /\ c.op \in {"upload", "delete"}
                         /\ c.ids \subseteq Media /\ c.left \subseteq Media
    BY DEF Calls
  <1>2. NoCall.step = "idle"
    BY DEF NoCall
  <1>3. library[u] \in Calls \cup {NoCall}
    BY DEF BackupTypes
  <1>4. AtCall(u) <=> library[u] \in Calls
    BY <1>1, <1>2, <1>3 DEF AtCall
  <1>5. AtCall(u) => CallFits(library[u])
    BY DEF BackupTypes
  <1> QED
    BY <1>1, <1>2, <1>3, <1>4, <1>5 DEF AtCall

(* What a request is at, and the others stay at.                             *)
LEMMA CallTypes ==
    ASSUME BackupTypes, NEW u \in Users, NEW c \in Calls \cup {NoCall}, c # NoCall => CallFits(c),
           library' = [library EXCEPT ![u] = c]
    PROVE  /\ library' \in [Users -> Calls \cup {NoCall}]
           /\ (\A v \in Users : library[v] = NoCall \/ library[v] \in Calls)'
           /\ (\A v \in Users : AtCall(v) => CallFits(library[v]))'
  <1>1. library \in [Users -> Calls \cup {NoCall}] /\ \A v \in Users : AtCall(v) => CallFits(library[v])
    BY DEF BackupTypes
  <1>2. library' \in [Users -> Calls \cup {NoCall}]
    BY <1>1
  <1>3. ASSUME NEW v \in Users
        PROVE  (AtCall(v) => CallFits(library[v]))'
    <2>1. CASE v = u
      <3>1. library'[v] = c
        BY <1>1, <2>1
      <3> QED
        BY <3>1 DEF AtCall, CallFits
    <2>2. CASE v # u
      <3>1. library'[v] = library[v]
        BY <1>1, <2>2
      <3> QED
        BY <1>1, <3>1 DEF AtCall, CallFits
    <2> QED
      BY <2>1, <2>2
  <1> QED
    BY <1>2, <1>3

LEMMA FailureTypes ==
    ASSUME BackupTypes, MayFail \/ UNCHANGED failures
    PROVE  failures' \in 0 .. MaxFailures
  BY BackupNats DEF BackupTypes, BackupsTypeOK, MayFail

LibraryStays ==
    /\ library' \in [Users -> Calls \cup {NoCall}]
    /\ (\A v \in Users : library[v] = NoCall \/ library[v] \in Calls)'
    /\ (\A v \in Users : AtCall(v) => CallFits(library[v]))'

LEMMA TypesFrom ==
    ASSUME driver' \in Drivers, mediaRows' \subseteq Media,
           files' \in [Media -> {"never", "none", "part", "whole"}],
           LibraryStays,
           DOMAIN store' \subseteq Names, store' \in [DOMAIN store' -> Content],
           job' = NoCall \/ job' \in Jobs, open' \in BOOLEAN,
           second' \in 1 .. MaxSeconds, jobs' \in 0 .. MaxJobs, failures' \in 0 .. MaxFailures,
           bare' \subseteq Media, clipped' \subseteq Media
    PROVE  BackupTypes'
  <1>1. \A n \in DOMAIN store' : store'[n] \in Content
    OBVIOUS
  <1>2. BackupsTypeOK'
    BY <1>1 DEF BackupsTypeOK, LibraryStays
  <1>3. /\ library' \in [Users -> Calls \cup {NoCall}]
        /\ (\A u \in Users : AtCall(u) => CallFits(library[u]))'
    BY DEF LibraryStays
  <1> QED
    BY <1>2, <1>3 DEF BackupTypes

LEMMA TypesAre ==
    ASSUME BackupTypes
    PROVE  /\ driver \in Drivers /\ mediaRows \subseteq Media
           /\ files \in [Media -> {"never", "none", "part", "whole"}]
           /\ library \in [Users -> Calls \cup {NoCall}]
           /\ DOMAIN store \subseteq Names /\ store \in [DOMAIN store -> Content]
           /\ \A n \in DOMAIN store : store[n] \in Content
           /\ job = NoCall \/ job \in Jobs
           /\ open \in BOOLEAN
           /\ second \in 1 .. MaxSeconds /\ jobs \in 0 .. MaxJobs /\ failures \in 0 .. MaxFailures
           /\ bare \subseteq Media /\ clipped \subseteq Media
  BY DEF BackupTypes, BackupsTypeOK

LEMMA StartUploadTypes ==
    ASSUME BackupTypes, NEW u \in Users, NEW m \in Media, StartUpload(u, m)
    PROVE  BackupTypes'
  <1> DEFINE c == [op |-> "upload", step |-> "write", ids |-> {m}, left |-> {}]
  <1>1. c \in Calls /\ CallFits(c)
    BY DEF Calls, CallFits
  <1>2. library' = [library EXCEPT ![u] = c]
    BY DEF StartUpload
  <1> HIDE DEF c
  <1>3. LibraryStays
    BY <1>1, <1>2, CallTypes DEF LibraryStays
  <1>4. files' \in [Media -> {"never", "none", "part", "whole"}]
    BY DEF BackupTypes, BackupsTypeOK, StartUpload
  <1> QED
    BY <1>3, <1>4, TypesAre, TypesFrom DEF StartUpload, backupSide

LEMMA WriteFileTypes ==
    ASSUME BackupTypes, NEW u \in Users, NEW m \in Media, WriteFile(u, m)
    PROVE  BackupTypes'
  <1> DEFINE c == [library[u] EXCEPT !.step = "row"]
  <1>0. library[u] \in Calls /\ CallFits(library[u])
    BY CallOrNone DEF WriteFile, AtCall
  <1>1. c \in Calls /\ CallFits(c)
    BY <1>0 DEF Calls, CallFits, WriteFile
  <1>2. library' = [library EXCEPT ![u] = c]
    BY DEF WriteFile
  <1> HIDE DEF c
  <1>3. LibraryStays
    BY <1>1, <1>2, CallTypes DEF LibraryStays
  <1>4. files' \in [Media -> {"never", "none", "part", "whole"}]
    BY DEF BackupTypes, BackupsTypeOK, WriteFile
  <1> QED
    BY <1>3, <1>4, TypesAre, TypesFrom DEF WriteFile, backupSide

LEMMA InsertRowTypes ==
    ASSUME BackupTypes, NEW u \in Users, NEW m \in Media, InsertRow(u, m)
    PROVE  BackupTypes'
  <1>1. LibraryStays
    BY CallTypes DEF LibraryStays, InsertRow
  <1> QED
    BY <1>1, TypesAre, TypesFrom DEF InsertRow, backupSide

LEMMA UploadFailsTypes ==
    ASSUME BackupTypes, NEW u \in Users, NEW m \in Media, UploadFails(u, m)
    PROVE  BackupTypes'
  <1>1. LibraryStays
    BY CallTypes DEF LibraryStays, UploadFails
  <1>2. failures' \in 0 .. MaxFailures
    BY FailureTypes DEF UploadFails
  <1>3. files' \in [Media -> {"never", "none", "part", "whole"}]
    BY DEF BackupTypes, BackupsTypeOK, UploadFails
  <1> QED
    BY <1>1, <1>2, <1>3, TypesAre, TypesFrom DEF UploadFails, backupSide

LEMMA StartDeleteTypes ==
    ASSUME BackupTypes, NEW u \in Users, NEW ids \in SUBSET Media, StartDelete(u, ids)
    PROVE  BackupTypes'
  <1> DEFINE c == [op |-> "delete", ids |-> ids, left |-> ids \cap mediaRows,
                   step |-> IF ids \cap mediaRows = {} THEN "row" ELSE "files"]
  <1>1. c \in Calls /\ CallFits(c)
    BY DEF Calls, CallFits
  <1>2. library' = [library EXCEPT ![u] = c]
    BY DEF StartDelete
  <1> HIDE DEF c
  <1>3. LibraryStays
    BY <1>1, <1>2, CallTypes DEF LibraryStays
  <1> QED
    BY <1>3, TypesAre, TypesFrom DEF StartDelete, backupSide

LEMMA RemoveFileTypes ==
    ASSUME BackupTypes, NEW u \in Users, NEW m \in Media, removeStoredFile(u, m)
    PROVE  BackupTypes'
  <1> DEFINE c == [library[u] EXCEPT !.left = library[u].left \ {m},
                                     !.step = IF library[u].left = {m} THEN "row" ELSE library[u].step]
  <1>0. library[u] \in Calls /\ CallFits(library[u])
    BY CallOrNone DEF removeStoredFile, AtCall
  <1>1. c \in Calls /\ CallFits(c)
    BY <1>0 DEF Calls, CallFits, removeStoredFile
  <1>2. library' = [library EXCEPT ![u] = c]
    BY DEF removeStoredFile
  <1> HIDE DEF c
  <1>3. LibraryStays
    BY <1>1, <1>2, CallTypes DEF LibraryStays
  <1>4. files' \in [Media -> {"never", "none", "part", "whole"}]
    BY DEF BackupTypes, BackupsTypeOK, removeStoredFile
  <1>5. job' = NoCall \/ job' \in Jobs
    <2>1. job \in Jobs => [job EXCEPT !.gone = job.gone \cup {m}] \in Jobs
      BY DEF Jobs
    <2> QED
      BY <2>1, JobOrNone DEF removeStoredFile
  <1> QED
    BY <1>3, <1>4, <1>5, TypesAre, TypesFrom DEF removeStoredFile

LEMMA DeleteRowsTypes ==
    ASSUME BackupTypes, NEW u \in Users, DeleteByIDs(u)
    PROVE  BackupTypes'
  <1>1. LibraryStays
    BY CallTypes DEF LibraryStays, DeleteByIDs
  <1> QED
    BY <1>1, TypesAre, TypesFrom DEF DeleteByIDs, backupSide

LEMMA DeleteFailsTypes ==
    ASSUME BackupTypes, NEW u \in Users, DeleteFails(u)
    PROVE  BackupTypes'
  <1>1. LibraryStays
    BY CallTypes DEF LibraryStays, DeleteFails
  <1>2. failures' \in 0 .. MaxFailures
    BY FailureTypes DEF DeleteFails
  <1>3. library[u].ids \subseteq Media
    BY CallOrNone DEF DeleteFails, AtCall
  <1> QED
    BY <1>1, <1>2, <1>3, TypesAre, TypesFrom DEF DeleteFails, backupSide

---------------------------------------------------------------------------------
(* Names of backups: each backup or restore that begins leaves room for one   *)
(* more suffix.                                                              *)

Backing == {"db", "media", "all"}

(* The kinds of backup the job at work has yet to begin.                     *)
Pending(kind) ==
    /\ job.step # "idle" /\ job.op \in Backing
    /\ \/ job.step = "begin" /\ job.parts # <<>> /\ Head(job.parts) = kind
       \/ job.parts = <<"db", "media">> /\ kind = "media"

NamesFit ==
    /\ job.step # "idle" => jobs > 0
    /\ \A n \in DOMAIN store : n.suffix + (IF Pending(n.kind) THEN 2 ELSE 1) <= jobs

(* The library's theorem on well-founded relations, for a set of numbers.    *)
LEMMA LeastNumber ==
    ASSUME NEW S, S \subseteq Nat, S # {}
    PROVE  \E t \in S : \A s \in S : t <= s
  <1> DEFINE R == {ss \in Nat \X Nat : ss[1] < ss[2]}
  <1>1. IsWellFoundedOn(R, Nat)
    BY NatLessThanWellFounded DEF OpToRel
  <1> HIDE DEF R
  <1>2. PICK t \in S : \A s \in S : ~ (<<s, t>> \in R)
    BY <1>1, WFMin
  <1> SUFFICES ASSUME NEW s \in S PROVE t <= s
    OBVIOUS
  <1>3. s \in Nat /\ t \in Nat /\ <<s, t>> \notin R
    BY <1>2
  <1>4. ~ (s < t)
    BY <1>3 DEF R
  <1> QED
    BY <1>3, <1>4

LEMMA NameFields ==
    ASSUME NEW kind, NEW at, NEW i
    PROVE  Name(kind, at, i).kind = kind /\ Name(kind, at, i).second = at /\ Name(kind, at, i).suffix = i
  BY DEF Name

LEMMA UniqueIsFree ==
    ASSUME BackupTypes, NamesFit, NEW kind \in Kinds, NEW at \in 1 .. MaxSeconds, Pending(kind)
    PROVE  /\ uniquePath(kind, at) \in Names /\ uniquePath(kind, at) \notin DOMAIN store
           /\ uniquePath(kind, at).kind = kind /\ uniquePath(kind, at).suffix + 1 <= jobs
  <1> DEFINE InUse(i) == Name(kind, at, i) \in DOMAIN store
             Fits(i)  == ~ InUse(i) /\ \A k \in 0 .. i - 1 : InUse(k)
             S == {i \in Nat : ~ InUse(i)}
  <1>1. jobs \in Nat /\ jobs > 0 /\ jobs <= MaxJobs /\ MaxJobs \in Nat
    BY BackupNats, TypesAre DEF NamesFit, Pending
  <1>2. ~ InUse(jobs - 1)
    <2>1. ASSUME InUse(jobs - 1) PROVE FALSE
      <3>1. Name(kind, at, jobs - 1).suffix + 2 <= jobs
        BY <2>1, NameFields DEF NamesFit
      <3> QED
        BY <3>1, <1>1, NameFields
    <2> QED
      BY <2>1
  <1>3. PICK t \in S : \A s \in S : t <= s
    <2>1. jobs - 1 \in S
      BY <1>1, <1>2
    <2> QED
      BY <2>1, LeastNumber
  <1>4. Fits(t) /\ t \in 0 .. MaxJobs
    <2>1. t \in Nat /\ ~ InUse(t) /\ t <= jobs - 1
      BY <1>1, <1>2, <1>3
    <2>2. \A k \in 0 .. t - 1 : InUse(k)
      BY <1>3, <2>1
    <2> QED
      BY <1>1, <2>1, <2>2
  <1> DEFINE i == CHOOSE i \in 0 .. MaxJobs : Fits(i)
  <1>5. i \in 0 .. MaxJobs /\ Fits(i)
    BY <1>4
  <1>6. i <= jobs - 1
    BY <1>1, <1>2, <1>5
  <1>7. uniquePath(kind, at) = Name(kind, at, i)
    BY DEF uniquePath
  <1> HIDE DEF i
  <1>8. Name(kind, at, i) \in Names
    BY <1>5 DEF Name, Names
  <1> QED
    BY <1>1, <1>5, <1>6, <1>7, <1>8, NameFields

---------------------------------------------------------------------------------
(* Types of what the backups and restores write.                             *)

StoreStays == DOMAIN store' \subseteq Names /\ store' \in [DOMAIN store' -> Content]

LEMMA PutTypes ==
    ASSUME BackupTypes, NEW n, NEW c \in Content, Put(n, c)
    PROVE  /\ StoreStays /\ DOMAIN store' = DOMAIN store
           /\ \A k \in DOMAIN store : store'[k] = IF k = n THEN c ELSE store[k]
  <1>1. store \in [DOMAIN store -> Content] /\ DOMAIN store \subseteq Names
    BY TypesAre
  <1>2. CASE n \in DOMAIN store
    <2>1. store' = [store EXCEPT ![n] = c]
      BY <1>2 DEF Put
    <2>2. store' \in [DOMAIN store -> Content]
      BY <1>1, <2>1
    <2>3. DOMAIN store' = DOMAIN store
      BY <2>2
    <2> QED
      BY <1>1, <2>1, <2>2, <2>3 DEF StoreStays
  <1>3. CASE n \notin DOMAIN store
    <2>1. store' = store
      BY <1>3 DEF Put
    <2> QED
      BY <1>1, <1>3, <2>1 DEF StoreStays
  <1> QED
    BY <1>2, <1>3

LEMMA RestrictTypes ==
    ASSUME BackupTypes, NEW S, store' = Restrict(store, DOMAIN store \ S)
    PROVE  /\ StoreStays /\ DOMAIN store' = DOMAIN store \ S
           /\ \A k \in DOMAIN store' : store'[k] = store[k]
  <1>1. store' = [k \in DOMAIN store \ S |-> store[k]]
    BY DEF Restrict
  <1>2. DOMAIN store \subseteq Names /\ \A n \in DOMAIN store : store[n] \in Content
    BY TypesAre
  <1> QED
    BY <1>1, <1>2 DEF StoreStays

LEMMA CutShortTypes ==
    ASSUME BackupTypes, CutShort
    PROVE  /\ StoreStays /\ DOMAIN store' = DOMAIN store
           /\ \A k \in DOMAIN store :
                 \/ store'[k] = store[k]
                 \/ /\ k = job.name /\ store'[k].state \in {"head", "data"}
                    /\ job.step = "dump" => /\ store'[k].meant = job.rows
                                            /\ store'[k].holds \subseteq job.rows
  <1>0. job \in Jobs
    BY JobOrNone DEF CutShort, NoCall
  <1>1. CASE job.step = "dump"
    <2>1. PICK state \in {"head", "data"}, held \in SUBSET job.rows :
            Put(job.name, [state |-> state, meant |-> job.rows, holds |-> held, clips |-> {}])
      BY <1>1 DEF CutShort
    <2> DEFINE c == [state |-> state, meant |-> job.rows, holds |-> held, clips |-> {}]
    <2>2. c \in Content
      BY <1>0, JobFields DEF Content
    <2>3. c.state = state /\ c.meant = job.rows /\ c.holds = held
      OBVIOUS
    <2> HIDE DEF c
    <2>4. Put(job.name, c)
      BY <2>1 DEF c
    <2> QED
      BY <2>2, <2>3, <2>4, PutTypes
  <1>2. CASE job.step # "dump"
    <2>1. PICK half \in SUBSET job.left :
            Put(job.name, [state |-> "data", meant |-> {}, holds |-> job.holds,
                           clips |-> job.clips \cup half])
      BY <1>2 DEF CutShort
    <2> DEFINE c == [state |-> "data", meant |-> {}, holds |-> job.holds,
                     clips |-> job.clips \cup half]
    <2>2. c \in Content
      BY <1>0, JobFields DEF Content
    <2>3. c.state = "data"
      OBVIOUS
    <2> HIDE DEF c
    <2>4. Put(job.name, c)
      BY <2>1 DEF c
    <2> QED
      BY <1>2, <2>2, <2>3, <2>4, PutTypes
  <1> QED
    BY <1>1, <1>2

(* What the actions on jobs leave as it is.                                  *)
LEMMA PartsHeads ==
    ASSUME NEW p \in {<<>>, <<"db">>, <<"media">>, <<"db", "media">>}
    PROVE  /\ p # <<>> => Head(p) \in Kinds
           /\ p # <<>> => Tail(p) \in {<<>>, <<"media">>}
           /\ p = <<"db", "media">> => p # <<>> /\ Head(p) = "db" /\ Tail(p) = <<"media">>
           /\ p = <<"db">> => p # <<>> /\ p # <<"db", "media">> /\ Head(p) = "db" /\ Tail(p) = <<>>
           /\ p = <<"media">> => /\ p # <<>> /\ p # <<"db", "media">>
                                 /\ Head(p) = "media" /\ Tail(p) = <<>>
           /\ p = <<>> => p # <<"db", "media">>
  <1>1. Len(<<"db", "media">>) = 2 /\ Len(<<"db">>) = 1 /\ Len(<<"media">>) = 1 /\ Len(<<>>) = 0
    OBVIOUS
  <1>2. CASE p = <<>>
    BY <1>1, <1>2
  <1>3. CASE p = <<"db">>
    <2>1. Head(p) = "db" /\ Tail(p) = <<>>
      BY <1>3
    <2>2. p # <<"media">>
      BY <2>1
    <2> QED
      BY <1>1, <1>3, <2>1, <2>2 DEF Kinds
  <1>4. CASE p = <<"media">>
    <2>1. Head(p) = "media" /\ Tail(p) = <<>>
      BY <1>4
    <2>2. p # <<"db">>
      BY <2>1
    <2> QED
      BY <1>1, <1>4, <2>1, <2>2 DEF Kinds
  <1>5. CASE p = <<"db", "media">>
    <2>1. Head(p) = "db" /\ Tail(p) = <<"media">>
      BY <1>5
    <2> QED
      BY <1>1, <1>5, <2>1 DEF Kinds
  <1> QED
    BY <1>2, <1>3, <1>4, <1>5

LEMMA NamesKeep ==
    ASSUME BackupTypes, NamesFit, DOMAIN store' \subseteq DOMAIN store, jobs' \in Nat, jobs' >= jobs,
           job'.step # "idle" => job.step # "idle",
           \A k \in Kinds : Pending(k)' => Pending(k)
    PROVE  NamesFit'
  <1>1. jobs \in Nat /\ \A n \in DOMAIN store : n.kind \in Kinds /\ n.suffix \in Nat
    BY BackupNats, TypesAre DEF Names
  <1>2. job'.step # "idle" => jobs' > 0
    BY <1>1 DEF NamesFit
  <1>3. ASSUME NEW n \in DOMAIN store'
        PROVE  n.suffix + (IF Pending(n.kind)' THEN 2 ELSE 1) <= jobs'
    <2>1. n \in DOMAIN store
      OBVIOUS
    <2>2. n.suffix + (IF Pending(n.kind) THEN 2 ELSE 1) <= jobs
      BY <2>1 DEF NamesFit
    <2>3. Pending(n.kind)' => Pending(n.kind)
      BY <1>1, <2>1
    <2> QED
      BY <1>1, <2>1, <2>2, <2>3
  <1> QED
    BY <1>2, <1>3 DEF NamesFit

LEMMA TryLockFits ==
    ASSUME BackupTypes, NamesFit, NEW op \in Backing, TryLock(op)
    PROVE  /\ BackupTypes' /\ NamesFit'
           /\ job \notin Jobs /\ job' \in Jobs /\ job'.op = op /\ job'.step = "begin"
           /\ job'.parts = Parts(op) /\ job'.rows = {} /\ job'.dropped = {}
  <1>1. job = NoCall /\ job.step = "idle" /\ job \notin Jobs
    BY JobOrNone DEF TryLock
  <1> DEFINE j == [op |-> op, step |-> "begin", parts |-> Parts(op), name |-> [none |-> TRUE],
                   left |-> {}, rows |-> {}, holds |-> {}, clips |-> {},
                   gone |-> {}, dropped |-> {}, kept |-> {}, how |-> ""]
  <1>2. Parts(op) \in {<<>>, <<"db">>, <<"media">>, <<"db", "media">>}
    BY DEF Parts, Backing
  <1>3. j \in Jobs
    BY <1>2 DEF Jobs, Backing
  <1>4. /\ j.op = op /\ j.step = "begin" /\ j.parts = Parts(op) /\ j.rows = {} /\ j.dropped = {}
    OBVIOUS
  <1>5. job' = j
    BY DEF TryLock
  <1> HIDE DEF j
  <1>6. jobs \in Nat /\ jobs' = jobs + 1 /\ jobs' \in 0 .. MaxJobs
    <2>1. jobs < MaxJobs /\ jobs' = jobs + 1
      BY DEF TryLock
    <2> QED
      BY <2>1, BackupNats, TypesAre
  <1>7. BackupTypes'
    BY <1>3, <1>5, <1>6, TypesAre, TypesFrom DEF TryLock, librarySide, atLibrary, LibraryStays, BackupTypes, AtCall, CallFits
  <1>8. NamesFit'
    <2>1. \A n \in DOMAIN store : n.suffix \in Nat
      BY TypesAre DEF Names
    <2>2. \A n \in DOMAIN store : n.suffix + 1 <= jobs
      BY <1>1 DEF NamesFit, Pending
    <2>3. store' = store
      BY DEF TryLock
    <2> QED
      BY <1>6, <2>1, <2>2, <2>3 DEF NamesFit
  <1> QED
    BY <1>1, <1>3, <1>4, <1>5, <1>7, <1>8

LEMMA StillLibrary ==
    ASSUME BackupTypes, UNCHANGED library
    PROVE  LibraryStays
  BY DEF BackupTypes, BackupsTypeOK, LibraryStays, AtCall, CallFits

LEMMA NewFileFits ==
    ASSUME BackupTypes, NamesFit, NEW kind \in Kinds, NEW meant \in SUBSET Media,
           job.step = "begin", job.op \in Backing, job.parts # <<>>, Head(job.parts) = kind,
           NewFile(kind, meant), UNCHANGED <<jobs, failures, atLibrary>>
    PROVE  /\ BackupTypes' /\ NamesFit'
           /\ job \in Jobs /\ job' \in Jobs /\ job'.op = job.op /\ job'.parts = job.parts
           /\ job'.name \in Names /\ job'.name.kind = kind /\ job'.name \notin DOMAIN store
           /\ job'.dropped = {}
           /\ job'.step = IF kind = "db" THEN "dump" ELSE "read"
           /\ job'.rows = IF kind = "db" THEN meant ELSE job.rows
           /\ job'.left = IF kind = "db" THEN {} ELSE OnDisk
           /\ job'.holds = job.holds
           /\ job'.gone = IF job.op = "all" THEN job.gone \cup {m \in meant : ~Whole(m)}
                          ELSE job.gone
           /\ DOMAIN store' = DOMAIN store \cup {job'.name}
           /\ \A n \in DOMAIN store : store'[n] = store[n]
           /\ store'[job'.name].state = "growing"
           /\ store'[job'.name].meant = meant /\ store'[job'.name].holds = {}
  <1>0. job \in Jobs /\ Pending(kind)
    BY JobOrNone DEF Pending
  <1>a. PICK at \in second .. MaxSeconds :
          /\ second' = at
          /\ store' = [k \in DOMAIN store \cup {uniquePath(kind, at)} |->
                          IF k \in DOMAIN store THEN store[k]
                          ELSE [state |-> "growing", meant |-> meant,
                                holds |-> {}, clips |-> {}]]
          /\ job' = [job EXCEPT !.name = uniquePath(kind, at), !.dropped = {}, !.kept = {},
                          !.step = IF kind = "db" THEN "dump" ELSE "read",
                          !.rows = IF kind = "db" THEN meant ELSE job.rows,
                          !.left = IF kind = "db" THEN {} ELSE OnDisk,
                          !.gone = IF job.op = "all" THEN job.gone \cup {m \in meant : ~Whole(m)}
                                   ELSE job.gone]
    BY DEF NewFile
  <1>b. PICK n : n = uniquePath(kind, at)
    OBVIOUS
  <1>1.   /\ second' = at
          /\ store' = [k \in DOMAIN store \cup {n} |->
                          IF k \in DOMAIN store THEN store[k]
                          ELSE [state |-> "growing", meant |-> meant,
                                holds |-> {}, clips |-> {}]]
          /\ job' = [job EXCEPT !.name = n, !.dropped = {}, !.kept = {},
                          !.step = IF kind = "db" THEN "dump" ELSE "read",
                          !.rows = IF kind = "db" THEN meant ELSE job.rows,
                          !.left = IF kind = "db" THEN {} ELSE OnDisk,
                          !.gone = IF job.op = "all" THEN job.gone \cup {m \in meant : ~Whole(m)}
                                   ELSE job.gone]
    BY <1>a, <1>b
  <1>2. at \in 1 .. MaxSeconds
    BY BackupNats, TypesAre
  <1>3. n \in Names /\ n \notin DOMAIN store /\ n.kind = kind /\ n.suffix + 1 <= jobs
    BY <1>0, <1>b, <1>2, UniqueIsFree
  <1>4. PICK lefts \in SUBSET Media : lefts = IF kind = "db" THEN {} ELSE OnDisk
    BY DEF OnDisk
  <1>5. PICK gone \in SUBSET Media : gone = IF job.op = "all" THEN job.gone \cup {m \in meant : ~Whole(m)}
                                           ELSE job.gone
    BY <1>0, JobFields
  <1>6. PICK rows \in SUBSET Media : rows = IF kind = "db" THEN meant ELSE job.rows
    BY <1>0, JobFields
  <1>7. PICK step \in {"dump", "read"} : step = IF kind = "db" THEN "dump" ELSE "read"
    OBVIOUS
  <1>8. job' = [job EXCEPT !.name = n, !.dropped = {}, !.kept = {}, !.step = step,
                           !.rows = rows, !.left = lefts, !.gone = gone]
    BY <1>1, <1>4, <1>5, <1>6, <1>7
  <1>9. job' \in Jobs
    BY <1>0, <1>3, <1>8 DEF Jobs
  <1>10. /\ job'.op = job.op /\ job'.parts = job.parts /\ job'.name = n /\ job'.dropped = {}
         /\ job'.step = step /\ job'.rows = rows /\ job'.left = lefts /\ job'.holds = job.holds
         /\ job'.gone = gone
    BY <1>0, <1>8 DEF Jobs
  <1> DEFINE c == [state |-> "growing", meant |-> meant, holds |-> {}, clips |-> {}]
  <1>11. c \in Content /\ c.state = "growing" /\ c.meant = meant /\ c.holds = {}
    BY DEF Content
  <1>12. store' = [k \in DOMAIN store \cup {n} |-> IF k \in DOMAIN store THEN store[k] ELSE c]
    BY <1>1
  <1> HIDE DEF c
  <1>13. /\ DOMAIN store' = DOMAIN store \cup {n} /\ store'[n] = c
         /\ \A k \in DOMAIN store : store'[k] = store[k]
    BY <1>3, <1>12
  <1>14. StoreStays
    <2>1. DOMAIN store \subseteq Names /\ \A k \in DOMAIN store : store[k] \in Content
      BY TypesAre
    <2> QED
      BY <1>3, <1>11, <1>12, <2>1 DEF StoreStays
  <1>15. BackupTypes'
    BY <1>1, <1>2, <1>9, <1>14, TypesAre, TypesFrom, StillLibrary DEF atLibrary, StoreStays
  <1>16. NamesFit'
    <2>1. \A k \in Kinds : Pending(k)' => Pending(k) /\ k # kind
      <3>1. job.parts \in {<<>>, <<"db">>, <<"media">>, <<"db", "media">>} /\ job.step # "idle"
        BY <1>0, JobFields, JobOrNone
      <3>2. job'.step # "begin"
        BY <1>10
      <3> QED
        BY <1>10, <3>1, <3>2, PartsHeads DEF Pending
    <2>2. jobs \in Nat /\ jobs > 0 /\ jobs' = jobs
      BY <1>0, BackupNats, TypesAre DEF NamesFit, Pending
    <2>3. \A k \in DOMAIN store : k.kind \in Kinds /\ k.suffix \in Nat
      BY TypesAre DEF Names
    <2>4. ASSUME NEW k \in DOMAIN store
          PROVE  k.suffix + (IF Pending(k.kind)' THEN 2 ELSE 1) <= jobs'
      <3>1. k.suffix + (IF Pending(k.kind) THEN 2 ELSE 1) <= jobs
        BY DEF NamesFit
      <3>2. Pending(k.kind)' => Pending(k.kind)
        BY <2>1, <2>3
      <3> QED
        BY <2>2, <2>3, <3>1, <3>2
    <2>5. n.suffix + (IF Pending(n.kind)' THEN 2 ELSE 1) <= jobs'
      BY <1>3, <2>1, <2>2
    <2> QED
      BY <1>13, <2>2, <2>4, <2>5 DEF NamesFit
  <1> QED
    BY <1>0, <1>3, <1>4, <1>5, <1>6, <1>7, <1>9, <1>10, <1>11, <1>13, <1>15, <1>16

LEMMA DumpFits ==
    ASSUME BackupTypes, NamesFit, dumpTo
    PROVE  /\ BackupTypes' /\ NamesFit'
           /\ job \in Jobs /\ job' \in Jobs /\ job' = [job EXCEPT !.step = "retain"]
           /\ DOMAIN store' = DOMAIN store
           /\ \A n \in DOMAIN store :
                 \/ store'[n] = store[n]
                 \/ n = job.name /\ store'[n].meant = job.rows /\ store'[n].holds = job.rows
  <1>0. job \in Jobs
    BY JobOrNone DEF dumpTo, NoCall
  <1> DEFINE c == [state |-> "whole", meant |-> job.rows, holds |-> job.rows, clips |-> {}]
  <1>1. c \in Content /\ c.meant = job.rows /\ c.holds = job.rows
    BY <1>0, JobFields DEF Content
  <1>2. Put(job.name, c)
    BY DEF dumpTo
  <1> HIDE DEF c
  <1>3. /\ StoreStays /\ DOMAIN store' = DOMAIN store
        /\ \A k \in DOMAIN store : store'[k] = IF k = job.name THEN c ELSE store[k]
    BY <1>1, <1>2, PutTypes
  <1>4. job' = [job EXCEPT !.step = "retain"]
    BY DEF dumpTo
  <1>5. job' \in Jobs /\ job'.op = job.op /\ job'.parts = job.parts /\ job'.step = "retain"
    BY <1>0, <1>4 DEF Jobs
  <1>6. BackupTypes'
    BY <1>3, <1>5, TypesAre, TypesFrom, StillLibrary DEF dumpTo, librarySide, atLibrary, StoreStays
  <1>7. NamesFit'
    <2>1. jobs' = jobs /\ jobs \in Nat
      BY BackupNats, TypesAre DEF dumpTo
    <2>2. job.step # "idle"
      BY <1>0, JobOrNone
    <2> QED
      BY <1>3, <1>5, <2>1, <2>2, NamesKeep DEF Pending
  <1> QED
    BY <1>0, <1>1, <1>3, <1>4, <1>5, <1>6, <1>7

LEMMA ArchiveFits ==
    ASSUME BackupTypes, NamesFit, tarGz
    PROVE  /\ BackupTypes' /\ NamesFit'
           /\ job \in Jobs /\ job' \in Jobs /\ job' = [job EXCEPT !.step = "retain"]
           /\ DOMAIN store' = DOMAIN store
           /\ \A n \in DOMAIN store : store'[n] = store[n] \/ n = job.name
  <1>0. job \in Jobs
    BY JobOrNone DEF tarGz, NoCall
  <1> DEFINE c == [state |-> "whole", meant |-> {}, holds |-> job.holds, clips |-> job.clips]
  <1>1. c \in Content
    BY <1>0, JobFields DEF Content
  <1>2. Put(job.name, c)
    BY DEF tarGz
  <1> HIDE DEF c
  <1>3. /\ StoreStays /\ DOMAIN store' = DOMAIN store
        /\ \A k \in DOMAIN store : store'[k] = IF k = job.name THEN c ELSE store[k]
    BY <1>1, <1>2, PutTypes
  <1>4. job' = [job EXCEPT !.step = "retain"]
    BY DEF tarGz
  <1>5. job' \in Jobs /\ job'.op = job.op /\ job'.parts = job.parts /\ job'.step = "retain"
    BY <1>0, <1>4 DEF Jobs
  <1>6. BackupTypes'
    BY <1>3, <1>5, TypesAre, TypesFrom, StillLibrary DEF tarGz, librarySide, atLibrary, StoreStays
  <1>7. NamesFit'
    <2>1. jobs' = jobs /\ jobs \in Nat
      BY BackupNats, TypesAre DEF tarGz
    <2>2. job.step # "idle"
      BY <1>0, JobOrNone
    <2> QED
      BY <1>3, <1>5, <2>1, <2>2, NamesKeep DEF Pending
  <1> QED
    BY <1>0, <1>3, <1>4, <1>5, <1>6, <1>7

LEMMA ReadFits ==
    ASSUME BackupTypes, NamesFit, NEW m \in Media, ReadFile(m)
    PROVE  /\ BackupTypes' /\ NamesFit'
           /\ job \in Jobs /\ job' \in Jobs /\ job'.op = job.op /\ job'.step = job.step
           /\ job'.parts = job.parts /\ job'.name = job.name /\ job'.rows = job.rows
           /\ job'.left = job.left \ {m} /\ job'.gone = job.gone
           /\ job'.holds = IF Whole(m) THEN job.holds \cup {m} ELSE job.holds
           /\ job'.dropped = job.dropped /\ job'.kept = job.kept /\ job'.how = job.how
  <1>0. job \in Jobs
    BY JobOrNone DEF ReadFile, NoCall
  <1>1. PICK holds \in SUBSET Media : holds = IF Whole(m) THEN job.holds \cup {m} ELSE job.holds
    BY <1>0, JobFields
  <1>2. PICK clips \in SUBSET Media : clips = IF Whole(m) THEN job.clips ELSE job.clips \cup {m}
    BY <1>0, JobFields
  <1>3. job' = [job EXCEPT !.left = job.left \ {m}, !.holds = holds, !.clips = clips]
    BY <1>1, <1>2 DEF ReadFile
  <1>4. job' \in Jobs
    BY <1>0, <1>3 DEF Jobs
  <1>5. /\ job'.op = job.op /\ job'.step = job.step
        /\ job'.parts = job.parts /\ job'.name = job.name /\ job'.rows = job.rows
        /\ job'.left = job.left \ {m} /\ job'.gone = job.gone /\ job'.holds = holds
        /\ job'.dropped = job.dropped /\ job'.kept = job.kept /\ job'.how = job.how
    BY <1>0, <1>3 DEF Jobs
  <1>6. BackupTypes'
    BY <1>4, TypesAre, TypesFrom, StillLibrary DEF ReadFile, librarySide, atLibrary
  <1>7. NamesFit'
    <2>1. jobs' = jobs /\ jobs \in Nat /\ store' = store
      BY BackupNats, TypesAre DEF ReadFile
    <2> QED
      BY <1>5, <2>1, NamesKeep DEF Pending
  <1> QED
    BY <1>0, <1>1, <1>4, <1>5, <1>6, <1>7

(* The job is over, whatever became of its file.                             *)
LEMMA EndsFit ==
    ASSUME BackupTypes, NamesFit, job' = NoCall, StoreStays, DOMAIN store' \subseteq DOMAIN store,
           UNCHANGED <<jobs, librarySide>>, MayFail \/ UNCHANGED failures
    PROVE  BackupTypes' /\ NamesFit' /\ job'.step = "idle"
  <1>1. job'.step = "idle"
    BY DEF NoCall
  <1>2. BackupTypes'
    BY TypesAre, TypesFrom, StillLibrary, FailureTypes DEF librarySide, atLibrary, StoreStays
  <1>3. NamesFit'
    <2>1. jobs' = jobs /\ jobs \in Nat
      BY BackupNats, TypesAre
    <2> QED
      BY <1>1, <2>1, NamesKeep DEF Pending
  <1> QED
    BY <1>1, <1>2, <1>3

LEMMA StillStore ==
    ASSUME BackupTypes, UNCHANGED store
    PROVE  StoreStays /\ DOMAIN store' = DOMAIN store
  BY TypesAre DEF StoreStays

LEMMA RetainFits ==
    ASSUME BackupTypes, NamesFit, cleanup, job.op \in Backing, job.parts # <<>>
    PROVE  /\ BackupTypes' /\ NamesFit'
           /\ job \in Jobs /\ job' \in Jobs /\ job'.op = job.op /\ job'.parts = Tail(job.parts)
           /\ job'.step = IF Tail(job.parts) = <<>> THEN "answer" ELSE "begin"
           /\ job'.name = job.name /\ job'.rows = job.rows /\ job'.holds = job.holds
           /\ job'.gone = job.gone /\ job'.how = job.how
           /\ job'.dropped = Surplus(job.name.kind)
           /\ job'.kept = OfKind(job.name.kind) \ Surplus(job.name.kind)
           /\ DOMAIN store' \subseteq DOMAIN store
           /\ \A n \in DOMAIN store' : store'[n] = store[n]
  <1>0. job \in Jobs
    BY JobOrNone DEF cleanup, NoCall
  <1>1. PICK dropped \in SUBSET Names : dropped = Surplus(job.name.kind)
    BY TypesAre DEF Surplus, OfKind
  <1>2. PICK kept \in SUBSET Names : kept = OfKind(job.name.kind) \ dropped
    BY TypesAre DEF OfKind
  <1>3. PICK parts \in {<<>>, <<"media">>} : parts = Tail(job.parts)
    BY <1>0, JobFields, PartsHeads
  <1>4. PICK step \in {"answer", "begin"} : step = IF parts = <<>> THEN "answer" ELSE "begin"
    OBVIOUS
  <1>5. /\ store' = Restrict(store, DOMAIN store \ dropped)
        /\ job' = [job EXCEPT !.parts = parts, !.step = step, !.dropped = dropped, !.kept = kept]
    BY <1>1, <1>2, <1>3, <1>4 DEF cleanup
  <1>6. job' \in Jobs
    BY <1>0, <1>5 DEF Jobs
  <1>7. /\ job'.op = job.op /\ job'.parts = parts /\ job'.step = step
        /\ job'.name = job.name /\ job'.rows = job.rows /\ job'.holds = job.holds
        /\ job'.gone = job.gone /\ job'.how = job.how
        /\ job'.dropped = dropped /\ job'.kept = kept
    BY <1>0, <1>5 DEF Jobs
  <1>8. /\ StoreStays /\ DOMAIN store' \subseteq DOMAIN store
        /\ \A k \in DOMAIN store' : store'[k] = store[k]
    BY <1>5, RestrictTypes
  <1>9. BackupTypes'
    BY <1>6, <1>8, TypesAre, TypesFrom, StillLibrary DEF cleanup, librarySide, atLibrary, StoreStays
  <1>10. NamesFit'
    <2>1. jobs' = jobs /\ jobs \in Nat
      BY BackupNats, TypesAre DEF cleanup
    <2>2. job.step # "idle"
      BY <1>0, JobOrNone
    <2>3. ASSUME NEW k \in Kinds, Pending(k)'
          PROVE  Pending(k)
      <3>1. parts = <<"media">> /\ k = "media"
        <4>1. Head(<<"media">>) = "media" /\ <<>> # <<"db", "media">> /\ <<"media">> # <<"db", "media">>
          BY PartsHeads
        <4> QED
          BY <1>7, <2>3, <4>1 DEF Pending
      <3>2. job.parts = <<"db", "media">>
        <4>1. job.parts \in {<<>>, <<"db">>, <<"media">>, <<"db", "media">>}
          BY <1>0, JobFields
        <4>2. <<>> # <<"media">>
          BY PartsHeads
        <4> QED
          BY <1>3, <3>1, <4>1, <4>2, PartsHeads
      <3> QED
        BY <2>2, <3>1, <3>2 DEF Pending
    <2> QED
      BY <1>8, <2>1, <2>2, <2>3, NamesKeep
  <1> QED
    BY <1>0, <1>1, <1>2, <1>3, <1>4, <1>6, <1>7, <1>8, <1>9, <1>10

LEMMA DeleteBackupFits ==
    ASSUME BackupTypes, NamesFit, NEW n, DeleteBackup(n)
    PROVE  /\ BackupTypes' /\ NamesFit'
           /\ DOMAIN store' \subseteq DOMAIN store
           /\ \A k \in DOMAIN store' : store'[k] = store[k]
  <1>1. /\ StoreStays /\ DOMAIN store' \subseteq DOMAIN store
        /\ \A k \in DOMAIN store' : store'[k] = store[k]
    BY RestrictTypes DEF DeleteBackup
  <1>2. jobs \in Nat /\ jobs' = jobs + 1 /\ jobs' \in 0 .. MaxJobs
    <2>1. jobs < MaxJobs /\ jobs' = jobs + 1
      BY DEF DeleteBackup
    <2> QED
      BY <2>1, BackupNats, TypesAre
  <1>3. BackupTypes'
    BY <1>1, <1>2, TypesAre, TypesFrom, StillLibrary DEF DeleteBackup, StoreStays
  <1>4. NamesFit'
    <2>1. job' = job
      BY DEF DeleteBackup
    <2>2. jobs' \in Nat /\ jobs' >= jobs
      BY <1>2
    <2> QED
      BY <1>1, <2>1, <2>2, NamesKeep DEF Pending
  <1> QED
    BY <1>1, <1>3, <1>4

LEMMA RestoreStarts ==
    ASSUME BackupTypes, NamesFit, job = NoCall, NEW n \in DOMAIN store,
           NEW step \in {"apply", "extract"}, NEW lefts \in SUBSET Media,
           jobs < MaxJobs, jobs' = jobs + 1, job' = RestoreJob(n, step, lefts),
           open' \in BOOLEAN,
           UNCHANGED <<driver, mediaRows, files, library, store, second, failures, bare, clipped>>
    PROVE  /\ BackupTypes' /\ NamesFit'
           /\ job' \in Jobs /\ job'.op = "restore" /\ job'.step = step /\ job'.name = n
           /\ job'.parts = <<>> /\ job'.rows = {} /\ job'.dropped = {}
  <1>1. store[n] \in Content /\ n \in Names
    BY TypesAre
  <1>2. store[n].holds \subseteq Media /\ store[n].clips \subseteq Media
    BY <1>1 DEF Content
  <1>3. PICK holds \in SUBSET Media, clips \in SUBSET Media :
          holds = store[n].holds /\ clips = store[n].clips
    BY <1>2
  <1> DEFINE j == [op |-> "restore", step |-> step, parts |-> <<>>, name |-> n, left |-> lefts,
                   rows |-> {}, holds |-> holds, clips |-> clips, gone |-> {},
                   dropped |-> {}, kept |-> {}, how |-> ""]
  <1>4. j \in Jobs
    BY <1>1 DEF Jobs
  <1>5. /\ j.op = "restore" /\ j.step = step /\ j.name = n /\ j.parts = <<>> /\ j.rows = {}
        /\ j.dropped = {}
    OBVIOUS
  <1>6. job' = j
    BY <1>3 DEF RestoreJob
  <1> HIDE DEF j
  <1>7. jobs \in Nat /\ jobs' \in 0 .. MaxJobs
    BY BackupNats, TypesAre
  <1>8. BackupTypes'
    BY <1>4, <1>6, <1>7, TypesAre, TypesFrom, StillLibrary
  <1>9. NamesFit'
    <2>1. \A k \in DOMAIN store : k.suffix \in Nat
      BY TypesAre DEF Names
    <2>2. \A k \in DOMAIN store : k.suffix + (IF Pending(k.kind) THEN 2 ELSE 1) <= jobs
      BY DEF NamesFit
    <2>3. \A k : ~ Pending(k)'
      BY <1>5, <1>6 DEF Pending, Backing
    <2>4. store' = store
      OBVIOUS
    <2> QED
      BY <1>7, <2>1, <2>2, <2>3, <2>4 DEF NamesFit
  <1> QED
    BY <1>4, <1>5, <1>6, <1>8, <1>9

LEMMA JobsNat == BackupTypes => jobs \in Nat
  BY BackupNats, TypesAre

LEMMA JobsStay ==
    ASSUME BackupTypes, UNCHANGED jobs
    PROVE  jobs' \in Nat /\ jobs' >= jobs
  BY JobsNat

LEMMA RowsReturn ==
    ASSUME BackupTypes, NamesFit, job.step = "apply", job.name \in DOMAIN store,
           NEW rows \in SUBSET Media, NEW how \in {"", "head", "data", "whole", "failed"},
           BecomeRows(rows, how), MayFail \/ UNCHANGED failures,
           UNCHANGED <<driver, files, library, store, open, second, jobs, clipped>>
    PROVE  /\ BackupTypes' /\ NamesFit'
           /\ job \in Jobs /\ job' \in Jobs /\ job'.op = job.op /\ job'.step = "restored"
           /\ job'.parts = job.parts /\ job'.name = job.name
           /\ job'.rows = store[job.name].meant /\ job'.holds = rows /\ job'.how = how
           /\ job'.dropped = job.dropped /\ job'.kept = job.kept
  <1>0. job \in Jobs
    BY JobOrNone DEF NoCall
  <1>1. PICK meant \in SUBSET Media : meant = store[job.name].meant
    <2>1. store[job.name] \in Content
      BY TypesAre
    <2> QED
      BY <2>1 DEF Content
  <1>2. job' = [job EXCEPT !.step = "restored", !.rows = meant, !.holds = rows, !.how = how]
    BY <1>1 DEF BecomeRows
  <1>3. job' \in Jobs
    BY <1>0, <1>2 DEF Jobs
  <1>4. /\ job'.op = job.op /\ job'.step = "restored" /\ job'.parts = job.parts
        /\ job'.name = job.name /\ job'.rows = meant /\ job'.holds = rows /\ job'.how = how
        /\ job'.dropped = job.dropped /\ job'.kept = job.kept
    BY <1>0, <1>2 DEF Jobs
  <1>5. mediaRows' = rows /\ bare' \subseteq Media
    BY DEF BecomeRows
  <1>6. BackupTypes'
    BY <1>3, <1>5, TypesAre, TypesFrom, StillLibrary, FailureTypes
  <1>7. NamesFit'
    <2>1. jobs' = jobs /\ store' = store
      OBVIOUS
    <2>2. job.step # "idle"
      BY <1>0, JobOrNone
    <2> QED
      <3>1. jobs' \in Nat /\ jobs' >= jobs
        BY <2>1, JobsStay
      <3>2. \A k \in Kinds : Pending(k)' => Pending(k)
        BY <1>4 DEF Pending
      <3>3. DOMAIN store' \subseteq DOMAIN store
        BY <2>1
      <3> QED
        BY <2>2, <3>1, <3>2, <3>3, NamesKeep
  <1> QED
    BY <1>0, <1>1, <1>3, <1>4, <1>6, <1>7

LEMMA ExtractFits ==
    ASSUME BackupTypes, NamesFit, NEW m \in Media, untarGz(m)
    PROVE  /\ BackupTypes' /\ NamesFit'
           /\ job \in Jobs /\ job' \in Jobs /\ job'.op = job.op /\ job'.step = job.step
           /\ job'.parts = job.parts /\ job'.name = job.name /\ job'.rows = job.rows
           /\ job'.dropped = job.dropped /\ job'.kept = job.kept /\ job'.how = job.how
  <1>0. job \in Jobs
    BY JobOrNone DEF untarGz, NoCall
  <1>1. job' = [job EXCEPT !.left = job.left \ {m}]
    BY DEF untarGz
  <1>2. job' \in Jobs
    BY <1>0, <1>1 DEF Jobs
  <1>3. /\ job'.op = job.op /\ job'.step = job.step
        /\ job'.parts = job.parts /\ job'.name = job.name /\ job'.rows = job.rows
        /\ job'.dropped = job.dropped /\ job'.kept = job.kept /\ job'.how = job.how
    BY <1>0, <1>1 DEF Jobs
  <1>4. files' \in [Media -> {"never", "none", "part", "whole"}] /\ clipped' \subseteq Media
    BY TypesAre DEF untarGz
  <1>5. BackupTypes'
    BY <1>2, <1>4, TypesAre, TypesFrom, StillLibrary DEF untarGz
  <1>6. NamesFit'
    <2>1. jobs' = jobs /\ jobs \in Nat /\ store' = store
      BY BackupNats, TypesAre DEF untarGz
    <2>2. job.step # "idle"
      BY <1>0, JobOrNone
    <2> QED
      BY <1>3, <2>1, <2>2, NamesKeep DEF Pending
  <1> QED
    BY <1>0, <1>2, <1>3, <1>5, <1>6

LEMMA RestartFits ==
    ASSUME BackupTypes, NamesFit, Restart
    PROVE  BackupTypes' /\ NamesFit' /\ job'.step = "idle"
  <1>1. job' = NoCall /\ job'.step = "idle"
    BY DEF Restart, NoCall
  <1>2. StoreStays /\ DOMAIN store' \subseteq DOMAIN store
    BY CutShortTypes, StillStore DEF Restart
  <1>3. LibraryStays
    <2>1. library' = [u \in Users |-> NoCall]
      BY DEF Restart
    <2>2. \A u \in Users : library'[u] = NoCall
      BY <2>1
    <2> QED
      BY <2>1, <2>2 DEF LibraryStays, AtCall
  <1>4. bare' \subseteq Media /\ failures' \in 0 .. MaxFailures
    BY TypesAre, FailureTypes DEF Restart
  <1>5. open' \in BOOLEAN
    BY DEF Restart
  <1>6. BackupTypes'
    BY <1>1, <1>2, <1>3, <1>4, <1>5, TypesAre, TypesFrom DEF Restart, StoreStays
  <1>7. NamesFit'
    <2>1. jobs' = jobs /\ jobs \in Nat
      BY BackupNats, TypesAre DEF Restart
    <2> QED
      BY <1>1, <1>2, <2>1, NamesKeep DEF Pending
  <1> QED
    BY <1>1, <1>6, <1>7

---------------------------------------------------------------------------------
(* A file that no row has had yet: nothing of the rows, the deletions, the    *)
(* dumps and the job knows of it, and one upload at most is at work on it.    *)

Uploading(u, m) == Uploads(u) /\ library[u].ids = {m}

UploadInv ==
    /\ \A u, v \in Users, m \in Media : Uploading(u, m) /\ Uploading(v, m) => u = v
    /\ \A u \in Users, m \in Media : Uploading(u, m) =>
          /\ files[m] # "never"
          /\ library[u].step = "row" => Whole(m) \/ m \in clipped

New(m) == files[m] = "never" \/ \E u \in Users : Uploading(u, m)

Known(m) ==
    \/ m \in mediaRows
    \/ \E u \in Users : Deletes(u) /\ m \in library[u].left
    \/ \E n \in DOMAIN store : n.kind = "db" /\ m \in store[n].meant \cup store[n].holds
    \/ job.step # "idle" /\ m \in job.rows

NewInv == \A m \in Media : New(m) => ~ Known(m)

LEMMA NewKept ==
    ASSUME NewInv, \A m \in Media : New(m)' => New(m) /\ (Known(m)' => Known(m))
    PROVE  NewInv'
  BY DEF NewInv

(* A request that goes on, and the others that stay.                         *)
LEMMA OneCall ==
    ASSUME BackupTypes, NEW u \in Users, NEW c, library' = [library EXCEPT ![u] = c]
    PROVE  /\ library'[u] = c
           /\ \A v \in Users : v # u => library'[v] = library[v]
  BY TypesAre

(* The steps of the library leave the directory and the job, but for what the *)
(* job misses.                                                               *)
LibraryMoves ==
    /\ UNCHANGED <<store, driver, jobs, open>>
    /\ \/ UNCHANGED job
       \/ job \in Jobs /\ \E m \in Media : job' = [job EXCEPT !.gone = job.gone \cup {m}]

LEMMA MovesJob ==
    ASSUME LibraryMoves
    PROVE  /\ UNCHANGED store
           /\ job'.op = job.op /\ job'.step = job.step /\ job'.parts = job.parts
           /\ job'.name = job.name /\ job'.rows = job.rows /\ job'.left = job.left
           /\ job'.holds = job.holds /\ job'.dropped = job.dropped /\ job'.kept = job.kept
           /\ job'.how = job.how
           /\ job.gone \subseteq job'.gone
  BY DEF LibraryMoves, Jobs

(* What is whole stays so for a full backup, or it is known to be missing.    *)
FilesHold ==
    job.step # "idle" /\ job.op = "all" =>
        \A x \in job.rows : Whole(x) => Whole(x)' \/ x \in job'.gone

RowsInv ==
    \A m \in mediaRows :
        \/ Whole(m) \/ m \in bare \cup clipped
        \/ \E u \in Users : Deletes(u) /\ m \in library[u].ids

LEMMA RowsForm == /\ RowsHaveFiles <=> RowsInv
                  /\ RowsHaveFiles' <=> RowsInv'
  BY DEF RowsHaveFiles, RowsInv, Deleting, Deletes, AtCall

LEMMA StartUploadKeeps ==
    ASSUME BackupTypes, UploadInv, NewInv, RowsInv,
           NEW u \in Users, NEW m \in Media, StartUpload(u, m)
    PROVE  UploadInv' /\ NewInv' /\ RowsInv' /\ LibraryMoves /\ FilesHold
  <1> DEFINE c == [op |-> "upload", step |-> "write", ids |-> {m}, left |-> {}]
  <1>1. c.op = "upload" /\ c.step = "write" /\ c.ids = {m} /\ c \in Calls
    BY DEF Calls
  <1>2. library' = [library EXCEPT ![u] = c]
    BY DEF StartUpload
  <1> HIDE DEF c
  <1>3. library'[u] = c /\ \A v \in Users : v # u => library'[v] = library[v]
    BY <1>2, OneCall
  <1>4. /\ library[u] = NoCall /\ files[m] = "never" /\ files' = [files EXCEPT ![m] = "part"]
        /\ UNCHANGED <<mediaRows, failures, bare, clipped>> /\ UNCHANGED backupSide
    BY DEF StartUpload
  <1>5. /\ files'[m] = "part" /\ \A x \in Media : x # m => files'[x] = files[x]
    BY <1>4, TypesAre
  <1>6. c # NoCall
    <2>1. c.step # NoCall.step
      BY <1>1 DEF NoCall
    <2> QED
      BY <2>1
  <1>7. ASSUME NEW v \in Users, NEW x \in Media
        PROVE  /\ v # u => (Uploading(v, x)' <=> Uploading(v, x))
               /\ Uploading(u, x)' <=> x = m
               /\ v # u => (Deletes(v)' <=> Deletes(v))
               /\ ~ Deletes(u)'
               /\ ~ Uploading(v, m)
    <2>1. Uploading(u, x)' <=> x = m
      BY <1>1, <1>3, <1>6 DEF Uploading, Uploads, AtCall
    <2>2. ~ Uploading(v, m)
      BY <1>4 DEF UploadInv
    <2> QED
      BY <1>1, <1>3, <2>1, <2>2 DEF Uploading, Uploads, Deletes, AtCall
  <1>8. UploadInv'
    <2>1. ASSUME NEW v \in Users, NEW w \in Users, NEW x \in Media, Uploading(v, x)', Uploading(w, x)'
          PROVE  v = w
      BY <1>7, <2>1 DEF UploadInv
    <2>2. ASSUME NEW v \in Users, NEW x \in Media, Uploading(v, x)'
          PROVE  files'[x] # "never" /\ (library'[v].step = "row" => Whole(x)' \/ x \in clipped')
      <3>1. CASE v = u
        BY <1>1, <1>3, <1>5, <1>7, <2>2, <3>1
      <3>2. CASE v # u
        <4>1. Uploading(v, x) /\ x # m
          BY <1>7, <2>2, <3>2
        <4> QED
          BY <1>3, <1>4, <1>5, <3>2, <4>1 DEF UploadInv, Whole
      <3> QED
        BY <3>1, <3>2
    <2> QED
      BY <2>1, <2>2 DEF UploadInv
  <1>9. NewInv'
    <2>1. ASSUME NEW x \in Media
          PROVE  (New(x)' => New(x)) /\ (Known(x)' => Known(x))
      <3>1. New(x)' => New(x)
        BY <1>4, <1>5, <1>7 DEF New
      <3>2. Known(x)' => Known(x)
        BY <1>3, <1>4, <1>7 DEF Known, backupSide
      <3> QED
        BY <3>1, <3>2
    <2> QED
      BY <2>1, NewKept
  <1>10. \A x \in Media : Whole(x) => Whole(x)'
    BY <1>4, <1>5 DEF Whole
  <1>11. RowsInv'
    <2> SUFFICES ASSUME NEW x \in mediaRows'
                 PROVE  \/ Whole(x)' \/ x \in bare' \cup clipped'
                        \/ \E v \in Users : Deletes(v)' /\ x \in library'[v].ids
      BY DEF RowsInv
    <2>1. x \in mediaRows /\ x \in Media
      BY <1>4, TypesAre
    <2>2. \/ Whole(x) \/ x \in bare \cup clipped
          \/ \E v \in Users : Deletes(v) /\ x \in library[v].ids
      BY <2>1 DEF RowsInv
    <2>3. ~ Deletes(u)
      BY <1>4 DEF Deletes, AtCall
    <2> QED
      BY <1>3, <1>4, <1>7, <1>10, <2>1, <2>2, <2>3
  <1>12. FilesHold
    <2>1. job.step # "idle" => job.rows \subseteq Media
      BY JobOrNone, JobFields
    <2> QED
      BY <1>10, <2>1 DEF FilesHold
  <1> QED
    BY <1>4, <1>8, <1>9, <1>10, <1>11, <1>12 DEF LibraryMoves, backupSide

(* One upload goes on: the others and the deletions stay.                    *)
LEMMA UploadGoes ==
    ASSUME BackupTypes, UploadInv, NEW u \in Users, NEW m \in Media, Uploading(u, m),
           NEW c, library' = [library EXCEPT ![u] = c],
           c # NoCall => c.op = "upload" /\ c.ids = {m}
    PROVE  /\ \A v \in Users, x \in Media : Uploading(v, x)' => Uploading(v, x)
           /\ \A v \in Users, x \in Media : Uploading(v, x)' /\ v # u =>
                 x # m /\ library'[v] = library[v]
           /\ \A v \in Users : Deletes(v)' <=> Deletes(v)
           /\ \A v \in Users : Deletes(v) => library'[v] = library[v]
           /\ c = NoCall => \A v \in Users : ~ Uploading(v, m)'
           /\ \A x \in Media : Uploading(u, x) => x = m
  <1>1. library'[u] = c /\ \A v \in Users : v # u => library'[v] = library[v]
    BY OneCall
  <1>2. \A x \in Media : Uploading(u, x) => x = m
    BY DEF Uploading
  <1>3. ~ Deletes(u)
    BY DEF Uploading, Uploads, Deletes
  <1>4. ~ Deletes(u)'
    BY <1>1 DEF Deletes, AtCall
  <1>5. \A v \in Users, x \in Media : v # u => (Uploading(v, x)' <=> Uploading(v, x))
    BY <1>1 DEF Uploading, Uploads, AtCall
  <1>6. \A x \in Media : Uploading(u, x)' => c # NoCall /\ x = m
    BY <1>1 DEF Uploading, Uploads, AtCall
  <1>7. \A v \in Users : v # u => ~ Uploading(v, m)
    BY DEF UploadInv
  <1>8. \A v \in Users : v # u => (Deletes(v)' <=> Deletes(v))
    BY <1>1 DEF Deletes, AtCall
  <1> QED
    BY <1>1, <1>2, <1>3, <1>4, <1>5, <1>6, <1>7, <1>8

LEMMA WriteFileKeeps ==
    ASSUME BackupTypes, UploadInv, NewInv, RowsInv,
           NEW u \in Users, NEW m \in Media, WriteFile(u, m)
    PROVE  UploadInv' /\ NewInv' /\ RowsInv' /\ LibraryMoves /\ FilesHold
  <1> DEFINE c == [library[u] EXCEPT !.step = "row"]
  <1>0. library[u] \in Calls /\ Uploading(u, m)
    <2>1. AtCall(u) /\ library[u] \in Calls /\ CallFits(library[u])
      BY CallOrNone DEF WriteFile
    <2>2. library[u].op = "upload"
      BY <2>1 DEF CallFits, WriteFile, Calls
    <2> QED
      BY <2>1, <2>2 DEF Uploading, Uploads, WriteFile
  <1>1. c.op = "upload" /\ c.step = "row" /\ c.ids = {m} /\ c # NoCall
    <2>1. c.op = "upload" /\ c.step = "row" /\ c.ids = {m}
      BY <1>0 DEF Calls, Uploading, Uploads
    <2>2. c.step # NoCall.step
      BY <2>1 DEF NoCall
    <2> QED
      BY <2>1, <2>2
  <1>2. library' = [library EXCEPT ![u] = c]
    BY DEF WriteFile
  <1> HIDE DEF c
  <1>3. library'[u] = c /\ \A v \in Users : v # u => library'[v] = library[v]
    BY <1>2, OneCall
  <1>4. /\ files' = [files EXCEPT ![m] = IF m \in clipped THEN "part" ELSE "whole"]
        /\ UNCHANGED <<mediaRows, failures, bare, clipped>> /\ UNCHANGED backupSide
    BY DEF WriteFile
  <1>5. /\ files'[m] = IF m \in clipped THEN "part" ELSE "whole"
        /\ \A x \in Media : x # m => files'[x] = files[x]
    BY <1>4, TypesAre
  <1>6. /\ \A v \in Users, x \in Media : Uploading(v, x)' => Uploading(v, x)
        /\ \A v \in Users, x \in Media : Uploading(v, x)' /\ v # u =>
              x # m /\ library'[v] = library[v]
        /\ \A v \in Users : Deletes(v)' <=> Deletes(v)
        /\ \A v \in Users : Deletes(v) => library'[v] = library[v]
        /\ \A x \in Media : Uploading(u, x) => x = m
    BY <1>0, <1>1, <1>2, UploadGoes
  <1>7. UploadInv'
    <2>1. ASSUME NEW v \in Users, NEW w \in Users, NEW x \in Media, Uploading(v, x)', Uploading(w, x)'
          PROVE  v = w
      BY <1>6, <2>1 DEF UploadInv
    <2>2. ASSUME NEW v \in Users, NEW x \in Media, Uploading(v, x)'
          PROVE  files'[x] # "never" /\ (library'[v].step = "row" => Whole(x)' \/ x \in clipped')
      <3>1. CASE v = u
        <4>1. x = m
          BY <1>6, <2>2, <3>1
        <4> QED
          BY <4>1, <1>4, <1>5 DEF Whole
      <3>2. CASE v # u
        <4>1. Uploading(v, x) /\ x # m /\ library'[v] = library[v]
          BY <1>6, <2>2, <3>2
        <4> QED
          BY <1>4, <1>5, <4>1 DEF UploadInv, Whole
      <3> QED
        BY <3>1, <3>2
    <2> QED
      BY <2>1, <2>2 DEF UploadInv
  <1>8. NewInv'
    <2>1. ASSUME NEW x \in Media
          PROVE  (New(x)' => New(x)) /\ (Known(x)' => Known(x))
      <3>1. New(x)' => New(x)
        BY <1>5, <1>6 DEF New
      <3>2. Known(x)' => Known(x)
        BY <1>4, <1>6 DEF Known, backupSide
      <3> QED
        BY <3>1, <3>2
    <2> QED
      BY <2>1, NewKept
  <1>9. ~ Known(m)
    BY <1>0 DEF NewInv, New
  <1>10. RowsInv'
    <2> SUFFICES ASSUME NEW x \in mediaRows'
                 PROVE  \/ Whole(x)' \/ x \in bare' \cup clipped'
                        \/ \E v \in Users : Deletes(v)' /\ x \in library'[v].ids
      BY DEF RowsInv
    <2>1. x \in mediaRows /\ x \in Media /\ x # m
      BY <1>4, <1>9, TypesAre DEF Known
    <2>2. \/ Whole(x) \/ x \in bare \cup clipped
          \/ \E v \in Users : Deletes(v) /\ x \in library[v].ids
      BY <2>1 DEF RowsInv
    <2>3. Whole(x) => Whole(x)'
      BY <1>5, <2>1 DEF Whole
    <2> QED
      BY <1>4, <1>6, <2>2, <2>3
  <1>11. FilesHold
    <2> SUFFICES ASSUME job.step # "idle", NEW x \in job.rows, Whole(x)
                 PROVE  Whole(x)'
      BY DEF FilesHold
    <2>1. x \in Media /\ x # m
      BY <1>9, JobOrNone, JobFields DEF Known
    <2> QED
      BY <1>5, <2>1 DEF Whole
  <1> QED
    BY <1>4, <1>7, <1>8, <1>10, <1>11 DEF LibraryMoves, backupSide

LEMMA InsertRowKeeps ==
    ASSUME BackupTypes, UploadInv, NewInv, RowsInv,
           NEW u \in Users, NEW m \in Media, InsertRow(u, m)
    PROVE  UploadInv' /\ NewInv' /\ RowsInv' /\ LibraryMoves /\ FilesHold
  <1>0. Uploading(u, m) /\ library[u].step = "row"
    BY DEF Uploading, Uploads, AtCall, InsertRow
  <1>2. library' = [library EXCEPT ![u] = NoCall]
    BY DEF InsertRow
  <1>4. /\ mediaRows' = mediaRows \cup {m}
        /\ UNCHANGED <<files, failures, bare, clipped>> /\ UNCHANGED backupSide
    BY DEF InsertRow
  <1>6. /\ \A v \in Users, x \in Media : Uploading(v, x)' => Uploading(v, x)
        /\ \A v \in Users, x \in Media : Uploading(v, x)' /\ v # u =>
              x # m /\ library'[v] = library[v]
        /\ \A v \in Users : Deletes(v)' <=> Deletes(v)
        /\ \A v \in Users : Deletes(v) => library'[v] = library[v]
        /\ \A v \in Users : ~ Uploading(v, m)'
        /\ \A x \in Media : Uploading(u, x) => x = m
    BY <1>0, <1>2, UploadGoes
  <1>5. \A v \in Users, x \in Media : Uploading(v, x)' => v # u
    BY <1>6
  <1>7. UploadInv'
    <2>1. ASSUME NEW v \in Users, NEW w \in Users, NEW x \in Media, Uploading(v, x)', Uploading(w, x)'
          PROVE  v = w
      BY <1>6, <2>1 DEF UploadInv
    <2>2. ASSUME NEW v \in Users, NEW x \in Media, Uploading(v, x)'
          PROVE  files'[x] # "never" /\ (library'[v].step = "row" => Whole(x)' \/ x \in clipped')
      <3>1. Uploading(v, x) /\ library'[v] = library[v]
        BY <1>5, <1>6, <2>2
      <3> QED
        BY <1>4, <3>1 DEF UploadInv, Whole
    <2> QED
      BY <2>1, <2>2 DEF UploadInv
  <1>8. NewInv'
    <2>1. ASSUME NEW x \in Media, New(x)'
          PROVE  New(x) /\ (Known(x)' => Known(x))
      <3>1. New(x)
        BY <1>4, <1>6, <2>1 DEF New
      <3>2. x # m
        <4>1. files[m] # "never"
          BY <1>0 DEF UploadInv
        <4> QED
          BY <4>1, <1>4, <1>6, <2>1 DEF New
      <3>3. Known(x)' => Known(x)
        BY <1>4, <1>6, <3>2 DEF Known, backupSide
      <3> QED
        BY <3>1, <3>3
    <2> QED
      BY <2>1, NewKept
  <1>10. RowsInv'
    <2> SUFFICES ASSUME NEW x \in mediaRows'
                 PROVE  \/ Whole(x)' \/ x \in bare' \cup clipped'
                        \/ \E v \in Users : Deletes(v)' /\ x \in library'[v].ids
      BY DEF RowsInv
    <2>1. CASE x = m
      BY <1>0, <1>4, <2>1 DEF UploadInv, Whole
    <2>2. CASE x \in mediaRows
      <3>1. \/ Whole(x) \/ x \in bare \cup clipped
            \/ \E v \in Users : Deletes(v) /\ x \in library[v].ids
        BY <2>2 DEF RowsInv
      <3>2. Whole(x) => Whole(x)'
        BY <1>4 DEF Whole
      <3> QED
        BY <1>4, <1>6, <3>1, <3>2
    <2> QED
      BY <1>4, <2>1, <2>2
  <1>11. FilesHold
    BY <1>4 DEF FilesHold, Whole
  <1> QED
    BY <1>4, <1>7, <1>8, <1>10, <1>11 DEF LibraryMoves, backupSide

LEMMA UploadFailsKeeps ==
    ASSUME BackupTypes, UploadInv, NewInv, RowsInv,
           NEW u \in Users, NEW m \in Media, UploadFails(u, m)
    PROVE  UploadInv' /\ NewInv' /\ RowsInv' /\ LibraryMoves /\ FilesHold
  <1>0. Uploading(u, m)
    BY DEF Uploading, Uploads, AtCall, UploadFails
  <1>2. library' = [library EXCEPT ![u] = NoCall]
    BY DEF UploadFails
  <1>4. /\ files' = [files EXCEPT ![m] = "none"] /\ clipped' = clipped \ {m}
        /\ UNCHANGED <<mediaRows, bare>> /\ UNCHANGED backupSide
    BY DEF UploadFails
  <1>3. files'[m] = "none" /\ \A x \in Media : x # m => files'[x] = files[x]
    BY <1>4, TypesAre
  <1>6. /\ \A v \in Users, x \in Media : Uploading(v, x)' => Uploading(v, x)
        /\ \A v \in Users, x \in Media : Uploading(v, x)' /\ v # u =>
              x # m /\ library'[v] = library[v]
        /\ \A v \in Users : Deletes(v)' <=> Deletes(v)
        /\ \A v \in Users : Deletes(v) => library'[v] = library[v]
        /\ \A v \in Users : ~ Uploading(v, m)'
        /\ \A x \in Media : Uploading(u, x) => x = m
    BY <1>0, <1>2, UploadGoes
  <1>5. \A v \in Users, x \in Media : Uploading(v, x)' => v # u
    BY <1>6
  <1>9. ~ Known(m)
    BY <1>0 DEF NewInv, New
  <1>7. UploadInv'
    <2>1. ASSUME NEW v \in Users, NEW w \in Users, NEW x \in Media, Uploading(v, x)', Uploading(w, x)'
          PROVE  v = w
      BY <1>6, <2>1 DEF UploadInv
    <2>2. ASSUME NEW v \in Users, NEW x \in Media, Uploading(v, x)'
          PROVE  files'[x] # "never" /\ (library'[v].step = "row" => Whole(x)' \/ x \in clipped')
      <3>1. Uploading(v, x) /\ library'[v] = library[v] /\ x # m
        BY <1>5, <1>6, <2>2
      <3> QED
        BY <1>3, <1>4, <3>1 DEF UploadInv, Whole
    <2> QED
      BY <2>1, <2>2 DEF UploadInv
  <1>8. NewInv'
    <2>1. ASSUME NEW x \in Media, New(x)'
          PROVE  New(x) /\ (Known(x)' => Known(x))
      <3>1. New(x)
        BY <1>3, <1>6, <2>1 DEF New
      <3>2. Known(x)' => Known(x)
        BY <1>4, <1>6 DEF Known, backupSide
      <3> QED
        BY <3>1, <3>2
    <2> QED
      BY <2>1, NewKept
  <1>10. RowsInv'
    <2> SUFFICES ASSUME NEW x \in mediaRows'
                 PROVE  \/ Whole(x)' \/ x \in bare' \cup clipped'
                        \/ \E v \in Users : Deletes(v)' /\ x \in library'[v].ids
      BY DEF RowsInv
    <2>1. x \in mediaRows /\ x \in Media /\ x # m
      BY <1>4, <1>9, TypesAre DEF Known
    <2>2. \/ Whole(x) \/ x \in bare \cup clipped
          \/ \E v \in Users : Deletes(v) /\ x \in library[v].ids
      BY <2>1 DEF RowsInv
    <2>3. Whole(x) => Whole(x)'
      BY <1>3, <2>1 DEF Whole
    <2> QED
      BY <1>4, <1>6, <2>1, <2>2, <2>3
  <1>11. FilesHold
    <2> SUFFICES ASSUME job.step # "idle", NEW x \in job.rows, Whole(x)
                 PROVE  Whole(x)'
      BY DEF FilesHold
    <2>1. x \in Media /\ x # m
      BY <1>9, JobOrNone, JobFields DEF Known
    <2> QED
      BY <1>3, <2>1 DEF Whole
  <1> QED
    BY <1>4, <1>7, <1>8, <1>10, <1>11 DEF LibraryMoves, backupSide

(* One deletion goes on: the uploads stay.                                   *)
LEMMA DeletionGoes ==
    ASSUME BackupTypes, UploadInv, NEW u \in Users, ~ Uploads(u),
           NEW c, library' = [library EXCEPT ![u] = c], c # NoCall => c.op = "delete"
    PROVE  /\ \A v \in Users, x \in Media : Uploading(v, x)' <=> Uploading(v, x)
           /\ \A v \in Users, x \in Media : Uploading(v, x) => library'[v] = library[v]
           /\ \A v \in Users : v # u => library'[v] = library[v]
           /\ \A v \in Users : v # u => (Deletes(v)' <=> Deletes(v))
           /\ library'[u] = c /\ (Deletes(u)' <=> c # NoCall)
  <1>1. library'[u] = c /\ \A v \in Users : v # u => library'[v] = library[v]
    BY OneCall
  <1>2. \A x \in Media : ~ Uploading(u, x) /\ ~ Uploading(u, x)'
    <2>1. ~ Uploads(u)'
      BY <1>1 DEF Uploads, AtCall
    <2> QED
      BY <2>1 DEF Uploading
  <1>3. \A v \in Users, x \in Media : v # u => (Uploading(v, x)' <=> Uploading(v, x))
    BY <1>1 DEF Uploading, Uploads, AtCall
  <1>4. \A v \in Users : v # u => (Deletes(v)' <=> Deletes(v))
    BY <1>1 DEF Deletes, AtCall
  <1>5. Deletes(u)' <=> c # NoCall
    BY <1>1 DEF Deletes, AtCall
  <1> QED
    BY <1>1, <1>2, <1>3, <1>4, <1>5

(* What the library keeps when uploads stay and only files go that are known. *)
LEMMA UploadsStay ==
    ASSUME BackupTypes, UploadInv, NewInv,
           \A v \in Users, x \in Media : Uploading(v, x)' <=> Uploading(v, x),
           \A v \in Users, x \in Media : Uploading(v, x) => library'[v] = library[v],
           \A x \in Media : New(x) => files'[x] = files[x] /\ (x \in clipped => x \in clipped'),
           \A x \in Media : files'[x] = "never" => files[x] = "never",
           \A x \in Media : New(x) => (Known(x)' => Known(x))
    PROVE  UploadInv' /\ NewInv'
  <1>1. UploadInv'
    <2>1. ASSUME NEW v \in Users, NEW w \in Users, NEW x \in Media, Uploading(v, x)', Uploading(w, x)'
          PROVE  v = w
      BY <2>1 DEF UploadInv
    <2>2. ASSUME NEW v \in Users, NEW x \in Media, Uploading(v, x)'
          PROVE  files'[x] # "never" /\ (library'[v].step = "row" => Whole(x)' \/ x \in clipped')
      <3>1. Uploading(v, x) /\ library'[v] = library[v]
        BY <2>2
      <3>2. New(x)
        BY <3>1 DEF New
      <3> QED
        BY <3>1, <3>2 DEF UploadInv, Whole
    <2> QED
      BY <2>1, <2>2 DEF UploadInv
  <1>2. NewInv'
    <2>1. ASSUME NEW x \in Media, New(x)'
          PROVE  New(x) /\ (Known(x)' => Known(x))
      <3>1. New(x)
        BY <2>1 DEF New
      <3> QED
        BY <3>1
    <2> QED
      BY <2>1, NewKept
  <1> QED
    BY <1>1, <1>2

LEMMA StartDeleteKeeps ==
    ASSUME BackupTypes, UploadInv, NewInv, RowsInv,
           NEW u \in Users, NEW ids \in SUBSET Media, StartDelete(u, ids)
    PROVE  UploadInv' /\ NewInv' /\ RowsInv' /\ LibraryMoves /\ FilesHold
  <1> DEFINE c == [op |-> "delete", ids |-> ids, left |-> ids \cap mediaRows,
                   step |-> IF ids \cap mediaRows = {} THEN "row" ELSE "files"]
  <1>1. c.op = "delete" /\ c.left = ids \cap mediaRows /\ c.ids = ids /\ c # NoCall
    <2>1. c.op = "delete" /\ c.left = ids \cap mediaRows /\ c.ids = ids /\ c.step \in {"row", "files"}
      OBVIOUS
    <2>2. NoCall.step = "idle"
      BY DEF NoCall
    <2> QED
      BY <2>1, <2>2
  <1>2. library' = [library EXCEPT ![u] = c]
    BY DEF StartDelete
  <1> HIDE DEF c
  <1>3. ~ Uploads(u) /\ ~ Deletes(u)
    BY DEF Uploads, Deletes, AtCall, StartDelete
  <1>4. UNCHANGED <<mediaRows, files, failures, bare, clipped>> /\ UNCHANGED backupSide
    BY DEF StartDelete
  <1>5. /\ \A v \in Users, x \in Media : Uploading(v, x)' <=> Uploading(v, x)
        /\ \A v \in Users, x \in Media : Uploading(v, x) => library'[v] = library[v]
        /\ \A v \in Users : v # u => library'[v] = library[v]
        /\ \A v \in Users : v # u => (Deletes(v)' <=> Deletes(v))
        /\ library'[u] = c /\ Deletes(u)'
    BY <1>1, <1>2, <1>3, DeletionGoes
  <1>6. \A x \in Media : Known(x)' => Known(x)
    BY <1>1, <1>4, <1>5 DEF Known, backupSide
  <1>7. UploadInv' /\ NewInv'
    BY <1>4, <1>5, <1>6, UploadsStay
  <1>8. RowsInv'
    <2> SUFFICES ASSUME NEW x \in mediaRows'
                 PROVE  \/ Whole(x)' \/ x \in bare' \cup clipped'
                        \/ \E v \in Users : Deletes(v)' /\ x \in library'[v].ids
      BY DEF RowsInv
    <2>1. \/ Whole(x) \/ x \in bare \cup clipped
          \/ \E v \in Users : Deletes(v) /\ x \in library[v].ids
      BY <1>4 DEF RowsInv
    <2>2. Whole(x) => Whole(x)'
      BY <1>4 DEF Whole
    <2> QED
      BY <1>3, <1>4, <1>5, <2>1, <2>2
  <1>9. FilesHold
    BY <1>4 DEF FilesHold, Whole
  <1> QED
    BY <1>4, <1>7, <1>8, <1>9 DEF LibraryMoves, backupSide

LEMMA RemoveFileKeeps ==
    ASSUME BackupTypes, UploadInv, NewInv, RowsInv,
           NEW u \in Users, NEW m \in Media, removeStoredFile(u, m)
    PROVE  UploadInv' /\ NewInv' /\ RowsInv' /\ LibraryMoves /\ FilesHold
  <1> DEFINE c == [library[u] EXCEPT !.left = library[u].left \ {m},
                                     !.step = IF library[u].left = {m} THEN "row" ELSE library[u].step]
  <1>0. /\ library[u] \in Calls /\ Deletes(u) /\ m \in library[u].left /\ m \in library[u].ids
    <2>1. AtCall(u) /\ library[u] \in Calls /\ CallFits(library[u])
      BY CallOrNone DEF removeStoredFile
    <2>2. library[u].op = "delete"
      BY <2>1 DEF CallFits, removeStoredFile, Calls
    <2> QED
      BY <2>1, <2>2 DEF Deletes, removeStoredFile, CallFits
  <1>1. c.op = "delete" /\ c.left = library[u].left \ {m} /\ c.ids = library[u].ids /\ c # NoCall
    <2>1. /\ c.op = "delete" /\ c.left = library[u].left \ {m} /\ c.ids = library[u].ids
          /\ c.step \in {"row", "files", "write"}
      BY <1>0 DEF Calls, Deletes
    <2>2. NoCall.step = "idle"
      BY DEF NoCall
    <2> QED
      BY <2>1, <2>2
  <1>2. library' = [library EXCEPT ![u] = c]
    BY DEF removeStoredFile
  <1> HIDE DEF c
  <1>3. ~ Uploads(u)
    BY <1>0 DEF Uploads, Deletes
  <1>4. /\ files' = [files EXCEPT ![m] = "none"] /\ clipped' = clipped \ {m}
        /\ UNCHANGED <<driver, mediaRows, store, open, second, jobs, failures, bare>>
        /\ job' = IF job # NoCall /\ job.op = "all" THEN [job EXCEPT !.gone = job.gone \cup {m}] ELSE job
    BY DEF removeStoredFile
  <1>5. /\ \A v \in Users, x \in Media : Uploading(v, x)' <=> Uploading(v, x)
        /\ \A v \in Users, x \in Media : Uploading(v, x) => library'[v] = library[v]
        /\ \A v \in Users : v # u => library'[v] = library[v]
        /\ \A v \in Users : v # u => (Deletes(v)' <=> Deletes(v))
        /\ library'[u] = c /\ Deletes(u)'
    BY <1>1, <1>2, <1>3, DeletionGoes
  <1>6. LibraryMoves
    BY <1>4, JobOrNone DEF LibraryMoves
  <1>7. files'[m] = "none" /\ \A x \in Media : x # m => files'[x] = files[x]
    BY <1>4, TypesAre
  <1>8. \A x \in Media : Known(x)' => Known(x)
    BY <1>0, <1>1, <1>4, <1>5, <1>6, MovesJob DEF Known
  <1>9. ~ New(m)
    BY <1>0 DEF NewInv, Known
  <1>10. UploadInv' /\ NewInv'
    BY <1>4, <1>5, <1>7, <1>8, <1>9, UploadsStay
  <1>11. RowsInv'
    <2> SUFFICES ASSUME NEW x \in mediaRows'
                 PROVE  \/ Whole(x)' \/ x \in bare' \cup clipped'
                        \/ \E v \in Users : Deletes(v)' /\ x \in library'[v].ids
      BY DEF RowsInv
    <2>1. /\ x \in Media
          /\ \/ Whole(x) \/ x \in bare \cup clipped
             \/ \E v \in Users : Deletes(v) /\ x \in library[v].ids
      BY <1>4, TypesAre DEF RowsInv
    <2>2. CASE x = m
      BY <1>0, <1>1, <1>5, <2>2
    <2>3. CASE x # m
      <3>1. Whole(x) => Whole(x)'
        BY <1>7, <2>1, <2>3 DEF Whole
      <3>2. x \in library[u].ids => x \in library'[u].ids
        BY <1>1, <1>5
      <3> QED
        BY <1>4, <1>5, <2>1, <2>3, <3>1, <3>2
    <2> QED
      BY <2>2, <2>3
  <1>12. FilesHold
    <2> SUFFICES ASSUME job.step # "idle", job.op = "all", NEW x \in job.rows, Whole(x)
                 PROVE  Whole(x)' \/ x \in job'.gone
      BY DEF FilesHold
    <2>1. job \in Jobs /\ x \in Media
      BY JobOrNone, JobFields
    <2>2. CASE x = m
      <3>1. job' = [job EXCEPT !.gone = job.gone \cup {m}]
        BY <1>4, <2>1, JobOrNone
      <3>2. job'.gone = job.gone \cup {m}
        BY <2>1, <3>1 DEF Jobs
      <3> QED
        BY <2>2, <3>2
    <2>3. CASE x # m
      BY <1>7, <2>1, <2>3 DEF Whole
    <2> QED
      BY <2>2, <2>3
  <1> QED
    BY <1>6, <1>10, <1>11, <1>12

LEMMA DeleteRowsKeeps ==
    ASSUME BackupTypes, UploadInv, NewInv, RowsInv, NEW u \in Users, DeleteByIDs(u)
    PROVE  UploadInv' /\ NewInv' /\ RowsInv' /\ LibraryMoves /\ FilesHold
  <1>1. Deletes(u) /\ ~ Uploads(u) /\ library' = [library EXCEPT ![u] = NoCall]
    BY DEF DeleteByIDs, Deletes, Uploads, AtCall
  <1>4. /\ mediaRows' = mediaRows \ library[u].ids /\ bare' = bare \ library[u].ids
        /\ UNCHANGED <<files, failures, clipped>> /\ UNCHANGED backupSide
    BY DEF DeleteByIDs, DeletedIds
  <1>5. /\ \A v \in Users, x \in Media : Uploading(v, x)' <=> Uploading(v, x)
        /\ \A v \in Users, x \in Media : Uploading(v, x) => library'[v] = library[v]
        /\ \A v \in Users : v # u => library'[v] = library[v]
        /\ \A v \in Users : v # u => (Deletes(v)' <=> Deletes(v))
        /\ ~ Deletes(u)'
    BY <1>1, DeletionGoes
  <1>6. \A x \in Media : Known(x)' => Known(x)
    BY <1>4, <1>5 DEF Known, backupSide
  <1>7. UploadInv' /\ NewInv'
    BY <1>4, <1>5, <1>6, UploadsStay
  <1>8. RowsInv'
    <2> SUFFICES ASSUME NEW x \in mediaRows'
                 PROVE  \/ Whole(x)' \/ x \in bare' \cup clipped'
                        \/ \E v \in Users : Deletes(v)' /\ x \in library'[v].ids
      BY DEF RowsInv
    <2>0. x \in mediaRows /\ x \notin library[u].ids
      BY <1>4
    <2>1. \/ Whole(x) \/ x \in bare \cup clipped
          \/ \E v \in Users : Deletes(v) /\ x \in library[v].ids
      BY <2>0 DEF RowsInv
    <2>2. Whole(x) => Whole(x)'
      BY <1>4 DEF Whole
    <2> QED
      BY <1>4, <1>5, <2>0, <2>1, <2>2
  <1>9. FilesHold
    BY <1>4 DEF FilesHold, Whole
  <1> QED
    BY <1>4, <1>7, <1>8, <1>9 DEF LibraryMoves, backupSide

LEMMA DeleteFailsKeeps ==
    ASSUME BackupTypes, UploadInv, NewInv, RowsInv, NEW u \in Users, DeleteFails(u)
    PROVE  UploadInv' /\ NewInv' /\ RowsInv' /\ LibraryMoves /\ FilesHold
  <1>1. Deletes(u) /\ ~ Uploads(u) /\ library' = [library EXCEPT ![u] = NoCall]
    BY DEF DeleteFails, Deletes, Uploads, AtCall
  <1>4. /\ bare' = bare \cup (library[u].ids \cap mediaRows)
        /\ UNCHANGED <<mediaRows, files, clipped>> /\ UNCHANGED backupSide
    BY DEF DeleteFails
  <1>5. /\ \A v \in Users, x \in Media : Uploading(v, x)' <=> Uploading(v, x)
        /\ \A v \in Users, x \in Media : Uploading(v, x) => library'[v] = library[v]
        /\ \A v \in Users : v # u => library'[v] = library[v]
        /\ \A v \in Users : v # u => (Deletes(v)' <=> Deletes(v))
        /\ ~ Deletes(u)'
    BY <1>1, DeletionGoes
  <1>6. \A x \in Media : Known(x)' => Known(x)
    BY <1>4, <1>5 DEF Known, backupSide
  <1>7. UploadInv' /\ NewInv'
    BY <1>4, <1>5, <1>6, UploadsStay
  <1>8. RowsInv'
    <2> SUFFICES ASSUME NEW x \in mediaRows'
                 PROVE  \/ Whole(x)' \/ x \in bare' \cup clipped'
                        \/ \E v \in Users : Deletes(v)' /\ x \in library'[v].ids
      BY DEF RowsInv
    <2>1. \/ Whole(x) \/ x \in bare \cup clipped
          \/ \E v \in Users : Deletes(v) /\ x \in library[v].ids
      BY <1>4 DEF RowsInv
    <2>2. Whole(x) => Whole(x)'
      BY <1>4 DEF Whole
    <2> QED
      BY <1>4, <1>5, <2>1, <2>2
  <1>9. FilesHold
    BY <1>4 DEF FilesHold, Whole
  <1> QED
    BY <1>4, <1>7, <1>8, <1>9 DEF LibraryMoves, backupSide

---------------------------------------------------------------------------------
(* What a job is at, what a dump holds, what a full backup has of its rows.   *)

JobShape ==
    job.step # "idle" =>
        /\ job.op \in Backing =>
              /\ job.step \in {"begin", "dump", "read", "retain", "answer"}
              /\ job.step = "answer" <=> job.parts = <<>>
              /\ job.step \in {"dump", "read", "retain"} =>
                    job.name \in Names /\ job.name.kind = Head(job.parts)
              /\ job.step = "dump" => Head(job.parts) = "db"
              /\ job.step = "read" => Head(job.parts) = "media"
        /\ job.op = "all" => job.parts # <<"db">>
        /\ job.op = "restore" => job.step \in {"apply", "extract", "restored"}
        /\ job.step = "apply" =>
              /\ job.name \in Names /\ job.name.kind = "db"
              /\ job.name \in DOMAIN store => store[job.name].state \in {"data", "whole"}

StoreInv ==
    \A n \in DOMAIN store :
        n.kind = "db" /\ store[n].state = "whole" => store[n].holds = store[n].meant

(* A full backup that has yet to archive the files.                          *)
Before == job.step = "begin" \/ job.parts = <<"db", "media">>

PairInv ==
    job.step # "idle" /\ job.op = "all" =>
        \A m \in job.rows :
            \/ m \in job.gone
            \/ ~ Before /\ m \in job.holds
            \/ Before /\ Whole(m)
            \/ job.step = "read" /\ m \in job.left /\ Whole(m)

KeptInv ==
    job.step # "idle" /\ job.dropped # {} =>
        /\ Cardinality(job.kept) = MaxBackups
        /\ \A d \in job.dropped, k \in job.kept : d.second <= k.second

JobInv == JobShape /\ StoreInv /\ PairInv /\ KeptInv /\ RestoredIsWhole

BackupInv == BackupTypes /\ NamesFit /\ UploadInv /\ NewInv /\ RowsInv /\ JobInv

LEMMA OpsDiffer == "restore" \notin Backing /\ "all" \in Backing
  BY DEF Backing

LEMMA BackupsForm ==
    ASSUME BackupInv
    PROVE  BackupsHold
  <1>1. RowsHaveFiles
    BY RowsForm DEF BackupInv
  <1>2. PairsAreComplete
    <2> SUFFICES ASSUME job.step = "answer", job.op = "all", NEW m \in job.rows, m \notin job.holds
                 PROVE  m \in job.gone
      BY DEF PairsAreComplete
    <2>1. JobShape /\ PairInv
      BY DEF BackupInv, JobInv
    <2>2. job.parts = <<>>
      BY <2>1, OpsDiffer DEF JobShape
    <2>3. ~ Before
      BY <2>2, PartsHeads DEF Before
    <2> QED
      BY <2>1, <2>3 DEF PairInv
  <1>3. KeptAreNewest
    BY JobOrNone DEF BackupInv, JobInv, KeptInv, KeptAreNewest
  <1> QED
    BY <1>1, <1>2, <1>3 DEF BackupsHold, BackupInv, JobInv

(* The job does not move while the library does.                             *)
LEMMA LibraryStep ==
    ASSUME BackupInv, BackupTypes', UploadInv', NewInv', RowsInv', LibraryMoves, FilesHold
    PROVE  BackupInv'
  <1>1. /\ BackupTypes /\ NamesFit /\ JobShape /\ StoreInv /\ PairInv /\ KeptInv /\ RestoredIsWhole
    BY DEF BackupInv, JobInv
  <1>2. /\ UNCHANGED store /\ UNCHANGED driver /\ UNCHANGED jobs
        /\ job'.op = job.op /\ job'.step = job.step /\ job'.parts = job.parts
        /\ job'.name = job.name /\ job'.rows = job.rows /\ job'.left = job.left
        /\ job'.holds = job.holds /\ job'.dropped = job.dropped /\ job'.kept = job.kept
        /\ job'.how = job.how
        /\ job.gone \subseteq job'.gone
    BY MovesJob DEF LibraryMoves
  <1>3. NamesFit'
    <2>1. jobs' \in Nat /\ jobs' >= jobs
      BY <1>1, <1>2, JobsStay
    <2>2. \A k \in Kinds : Pending(k)' => Pending(k)
      BY <1>2 DEF Pending
    <2>3. DOMAIN store' \subseteq DOMAIN store
      BY <1>2
    <2> QED
      BY <1>1, <1>2, <2>1, <2>2, <2>3, NamesKeep
  <1>4. JobShape'
    BY <1>1, <1>2 DEF JobShape
  <1>5. StoreInv'
    BY <1>1, <1>2 DEF StoreInv
  <1>6. PairInv'
    <2> SUFFICES ASSUME job.step # "idle", job.op = "all", NEW m \in job.rows
                 PROVE  \/ m \in job'.gone
                        \/ ~ Before' /\ m \in job'.holds
                        \/ Before' /\ Whole(m)'
                        \/ job'.step = "read" /\ m \in job'.left /\ Whole(m)'
      BY <1>2 DEF PairInv
    <2>1. Before' <=> Before
      BY <1>2 DEF Before
    <2>2. Whole(m) => Whole(m)' \/ m \in job'.gone
      BY DEF FilesHold
    <2> QED
      BY <1>1, <1>2, <2>1, <2>2 DEF PairInv
  <1>7. KeptInv'
    BY <1>1, <1>2 DEF KeptInv
  <1>8. RestoredIsWhole'
    BY <1>1, <1>2 DEF RestoredIsWhole
  <1> QED
    BY <1>3, <1>4, <1>5, <1>6, <1>7, <1>8 DEF BackupInv, JobInv

(* And the library does not while the job does.                              *)
LEMMA QuietLibrary ==
    ASSUME BackupTypes, UploadInv, NewInv, RowsInv,
           UNCHANGED <<library, files, mediaRows, bare, clipped>>,
           \A n \in DOMAIN store' : n.kind = "db" =>
                \A m \in store'[n].meant \cup store'[n].holds : Known(m),
           job'.step # "idle" => \A m \in job'.rows : Known(m)
    PROVE  UploadInv' /\ NewInv' /\ RowsInv'
  <1>1. \A v \in Users, x \in Media : Uploading(v, x)' <=> Uploading(v, x)
    BY DEF Uploading, Uploads, AtCall
  <1>2. \A v \in Users : Deletes(v)' <=> Deletes(v)
    BY DEF Deletes, AtCall
  <1>3. \A x \in Media : Known(x)' => Known(x)
    <2>1. ASSUME NEW x \in Media, Known(x)'
          PROVE  Known(x)
      <3>1. \/ x \in mediaRows
            \/ \E u \in Users : Deletes(u) /\ x \in library[u].left
            \/ \E n \in DOMAIN store' : n.kind = "db" /\ x \in store'[n].meant \cup store'[n].holds
            \/ job'.step # "idle" /\ x \in job'.rows
        BY <1>2, <2>1 DEF Known
      <3> QED
        BY <3>1 DEF Known
    <2> QED
      BY <2>1
  <1>4. UploadInv' /\ NewInv'
    BY <1>1, <1>3, UploadsStay
  <1>5. RowsInv'
    BY <1>2 DEF RowsInv, Whole
  <1> QED
    BY <1>4, <1>5

(* A job that is over says nothing.                                          *)
LEMMA NoJob ==
    ASSUME job'.step = "idle", StoreInv'
    PROVE  JobInv'
  BY DEF JobInv, JobShape, PairInv, KeptInv, RestoredIsWhole

LEMMA StoreKnown ==
    ASSUME NEW n \in DOMAIN store, n.kind = "db", NEW m \in store[n].meant \cup store[n].holds
    PROVE  Known(m)
  BY DEF Known

LEMMA JobKnown ==
    ASSUME job.step # "idle", NEW m \in job.rows
    PROVE  Known(m)
  BY DEF Known

LEMMA JobKinds ==
    ASSUME BackupTypes, JobShape, job \in Jobs
    PROVE  /\ job.step \in {"begin", "dump", "read", "retain", "answer"} => job.op \in Backing
           /\ job.step \in {"apply", "extract", "restored"} => job.op = "restore" /\ job.op # "all"
           /\ job.step \in {"begin", "dump", "read", "retain"} => job.parts # <<>>
           /\ job.step # "idle"
           /\ job.parts \in {<<>>, <<"db">>, <<"media">>, <<"db", "media">>}
  <1>1. job.op \in Backing \/ job.op = "restore"
    BY JobFields DEF Backing
  <1>2. /\ job.step # "idle"
        /\ job.parts \in {<<>>, <<"db">>, <<"media">>, <<"db", "media">>}
    BY JobOrNone, JobFields
  <1> QED
    BY <1>1, <1>2, OpsDiffer DEF JobShape

LEMMA TheParts ==
    ASSUME BackupInv
    PROVE  /\ BackupTypes /\ NamesFit /\ UploadInv /\ NewInv /\ RowsInv
           /\ JobShape /\ StoreInv /\ PairInv /\ KeptInv /\ RestoredIsWhole
  BY DEF BackupInv, JobInv

LEMMA JobEnds ==
    ASSUME BackupInv, job' = NoCall, UNCHANGED <<store, jobs, librarySide>>,
           MayFail \/ UNCHANGED failures
    PROVE  BackupInv'
  <1>1. BackupTypes' /\ NamesFit' /\ job'.step = "idle"
    BY TheParts, EndsFit, StillStore
  <1>2. StoreInv'
    BY TheParts DEF StoreInv
  <1>3. UploadInv' /\ NewInv' /\ RowsInv'
    BY <1>1, TheParts, StoreKnown, QuietLibrary DEF librarySide, atLibrary
  <1> QED
    BY <1>1, <1>2, <1>3, NoJob DEF BackupInv

LEMMA QuickEnds ==
    ASSUME BackupInv, backupDBRefused \/ ExtractEnds \/ Unlock
    PROVE  BackupInv'
  BY JobEnds DEF backupDBRefused, ExtractEnds, Unlock

LEMMA TryLockKeeps ==
    ASSUME BackupInv, NEW op \in Backing, TryLock(op)
    PROVE  BackupInv'
  <1>1. /\ BackupTypes' /\ NamesFit'
        /\ job' \in Jobs /\ job'.op = op /\ job'.step = "begin"
        /\ job'.parts = Parts(op) /\ job'.rows = {} /\ job'.dropped = {}
    BY TheParts, TryLockFits
  <1>2. UNCHANGED <<store, librarySide>>
    BY DEF TryLock
  <1>3. UploadInv' /\ NewInv' /\ RowsInv'
    BY <1>1, <1>2, TheParts, StoreKnown, QuietLibrary DEF librarySide, atLibrary
  <1>4. StoreInv'
    BY <1>2, TheParts DEF StoreInv
  <1>5. Parts(op) # <<>>
    BY PartsHeads DEF Parts, Backing
  <1>6. JobShape'
    <2>1. op = "all" => Parts(op) # <<"db">>
      BY PartsHeads DEF Parts
    <2> QED
      BY <1>1, <1>5, <2>1, OpsDiffer DEF JobShape
  <1>7. PairInv' /\ KeptInv' /\ RestoredIsWhole'
    BY <1>1 DEF PairInv, KeptInv, RestoredIsWhole
  <1> QED
    BY <1>1, <1>3, <1>4, <1>6, <1>7 DEF BackupInv, JobInv

LEMMA BackupDBKeeps ==
    ASSUME BackupInv, backupDB
    PROVE  BackupInv'
  <1>0. job \in Jobs /\ job.op \in Backing /\ job.parts # <<>> /\ job.step = "begin"
    <2>1. job.step = "begin"
      BY DEF backupDB
    <2>2. job \in Jobs
      BY <2>1, TheParts, JobOrNone
    <2> QED
      BY <2>1, <2>2, TheParts, JobKinds
  <1>1. Head(job.parts) = "db" /\ NewFile("db", mediaRows) /\ UNCHANGED <<jobs, failures, atLibrary>>
    BY DEF backupDB
  <1>2. mediaRows \in SUBSET Media
    BY TheParts, TypesAre
  <1>a. "db" \in Kinds
    BY DEF Kinds
  <1>3.   /\ BackupTypes' /\ NamesFit'
          /\ job \in Jobs /\ job' \in Jobs /\ job'.op = job.op /\ job'.parts = job.parts
          /\ job'.name \in Names /\ job'.name.kind = "db" /\ job'.name \notin DOMAIN store
          /\ job'.dropped = {} /\ job'.step = "dump" /\ job'.rows = mediaRows
          /\ job'.gone = IF job.op = "all" THEN job.gone \cup {m \in mediaRows : ~Whole(m)}
                         ELSE job.gone
          /\ DOMAIN store' = DOMAIN store \cup {job'.name}
          /\ \A n \in DOMAIN store : store'[n] = store[n]
          /\ store'[job'.name].state = "growing"
          /\ store'[job'.name].meant = mediaRows /\ store'[job'.name].holds = {}
    BY <1>0, <1>1, <1>2, <1>a, TheParts, NewFileFits
  <1>4. UploadInv' /\ NewInv' /\ RowsInv'
    <2>1. ASSUME NEW n \in DOMAIN store', n.kind = "db", NEW m \in store'[n].meant \cup store'[n].holds
          PROVE  Known(m)
      <3>1. CASE n \in DOMAIN store
        BY <1>3, <2>1, <3>1, StoreKnown
      <3>2. CASE n = job'.name
        BY <1>3, <2>1, <3>2 DEF Known
      <3> QED
        BY <1>3, <3>1, <3>2
    <2>2. \A m \in job'.rows : Known(m)
      BY <1>3 DEF Known
    <2> QED
      BY <1>1, <2>1, <2>2, TheParts, QuietLibrary DEF atLibrary
  <1>5. StoreInv'
    BY <1>3, TheParts DEF StoreInv
  <1>6. JobShape'
    <2>1. job.parts # <<>> /\ Head(job.parts) = "db"
      BY <1>0, <1>1
    <2>2. job.op = "all" => job.parts # <<"db">>
      BY <1>0, TheParts DEF JobShape
    <2> QED
      BY <1>0, <1>3, <2>1, <2>2, OpsDiffer DEF JobShape
  <1>7. PairInv'
    <2>1. \A m \in mediaRows : Whole(m)' <=> Whole(m)
      BY <1>1 DEF Whole, atLibrary
    <2>2. job.op = "all" => job.parts = <<"db", "media">>
      <3>1. job.parts \in {<<>>, <<"db">>, <<"media">>, <<"db", "media">>}
        BY <1>0, JobFields
      <3>2. job.op = "all" => job.parts # <<"db">>
        BY <1>0, TheParts, JobKinds DEF JobShape
      <3>3. Head(<<"media">>) # "db"
        OBVIOUS
      <3> QED
        BY <1>0, <1>1, <3>1, <3>2, <3>3
    <2>3. job'.op = "all" => Before'
      BY <1>3, <2>2 DEF Before
    <2> QED
      BY <1>3, <2>1, <2>3 DEF PairInv
  <1>8. KeptInv' /\ RestoredIsWhole'
    BY <1>3 DEF KeptInv, RestoredIsWhole
  <1> QED
    BY <1>3, <1>4, <1>5, <1>6, <1>7, <1>8 DEF BackupInv, JobInv

LEMMA DumpKeeps ==
    ASSUME BackupInv, dumpTo
    PROVE  BackupInv'
  <1>1.    /\ BackupTypes' /\ NamesFit'
           /\ job \in Jobs /\ job' \in Jobs /\ job' = [job EXCEPT !.step = "retain"]
           /\ DOMAIN store' = DOMAIN store
           /\ \A n \in DOMAIN store :
                 \/ store'[n] = store[n]
                 \/ n = job.name /\ store'[n].meant = job.rows /\ store'[n].holds = job.rows
    BY TheParts, DumpFits
  <1>2. job.step = "dump" /\ job.op \in Backing /\ job.parts # <<>> /\ job.step # "idle"
    BY <1>1, TheParts, JobKinds DEF dumpTo
  <1>3. /\ job'.op = job.op /\ job'.parts = job.parts /\ job'.step = "retain"
        /\ job'.name = job.name /\ job'.rows = job.rows /\ job'.gone = job.gone
        /\ job'.left = job.left /\ job'.holds = job.holds
        /\ job'.dropped = job.dropped /\ job'.kept = job.kept
    BY <1>1 DEF Jobs
  <1>4. UNCHANGED librarySide
    BY DEF dumpTo
  <1>5. UploadInv' /\ NewInv' /\ RowsInv'
    <2>1. ASSUME NEW n \in DOMAIN store', n.kind = "db", NEW m \in store'[n].meant \cup store'[n].holds
          PROVE  Known(m)
      BY <1>1, <1>2, <2>1, StoreKnown, JobKnown
    <2>2. \A m \in job'.rows : Known(m)
      BY <1>2, <1>3, JobKnown
    <2> QED
      BY <1>4, <2>1, <2>2, TheParts, QuietLibrary DEF librarySide, atLibrary
  <1>6. StoreInv'
    BY <1>1, TheParts DEF StoreInv
  <1>7. JobShape'
    BY <1>2, <1>3, TheParts, OpsDiffer DEF JobShape
  <1>8. PairInv'
    <2>1. files' = files
      BY <1>4 DEF librarySide, atLibrary
    <2>2. job.op = "all" => Before /\ Before'
      <3>1. job.parts \in {<<>>, <<"db">>, <<"media">>, <<"db", "media">>}
        BY <1>1, JobFields
      <3>2. job.op = "all" => job.parts # <<"db">>
        BY <1>2, TheParts DEF JobShape
      <3>3. Head(<<"media">>) # "db" /\ Head(job.parts) = "db"
        BY <1>2, TheParts DEF JobShape
      <3> QED
        BY <1>2, <1>3, <3>1, <3>2, <3>3 DEF Before
    <2> QED
      BY <1>2, <1>3, <2>1, <2>2, TheParts DEF PairInv, Whole
  <1>9. KeptInv'
    BY <1>2, <1>3, TheParts DEF KeptInv
  <1>10. RestoredIsWhole'
    BY <1>3 DEF RestoredIsWhole
  <1> QED
    BY <1>1, <1>5, <1>6, <1>7, <1>8, <1>9, <1>10 DEF BackupInv, JobInv

LEMMA BackupMediaKeeps ==
    ASSUME BackupInv, backupMediaImpl
    PROVE  BackupInv'
  <1>0. job \in Jobs /\ job.op \in Backing /\ job.parts # <<>> /\ job.step = "begin"
    <2>1. job.step = "begin"
      BY DEF backupMediaImpl
    <2>2. job \in Jobs
      BY <2>1, TheParts, JobOrNone
    <2> QED
      BY <2>1, <2>2, TheParts, JobKinds
  <1>1. Head(job.parts) = "media" /\ NewFile("media", {}) /\ UNCHANGED <<jobs, failures, atLibrary>>
    BY DEF backupMediaImpl
  <1>a. "media" \in Kinds /\ "media" # "db"
    BY DEF Kinds
  <1>3.   /\ BackupTypes' /\ NamesFit'
          /\ job \in Jobs /\ job' \in Jobs /\ job'.op = job.op /\ job'.parts = job.parts
          /\ job'.name \in Names /\ job'.name.kind = "media" /\ job'.name \notin DOMAIN store
          /\ job'.dropped = {} /\ job'.step = "read" /\ job'.rows = job.rows
          /\ job'.left = OnDisk /\ job'.holds = job.holds
          /\ job'.gone = IF job.op = "all" THEN job.gone \cup {m \in {} : ~Whole(m)}
                         ELSE job.gone
          /\ DOMAIN store' = DOMAIN store \cup {job'.name}
          /\ \A n \in DOMAIN store : store'[n] = store[n]
    BY <1>0, <1>1, <1>a, TheParts, NewFileFits
  <1>b. job'.gone = job.gone
    BY <1>3
  <1>4. UploadInv' /\ NewInv' /\ RowsInv'
    <2>1. ASSUME NEW n \in DOMAIN store', n.kind = "db", NEW m \in store'[n].meant \cup store'[n].holds
          PROVE  Known(m)
      BY <1>3, <1>a, <2>1, StoreKnown
    <2>2. \A m \in job'.rows : Known(m)
      BY <1>0, <1>3, JobKnown
    <2> QED
      BY <1>1, <2>1, <2>2, TheParts, QuietLibrary DEF atLibrary
  <1>5. StoreInv'
    BY <1>3, <1>a, TheParts DEF StoreInv
  <1>6. JobShape'
    <2>1. job.parts # <<>> /\ Head(job.parts) = "media"
      BY <1>0, <1>1
    <2>2. job.op = "all" => job.parts # <<"db">>
      BY <1>0, TheParts DEF JobShape
    <2> QED
      BY <1>0, <1>3, <1>a, <2>1, <2>2, OpsDiffer DEF JobShape
  <1>7. PairInv'
    <2>1. files' = files
      BY <1>1 DEF atLibrary
    <2>2. ~ Before'
      <3>1. Head(<<"db", "media">>) = "db"
        OBVIOUS
      <3> QED
        BY <1>1, <1>3, <1>a, <3>1 DEF Before
    <2>3. Before
      BY <1>0 DEF Before
    <2>4. job.rows \subseteq Media
      BY <1>0, JobFields
    <2>5. \A m \in job.rows : Whole(m) => m \in OnDisk
      BY <2>4 DEF Whole, OnDisk
    <2>6. job.op = "all" => \A m \in job.rows : m \in job.gone \/ Whole(m)
      BY <1>0, <2>3, TheParts DEF PairInv
    <2> QED
      BY <1>3, <1>b, <2>1, <2>2, <2>5, <2>6 DEF PairInv, Whole
  <1>8. KeptInv' /\ RestoredIsWhole'
    BY <1>3 DEF KeptInv, RestoredIsWhole
  <1> QED
    BY <1>3, <1>4, <1>5, <1>6, <1>7, <1>8 DEF BackupInv, JobInv

LEMMA ReadFileKeeps ==
    ASSUME BackupInv, NEW m \in Media, ReadFile(m)
    PROVE  BackupInv'
  <1>1.    /\ BackupTypes' /\ NamesFit'
           /\ job \in Jobs /\ job' \in Jobs /\ job'.op = job.op /\ job'.step = job.step
           /\ job'.parts = job.parts /\ job'.name = job.name /\ job'.rows = job.rows
           /\ job'.left = job.left \ {m} /\ job'.gone = job.gone
           /\ job'.holds = IF Whole(m) THEN job.holds \cup {m} ELSE job.holds
           /\ job'.dropped = job.dropped /\ job'.kept = job.kept /\ job'.how = job.how
    BY TheParts, ReadFits
  <1>2. job.step = "read" /\ job.op \in Backing /\ job.step # "idle"
    BY <1>1, TheParts, JobKinds DEF ReadFile
  <1>3. UNCHANGED <<store, librarySide>>
    BY DEF ReadFile
  <1>4. UploadInv' /\ NewInv' /\ RowsInv'
    BY <1>1, <1>2, <1>3, TheParts, StoreKnown, JobKnown, QuietLibrary DEF librarySide, atLibrary
  <1>5. StoreInv' /\ JobShape'
    BY <1>1, <1>3, TheParts DEF StoreInv, JobShape
  <1>6. PairInv'
    <2>1. files' = files
      BY <1>3 DEF librarySide, atLibrary
    <2>2. Before' <=> Before
      BY <1>1 DEF Before
    <2>3. ~ Before
      <3>1. Head(job.parts) = "media"
        BY <1>2, TheParts DEF JobShape
      <3>2. Head(<<"db", "media">>) # "media"
        OBVIOUS
      <3> QED
        BY <1>2, <3>1, <3>2 DEF Before
    <2> SUFFICES ASSUME job.op = "all", NEW x \in job.rows
                 PROVE  x \in job'.gone \/ x \in job'.holds \/ (x \in job'.left /\ Whole(x)')
      BY <1>1, <1>2, <2>2, <2>3 DEF PairInv
    <2>4. x \in job.gone \/ x \in job.holds \/ (x \in job.left /\ Whole(x))
      BY <1>2, <2>3, TheParts DEF PairInv
    <2>5. job.holds \subseteq job'.holds /\ (Whole(m) => m \in job'.holds)
      BY <1>1
    <2> QED
      BY <1>1, <2>1, <2>4, <2>5 DEF Whole
  <1>7. KeptInv'
    BY <1>1, TheParts DEF KeptInv
  <1>8. RestoredIsWhole'
    BY <1>1, <1>2 DEF RestoredIsWhole
  <1> QED
    BY <1>1, <1>4, <1>5, <1>6, <1>7, <1>8 DEF BackupInv, JobInv

---------------------------------------------------------------------------------
(* Retention: the names of one kind are in a strict order, so their places in  *)
(* it are the numbers below their count.                                      *)

LEMMA NamesFinite == IsFiniteSet(Names)
  <1> DEFINE T == Kinds \X ((1 .. MaxSeconds) \X (0 .. MaxJobs))
             f == [n \in Names |-> <<n.kind, <<n.second, n.suffix>>>>]
  <1>1. IsFiniteSet(Kinds)
    <2>1. Kinds = {"db"} \cup {"media"}
      BY DEF Kinds
    <2>2. IsFiniteSet({"db"})
      BY FS_Singleton
    <2> QED
      BY <2>1, <2>2, FS_AddElement
  <1>2. IsFiniteSet(1 .. MaxSeconds) /\ IsFiniteSet(0 .. MaxJobs)
    BY BackupNats, FS_Interval
  <1>3. IsFiniteSet(T)
    <2>1. IsFiniteSet((1 .. MaxSeconds) \X (0 .. MaxJobs))
      BY <1>2, FS_Product
    <2> QED
      BY <1>1, <2>1, FS_Product
  <1>4. f \in [Names -> T]
    BY DEF Names
  <1>5. ASSUME NEW a \in Names, NEW b \in Names, f[a] = f[b]
        PROVE  a = b
    <2>1. a.kind = b.kind /\ a.second = b.second /\ a.suffix = b.suffix
      BY <1>5
    <2> QED
      BY <2>1 DEF Names
  <1>6. f \in Injection(Names, T)
    BY <1>4, <1>5 DEF Injection, IsInjective
  <1> HIDE DEF f, T
  <1> QED
    BY <1>3, <1>6, FS_Injection

PlaceOf(S, n) == Cardinality({k \in S : SortsBefore(k, n)})

LEMMA BeforeOrder ==
    /\ \A a \in Names : ~ SortsBefore(a, a)
    /\ \A a, b, c \in Names : SortsBefore(a, b) /\ SortsBefore(b, c) => SortsBefore(a, c)
    /\ \A a, b \in Names : a.kind = b.kind => a = b \/ SortsBefore(a, b) \/ SortsBefore(b, a)
    /\ \A a, b \in Names : SortsBefore(a, b) => a.second <= b.second
  <1>1. \A a \in Names : a.second \in Nat /\ a.suffix \in Nat
    BY BackupNats DEF Names
  <1>2. \A a, b \in Names : a.kind = b.kind /\ a.second = b.second /\ a.suffix = b.suffix => a = b
    BY DEF Names
  <1> QED
    BY <1>1, <1>2 DEF SortsBefore

LEMMA PlaceGrows ==
    ASSUME NEW S \in SUBSET Names, NEW a \in S, NEW b \in S, SortsBefore(a, b)
    PROVE  PlaceOf(S, a) < PlaceOf(S, b)
  <1> DEFINE A == {k \in S : SortsBefore(k, a)}
             B == {k \in S : SortsBefore(k, b)}
  <1>1. IsFiniteSet(B)
    BY NamesFinite, FS_Subset
  <1>2. A \in SUBSET B /\ a \in B /\ a \notin A
    BY BeforeOrder
  <1>3. Cardinality(A) <= Cardinality(B) /\ (Cardinality(B) = Cardinality(A) => B = A)
    BY <1>1, <1>2, FS_Subset
  <1>4. Cardinality(A) \in Nat /\ Cardinality(B) \in Nat
    BY <1>1, <1>2, FS_Subset, FS_CardinalityType
  <1> QED
    BY <1>2, <1>3, <1>4 DEF PlaceOf

LEMMA PlaceRange ==
    ASSUME NEW S \in SUBSET Names, NEW a \in S
    PROVE  PlaceOf(S, a) \in 0 .. Cardinality(S) - 1 /\ Cardinality(S) \in Nat
  <1> DEFINE A == {k \in S : SortsBefore(k, a)}
  <1>1. IsFiniteSet(S)
    BY NamesFinite, FS_Subset
  <1>2. A \in SUBSET S /\ a \notin A
    BY BeforeOrder
  <1>3. IsFiniteSet(A) /\ Cardinality(A) <= Cardinality(S) /\ (Cardinality(S) = Cardinality(A) => S = A)
    BY <1>1, <1>2, FS_Subset
  <1>4. Cardinality(A) \in Nat /\ Cardinality(S) \in Nat
    BY <1>1, <1>3, FS_CardinalityType
  <1> QED
    BY <1>2, <1>3, <1>4 DEF PlaceOf

LEMMA PlacesDiffer ==
    ASSUME NEW S \in SUBSET Names, NEW kind, \A n \in S : n.kind = kind,
           NEW a \in S, NEW b \in S, PlaceOf(S, a) = PlaceOf(S, b)
    PROVE  a = b
  <1>1. PlaceOf(S, a) \in Nat /\ PlaceOf(S, b) \in Nat
    BY PlaceRange
  <1>2. ~ SortsBefore(a, b) /\ ~ SortsBefore(b, a)
    BY <1>1, PlaceGrows
  <1> QED
    BY <1>2, BeforeOrder

(* Every place is taken.                                                     *)
LEMMA PlaceTaken ==
    ASSUME NEW S \in SUBSET Names, NEW kind, \A n \in S : n.kind = kind,
           NEW i \in 0 .. Cardinality(S) - 1
    PROVE  \E a \in S : PlaceOf(S, a) = i
  <1> DEFINE f == [a \in S |-> PlaceOf(S, a)]
             c == Cardinality(S)
  <1>1. IsFiniteSet(S)
    BY NamesFinite, FS_Subset
  <1>2. c \in Nat
    BY <1>1, FS_CardinalityType
  <1>3. IsFiniteSet(0 .. c - 1) /\ Cardinality(0 .. c - 1) = c
    BY <1>2, FS_Interval
  <1>4. f \in [S -> 0 .. c - 1]
    BY PlaceRange
  <1>5. \A a, b \in S : f[a] = f[b] => a = b
    BY PlacesDiffer
  <1>6. f \in Injection(S, 0 .. c - 1)
    BY <1>4, <1>5 DEF Injection, IsInjective
  <1> HIDE DEF f, c
  <1>7. f \in Surjection(S, 0 .. c - 1)
    BY <1>1, <1>3, <1>6, FS_Injection DEF c
  <1>8. PICK a \in S : f[a] = i
    BY <1>7 DEF Surjection, c
  <1> QED
    BY <1>8 DEF f

(* Retention keeps the last names, as many as configured.                    *)
LEMMA RetentionKeeps ==
    ASSUME BackupTypes, NEW kind, Surplus(kind) # {}
    PROVE  /\ Cardinality(OfKind(kind) \ Surplus(kind)) = MaxBackups
           /\ \A d \in Surplus(kind), k \in OfKind(kind) \ Surplus(kind) : d.second <= k.second
  <1>a. PICK S \in SUBSET Names : S = OfKind(kind)
    BY TypesAre DEF OfKind
  <1>b. \A n \in S : n.kind = kind
    BY <1>a DEF OfKind
  <1>1. IsFiniteSet(S)
    BY NamesFinite, FS_Subset
  <1>2. PICK c \in Nat : c = Cardinality(S)
    BY <1>1, FS_CardinalityType
  <1>3. MaxBackups \in Nat
    BY BackupNats
  <1>4. Surplus(kind) = {n \in S : PlaceOf(S, n) < c - MaxBackups}
    BY <1>a, <1>2 DEF Surplus, PlaceOf
  <1> DEFINE K == {n \in S : ~ PlaceOf(S, n) < c - MaxBackups}
             I == (c - MaxBackups) .. (c - 1)
             f == [a \in K |-> PlaceOf(S, a)]
  <1>5. OfKind(kind) \ Surplus(kind) = K
    BY <1>a, <1>4
  <1>6. c - MaxBackups > 0
    <2>1. PICK d \in S : PlaceOf(S, d) < c - MaxBackups
      BY <1>4
    <2>2. PlaceOf(S, d) \in Nat
      BY <1>2, PlaceRange
    <2> QED
      BY <1>3, <2>1, <2>2
  <1>7. f \in [K -> I]
    <2>1. ASSUME NEW a \in K
          PROVE  PlaceOf(S, a) \in I
      <3>1. PlaceOf(S, a) \in 0 .. c - 1
        BY <1>2, PlaceRange
      <3> QED
        BY <1>3, <3>1
    <2> QED
      BY <2>1
  <1>8. \A a, b \in K : f[a] = f[b] => a = b
    BY <1>b, PlacesDiffer
  <1>9. \A i \in I : \E a \in K : f[a] = i
    <2>1. ASSUME NEW i \in I
          PROVE  \E a \in K : f[a] = i
      <3>1. i \in 0 .. c - 1 /\ ~ i < c - MaxBackups
        BY <1>3, <1>6
      <3>2. PICK a \in S : PlaceOf(S, a) = i
        BY <1>b, <1>2, <3>1, PlaceTaken
      <3> QED
        BY <3>1, <3>2
    <2> QED
      BY <2>1
  <1>10. f \in Injection(K, I) /\ f \in Surjection(K, I)
    BY <1>7, <1>8, <1>9 DEF Injection, IsInjective, Surjection
  <1>11. IsFiniteSet(I) /\ Cardinality(I) = MaxBackups
    BY <1>3, <1>6, FS_Interval
  <1>12. \A d \in Surplus(kind), k \in K : d.second <= k.second
    <2>1. ASSUME NEW d \in S, NEW k \in S, PlaceOf(S, d) < c - MaxBackups,
                 ~ PlaceOf(S, k) < c - MaxBackups
          PROVE  d.second <= k.second
      <3>1. PlaceOf(S, d) \in Nat /\ PlaceOf(S, k) \in Nat
        BY <1>2, PlaceRange
      <3>2. ~ SortsBefore(k, d) /\ d # k
        BY <1>3, <2>1, <3>1, PlaceGrows
      <3> QED
        BY <1>b, <3>2, BeforeOrder
    <2> QED
      BY <1>4, <2>1
  <1> HIDE DEF f, I, K
  <1>13. Cardinality(K) = MaxBackups
    BY <1>10, <1>11, FS_Injection
  <1> QED
    BY <1>5, <1>12, <1>13

LEMMA ArchiveKeeps ==
    ASSUME BackupInv, tarGz
    PROVE  BackupInv'
  <1>1.    /\ BackupTypes' /\ NamesFit'
           /\ job \in Jobs /\ job' \in Jobs /\ job' = [job EXCEPT !.step = "retain"]
           /\ DOMAIN store' = DOMAIN store
           /\ \A n \in DOMAIN store : store'[n] = store[n] \/ n = job.name
    BY TheParts, ArchiveFits
  <1>2. /\ job.step = "read" /\ job.left = {} /\ job.op \in Backing /\ job.parts # <<>>
        /\ job.step # "idle" /\ UNCHANGED librarySide
    BY <1>1, TheParts, JobKinds DEF tarGz
  <1>3. /\ job'.op = job.op /\ job'.parts = job.parts /\ job'.step = "retain"
        /\ job'.name = job.name /\ job'.rows = job.rows /\ job'.gone = job.gone
        /\ job'.left = job.left /\ job'.holds = job.holds
        /\ job'.dropped = job.dropped /\ job'.kept = job.kept
    BY <1>1 DEF Jobs
  <1>4. Head(job.parts) = "media" /\ job.name.kind = "media"
    BY <1>2, TheParts DEF JobShape
  <1>5. \A n \in DOMAIN store : n.kind = "db" => store'[n] = store[n]
    BY <1>1, <1>4
  <1>6. UploadInv' /\ NewInv' /\ RowsInv'
    <2>1. ASSUME NEW n \in DOMAIN store', n.kind = "db", NEW m \in store'[n].meant \cup store'[n].holds
          PROVE  Known(m)
      BY <1>1, <1>5, <2>1, StoreKnown
    <2>2. \A m \in job'.rows : Known(m)
      BY <1>2, <1>3, JobKnown
    <2> QED
      BY <1>2, <2>1, <2>2, TheParts, QuietLibrary DEF librarySide, atLibrary
  <1>7. StoreInv'
    BY <1>1, <1>5, TheParts DEF StoreInv
  <1>8. JobShape'
    BY <1>2, <1>3, TheParts, OpsDiffer DEF JobShape
  <1>9. PairInv'
    <2>1. ~ Before /\ ~ Before'
      <3>1. Head(<<"db", "media">>) # "media"
        OBVIOUS
      <3> QED
        BY <1>2, <1>3, <1>4, <3>1 DEF Before
    <2> QED
      BY <1>2, <1>3, <2>1, TheParts DEF PairInv
  <1>10. KeptInv'
    BY <1>2, <1>3, TheParts DEF KeptInv
  <1>11. RestoredIsWhole'
    BY <1>3 DEF RestoredIsWhole
  <1> QED
    BY <1>1, <1>6, <1>7, <1>8, <1>9, <1>10, <1>11 DEF BackupInv, JobInv

(* What a writing that stopped leaves says no more than the job knew.         *)
LEMMA CutShortKnows ==
    ASSUME BackupInv, CutShort
    PROVE  /\ StoreInv'
           /\ \A n \in DOMAIN store' : n.kind = "db" =>
                \A m \in store'[n].meant \cup store'[n].holds : Known(m)
           /\ StoreStays /\ DOMAIN store' = DOMAIN store
  <1>1.    /\ StoreStays /\ DOMAIN store' = DOMAIN store
           /\ \A k \in DOMAIN store :
                 \/ store'[k] = store[k]
                 \/ /\ k = job.name /\ store'[k].state \in {"head", "data"}
                    /\ job.step = "dump" => /\ store'[k].meant = job.rows
                                            /\ store'[k].holds \subseteq job.rows
    BY TheParts, CutShortTypes
  <1>2. StoreInv'
    BY <1>1, TheParts DEF StoreInv
  <1>3. job.step \in {"dump", "read"} /\ job.step # "idle" /\ job \in Jobs
    <2>1. job.step \in {"dump", "read"}
      BY DEF CutShort
    <2> QED
      BY <2>1, TheParts, JobOrNone
  <1>4. ASSUME NEW n \in DOMAIN store, n.kind = "db", NEW m \in store'[n].meant \cup store'[n].holds
        PROVE  Known(m)
    <2>1. CASE store'[n] = store[n]
      BY <1>4, <2>1, StoreKnown
    <2>2. CASE store'[n] # store[n]
      <3>1. n = job.name
        BY <1>1, <2>2
      <3>2. job.step = "dump"
        <4>1. job.op \in Backing
          BY <1>3, TheParts, JobKinds
        <4> QED
          BY <1>3, <1>4, <3>1, <4>1, TheParts DEF JobShape
      <3>3. m \in job.rows
        BY <1>1, <1>4, <2>2, <3>2
      <3> QED
        BY <1>3, <3>3, JobKnown
    <2> QED
      BY <2>1, <2>2
  <1> QED
    BY <1>1, <1>2, <1>4

LEMMA BackupFailsKeeps ==
    ASSUME BackupInv, BackupFails
    PROVE  BackupInv'
  <1>1. /\ CutShort /\ job' = NoCall /\ UNCHANGED <<jobs, librarySide>>
        /\ MayFail \/ UNCHANGED failures
    BY DEF BackupFails
  <1>2. /\ StoreInv' /\ StoreStays /\ DOMAIN store' = DOMAIN store
        /\ \A n \in DOMAIN store' : n.kind = "db" =>
                \A m \in store'[n].meant \cup store'[n].holds : Known(m)
    BY <1>1, CutShortKnows
  <1>3. BackupTypes' /\ NamesFit' /\ job'.step = "idle"
    BY <1>1, <1>2, TheParts, EndsFit
  <1>4. UploadInv' /\ NewInv' /\ RowsInv'
    BY <1>1, <1>2, <1>3, TheParts, QuietLibrary DEF librarySide, atLibrary
  <1> QED
    BY <1>2, <1>3, <1>4, NoJob DEF BackupInv

LEMMA RestartKeeps ==
    ASSUME BackupInv, Restart
    PROVE  BackupInv'
  <1>1. /\ library' = [u \in Users |-> NoCall]
        /\ bare' = bare \cup (mediaRows \cap UNION {library[u].ids : u \in Deleting})
        /\ UNCHANGED <<driver, mediaRows, files, second, jobs, clipped>>
        /\ CutShort \/ UNCHANGED store
    BY DEF Restart
  <1>2. BackupTypes' /\ NamesFit' /\ job'.step = "idle"
    BY TheParts, RestartFits
  <1>3. /\ StoreInv'
        /\ \A n \in DOMAIN store' : n.kind = "db" =>
                \A m \in store'[n].meant \cup store'[n].holds : Known(m)
    <2>1. CASE CutShort
      BY <2>1, CutShortKnows
    <2>2. CASE UNCHANGED store
      BY <2>2, TheParts, StoreKnown DEF StoreInv
    <2> QED
      BY <1>1, <2>1, <2>2
  <1>4. \A u \in Users : ~ AtCall(u)'
    BY <1>1 DEF AtCall
  <1>5. \A u \in Users, x \in Media : ~ Uploading(u, x)' /\ ~ Deletes(u)'
    BY <1>4 DEF Uploading, Uploads, Deletes
  <1>6. UploadInv'
    BY <1>5 DEF UploadInv
  <1>7. NewInv'
    <2>1. ASSUME NEW x \in Media, New(x)', Known(x)'
          PROVE  FALSE
      <3>1. New(x)
        BY <1>1, <1>5, <2>1 DEF New
      <3>2. \/ x \in mediaRows
            \/ \E n \in DOMAIN store' : n.kind = "db" /\ x \in store'[n].meant \cup store'[n].holds
        BY <1>1, <1>2, <1>5, <2>1 DEF Known
      <3>3. Known(x)
        BY <1>3, <3>2 DEF Known
      <3> QED
        BY <3>1, <3>3, TheParts DEF NewInv
    <2> QED
      BY <2>1 DEF NewInv
  <1>8. RowsInv'
    <2> SUFFICES ASSUME NEW x \in mediaRows
                 PROVE  Whole(x)' \/ x \in bare' \cup clipped'
      BY <1>1 DEF RowsInv
    <2>1. \/ Whole(x) \/ x \in bare \cup clipped
          \/ \E u \in Users : Deletes(u) /\ x \in library[u].ids
      BY TheParts DEF RowsInv
    <2>2. \A u \in Users : Deletes(u) => u \in Deleting
      BY DEF Deletes, AtCall, Deleting
    <2> QED
      BY <1>1, <2>1, <2>2 DEF Whole
  <1> QED
    BY <1>2, <1>3, <1>6, <1>7, <1>8, NoJob DEF BackupInv

LEMMA RetainKeeps ==
    ASSUME BackupInv, cleanup
    PROVE  BackupInv'
  <1>1. job.step = "retain" /\ job \in Jobs
    BY TheParts, JobOrNone DEF cleanup, NoCall
  <1>2. job.op \in Backing /\ job.parts # <<>> /\ job.step # "idle"
    BY <1>1, TheParts, JobKinds
  <1>3.    /\ BackupTypes' /\ NamesFit'
           /\ job \in Jobs /\ job' \in Jobs /\ job'.op = job.op /\ job'.parts = Tail(job.parts)
           /\ job'.step = IF Tail(job.parts) = <<>> THEN "answer" ELSE "begin"
           /\ job'.name = job.name /\ job'.rows = job.rows /\ job'.holds = job.holds
           /\ job'.gone = job.gone /\ job'.how = job.how
           /\ job'.dropped = Surplus(job.name.kind)
           /\ job'.kept = OfKind(job.name.kind) \ Surplus(job.name.kind)
           /\ DOMAIN store' \subseteq DOMAIN store
           /\ \A n \in DOMAIN store' : store'[n] = store[n]
    BY <1>2, TheParts, RetainFits
  <1>4. UNCHANGED librarySide
    BY DEF cleanup
  <1>5. UploadInv' /\ NewInv' /\ RowsInv'
    <2>1. ASSUME NEW n \in DOMAIN store', n.kind = "db", NEW m \in store'[n].meant \cup store'[n].holds
          PROVE  Known(m)
      BY <1>3, <2>1, StoreKnown
    <2>2. \A m \in job'.rows : Known(m)
      BY <1>2, <1>3, JobKnown
    <2> QED
      BY <1>4, <2>1, <2>2, TheParts, QuietLibrary DEF librarySide, atLibrary
  <1>6. StoreInv'
    BY <1>3, TheParts DEF StoreInv
  <1>7. Tail(job.parts) \in {<<>>, <<"media">>} /\ <<"media">> # <<"db">> /\ <<>> # <<"db">>
    <2>1. job.parts \in {<<>>, <<"db">>, <<"media">>, <<"db", "media">>}
      BY <1>1, JobFields
    <2>2. Head(<<"media">>) = "media" /\ Head(<<"db">>) = "db"
      OBVIOUS
    <2> QED
      BY <1>2, <2>1, <2>2, PartsHeads
  <1>8. JobShape'
    BY <1>2, <1>3, <1>7, OpsDiffer DEF JobShape
  <1>9. PairInv'
    <2> SUFFICES ASSUME job.op = "all", NEW m \in job.rows
                 PROVE  m \in job.gone \/ (~ Before' /\ m \in job.holds) \/ (Before' /\ Whole(m)')
      BY <1>3 DEF PairInv
    <2>1. files' = files
      BY <1>4 DEF librarySide, atLibrary
    <2>2. m \in job.gone \/ (~ Before /\ m \in job.holds) \/ (Before /\ Whole(m))
      BY <1>1, <1>2, TheParts DEF PairInv
    <2>3. Before' <=> Before
      <3>1. job.parts = <<"media">> \/ job.parts = <<"db", "media">>
        <4>1. job.parts \in {<<>>, <<"db">>, <<"media">>, <<"db", "media">>}
          BY <1>1, JobFields
        <4> QED
          BY <1>2, <4>1, TheParts DEF JobShape
      <3>2. CASE job.parts = <<"media">>
        BY <1>1, <1>3, <3>2, PartsHeads DEF Before
      <3>3. CASE job.parts = <<"db", "media">>
        BY <1>1, <1>3, <3>3, PartsHeads DEF Before
      <3> QED
        BY <3>1, <3>2, <3>3
    <2> QED
      BY <2>1, <2>2, <2>3 DEF Whole
  <1>10. KeptInv'
    <2>1. PICK kind : kind = job.name.kind
      OBVIOUS
    <2>2. PICK D : D = Surplus(kind)
      OBVIOUS
    <2>3. PICK K : K = OfKind(kind) \ D
      OBVIOUS
    <2>4. D # {} => Cardinality(K) = MaxBackups /\ \A d \in D, k \in K : d.second <= k.second
      BY <2>2, <2>3, TheParts, RetentionKeeps
    <2>5. job'.dropped = D /\ job'.kept = K
      BY <1>3, <2>1, <2>2, <2>3
    <2> QED
      BY <2>4, <2>5 DEF KeptInv
  <1>11. RestoredIsWhole'
    BY <1>3 DEF RestoredIsWhole
  <1> QED
    BY <1>3, <1>5, <1>6, <1>8, <1>9, <1>10, <1>11 DEF BackupInv, JobInv

LEMMA DeleteBackupKeeps ==
    ASSUME BackupInv, NEW n, DeleteBackup(n)
    PROVE  BackupInv'
  <1>1. /\ BackupTypes' /\ NamesFit'
        /\ DOMAIN store' \subseteq DOMAIN store
        /\ \A k \in DOMAIN store' : store'[k] = store[k]
    BY TheParts, DeleteBackupFits
  <1>2. UNCHANGED <<driver, mediaRows, files, library, job, open, second, failures, bare, clipped>>
    BY DEF DeleteBackup
  <1>3. UploadInv' /\ NewInv' /\ RowsInv'
    <2>1. ASSUME NEW k \in DOMAIN store', k.kind = "db", NEW m \in store'[k].meant \cup store'[k].holds
          PROVE  Known(m)
      BY <1>1, <2>1, StoreKnown
    <2>2. job'.step # "idle" => \A m \in job'.rows : Known(m)
      BY <1>2, JobKnown
    <2> QED
      BY <1>2, <2>1, <2>2, TheParts, QuietLibrary
  <1>4. StoreInv'
    BY <1>1, TheParts DEF StoreInv
  <1>5. JobShape'
    BY <1>1, <1>2, TheParts DEF JobShape
  <1>6. PairInv'
    BY <1>2, TheParts DEF PairInv, Before, Whole
  <1>7. KeptInv' /\ RestoredIsWhole'
    BY <1>2, TheParts DEF KeptInv, RestoredIsWhole
  <1> QED
    BY <1>1, <1>3, <1>4, <1>5, <1>6, <1>7 DEF BackupInv, JobInv

(* A restore begins with the file it was asked for.                          *)
LEMMA RestoreKeeps ==
    ASSUME BackupInv, NEW n \in DOMAIN store, restoreDB(n) \/ restoreMediaImpl(n)
    PROVE  BackupInv'
  <1> DEFINE step == IF n.kind = "db" THEN "apply" ELSE "extract"
             lefts == IF n.kind = "db" THEN {} ELSE store[n].holds \cup store[n].clips
  <1>1. /\ job = NoCall /\ jobs < MaxJobs /\ jobs' = jobs + 1 /\ job' = RestoreJob(n, step, lefts)
        /\ UNCHANGED <<driver, mediaRows, files, library, store, second, failures, bare, clipped>>
        /\ open' = open \/ open' = (driver # "sqlite")
        /\ n.kind = "db" => store[n].state \in {"data", "whole"}
    <2>1. CASE restoreDB(n)
      BY <2>1 DEF restoreDB, OfKind, Verified
    <2>2. CASE restoreMediaImpl(n)
      BY <2>2 DEF restoreMediaImpl, OfKind, librarySide, atLibrary
    <2> QED
      BY <2>1, <2>2
  <1>2. lefts \in SUBSET Media /\ step \in {"apply", "extract"} /\ open' \in BOOLEAN
    <2>1. store[n] \in Content /\ open \in BOOLEAN
      BY TheParts, TypesAre
    <2> QED
      BY <1>1, <2>1 DEF Content
  <1>3. step = "apply" => n.kind = "db"
    OBVIOUS
  <1> HIDE DEF step, lefts
  <1>4. /\ BackupTypes' /\ NamesFit'
        /\ job' \in Jobs /\ job'.op = "restore" /\ job'.step = step /\ job'.name = n
        /\ job'.parts = <<>> /\ job'.rows = {} /\ job'.dropped = {}
    BY <1>1, <1>2, TheParts, RestoreStarts
  <1>5. UploadInv' /\ NewInv' /\ RowsInv'
    <2>1. ASSUME NEW k \in DOMAIN store', k.kind = "db", NEW m \in store'[k].meant \cup store'[k].holds
          PROVE  Known(m)
      BY <1>1, <2>1, StoreKnown
    <2>2. \A m \in job'.rows : Known(m)
      BY <1>4
    <2> QED
      BY <1>1, <2>1, <2>2, TheParts, QuietLibrary
  <1>6. StoreInv'
    BY <1>1, TheParts DEF StoreInv
  <1>7. JobShape'
    <2>1. n \in Names
      BY TheParts, TypesAre
    <2> QED
      BY <1>1, <1>2, <1>3, <1>4, <2>1, OpsDiffer DEF JobShape
  <1>8. PairInv' /\ KeptInv' /\ RestoredIsWhole'
    BY <1>2, <1>4, OpsDiffer DEF PairInv, KeptInv, RestoredIsWhole
  <1> QED
    BY <1>4, <1>5, <1>6, <1>7, <1>8 DEF BackupInv, JobInv

(* The rows of a dump, or some of them, return.                              *)
LEMMA ReturnKeeps ==
    ASSUME BackupInv, job.step = "apply", job.name \in DOMAIN store,
           NEW rows \in SUBSET store[job.name].holds, NEW how \in {"data", "whole", "failed"},
           how = "failed" => driver # "postgres",
           how = "whole" => rows = store[job.name].holds /\ store[job.name].state = "whole",
           BecomeRows(rows, how), MayFail \/ UNCHANGED failures,
           UNCHANGED <<driver, files, library, store, open, second, jobs, clipped>>
    PROVE  BackupInv'
  <1>1. store[job.name] \in Content
    BY TheParts, TypesAre
  <1>2. rows \in SUBSET Media
    BY <1>1 DEF Content
  <1>3.    /\ BackupTypes' /\ NamesFit'
           /\ job \in Jobs /\ job' \in Jobs /\ job'.op = job.op /\ job'.step = "restored"
           /\ job'.parts = job.parts /\ job'.name = job.name
           /\ job'.rows = store[job.name].meant /\ job'.holds = rows /\ job'.how = how
           /\ job'.dropped = job.dropped /\ job'.kept = job.kept
    BY <1>2, TheParts, RowsReturn
  <1>4. mediaRows' = rows /\ bare' = {m \in rows : ~Whole(m)}
    BY DEF BecomeRows
  <1>5. job.name \in Names /\ job.name.kind = "db" /\ job.op = "restore" /\ job.step # "idle"
    BY <1>3, TheParts, JobKinds DEF JobShape
  <1>6. \A v \in Users, x \in Media : Uploading(v, x)' <=> Uploading(v, x)
    BY DEF Uploading, Uploads, AtCall
  <1>7. \A v \in Users : Deletes(v)' <=> Deletes(v)
    BY DEF Deletes, AtCall
  <1>8. \A x \in Media : Known(x)' => Known(x)
    <2>1. ASSUME NEW x \in Media, Known(x)'
          PROVE  Known(x)
      <3>1. \/ x \in rows
            \/ \E u \in Users : Deletes(u) /\ x \in library[u].left
            \/ \E n \in DOMAIN store : n.kind = "db" /\ x \in store[n].meant \cup store[n].holds
            \/ x \in store[job.name].meant
        BY <1>3, <1>4, <1>7, <2>1 DEF Known
      <3>2. x \in rows => x \in store[job.name].holds
        OBVIOUS
      <3> QED
        BY <1>5, <3>1, <3>2 DEF Known
    <2> QED
      BY <2>1
  <1>9. UploadInv' /\ NewInv'
    BY <1>6, <1>8, TheParts, UploadsStay
  <1>10. RowsInv'
    BY <1>4 DEF RowsInv, Whole
  <1>11. StoreInv'
    BY TheParts DEF StoreInv
  <1>12. JobShape'
    BY <1>3, <1>5, OpsDiffer DEF JobShape
  <1>13. PairInv'
    BY <1>3, <1>5 DEF PairInv
  <1>14. KeptInv'
    BY <1>3, <1>5, TheParts DEF KeptInv
  <1>15. RestoredIsWhole'
    <2>1. how = "whole" => rows = store[job.name].meant
      BY <1>5, TheParts DEF StoreInv
    <2> QED
      BY <1>3, <2>1 DEF RestoredIsWhole
  <1> QED
    BY <1>3, <1>9, <1>10, <1>11, <1>12, <1>13, <1>14, <1>15 DEF BackupInv, JobInv

LEMMA ApplyDumpKeeps ==
    ASSUME BackupInv, ApplyDump
    PROVE  BackupInv'
  <1>1. job.step = "apply" /\ job.name \in DOMAIN store /\ job.step # "idle"
    BY DEF ApplyDump
  <1>2. store[job.name].state \in {"data", "whole"}
    BY <1>1, TheParts DEF JobShape
  <1>3. PICK rows, how : rows = store[job.name].holds /\ how = store[job.name].state
    OBVIOUS
  <1>4. BecomeRows(rows, how)
    BY <1>3 DEF ApplyDump
  <1> QED
    BY <1>1, <1>2, <1>3, <1>4, ReturnKeeps DEF ApplyDump

LEMMA ApplyFailsKeeps ==
    ASSUME BackupInv, ApplyFails
    PROVE  BackupInv'
  <1>1. job.step = "apply" /\ (MayFail \/ UNCHANGED failures)
        /\ UNCHANGED <<driver, files, library, store, open, second, jobs, clipped>>
    BY DEF ApplyFails
  <1>2. CASE driver = "postgres" \/ job.name \notin DOMAIN store
    <2>1. job' = NoCall /\ UNCHANGED <<mediaRows, bare>>
      BY <1>2 DEF ApplyFails
    <2> QED
      BY <1>1, <2>1, JobEnds DEF librarySide, atLibrary
  <1>3. CASE ~ (driver = "postgres" \/ job.name \notin DOMAIN store)
    <2>1. PICK rows \in SUBSET store[job.name].holds : BecomeRows(rows, "failed")
      BY <1>3 DEF ApplyFails
    <2> QED
      BY <1>1, <1>3, <2>1, ReturnKeeps
  <1> QED
    BY <1>2, <1>3

LEMMA ExtractKeeps ==
    ASSUME BackupInv, NEW m \in Media, untarGz(m)
    PROVE  BackupInv'
  <1>1.    /\ BackupTypes' /\ NamesFit'
           /\ job \in Jobs /\ job' \in Jobs /\ job'.op = job.op /\ job'.step = job.step
           /\ job'.parts = job.parts /\ job'.name = job.name /\ job'.rows = job.rows
           /\ job'.dropped = job.dropped /\ job'.kept = job.kept /\ job'.how = job.how
    BY TheParts, ExtractFits
  <1>2. job.step = "extract" /\ job.op = "restore" /\ job.step # "idle"
    BY <1>1, TheParts, JobKinds DEF untarGz
  <1>3. /\ files' = [files EXCEPT ![m] = IF m \in job.clips THEN "part" ELSE "whole"]
        /\ clipped' = IF m \in job.clips THEN clipped \cup {m} ELSE clipped \ {m}
        /\ UNCHANGED <<driver, mediaRows, library, store, open, second, jobs, failures, bare>>
    BY DEF untarGz
  <1>4. /\ files'[m] \in {"part", "whole"}
        /\ files'[m] = "whole" \/ m \in clipped'
        /\ \A x \in Media : x # m => files'[x] = files[x] /\ (x \in clipped => x \in clipped')
    <2>1. files \in [Media -> {"never", "none", "part", "whole"}]
      BY TheParts, TypesAre
    <2> QED
      BY <1>3, <2>1
  <1>5. \A v \in Users, x \in Media : Uploading(v, x)' <=> Uploading(v, x)
    BY <1>3 DEF Uploading, Uploads, AtCall
  <1>6. \A v \in Users : Deletes(v)' <=> Deletes(v)
    BY <1>3 DEF Deletes, AtCall
  <1>7. \A x \in Media : Known(x)' => Known(x)
    BY <1>1, <1>3, <1>6 DEF Known
  <1>8. UploadInv'
    <2>1. \A u, v \in Users, x \in Media : Uploading(u, x)' /\ Uploading(v, x)' => u = v
      BY <1>5, TheParts DEF UploadInv
    <2>2. ASSUME NEW u \in Users, NEW x \in Media, Uploading(u, x)'
          PROVE  files'[x] # "never" /\ (library'[u].step = "row" => Whole(x)' \/ x \in clipped')
      <3>1. CASE x = m
        BY <1>4, <3>1 DEF Whole
      <3>2. CASE x # m
        BY <1>3, <1>4, <1>5, <2>2, <3>2, TheParts DEF UploadInv, Whole
      <3> QED
        BY <3>1, <3>2
    <2> QED
      BY <2>1, <2>2 DEF UploadInv
  <1>9. NewInv'
    <2>1. \A x \in Media : New(x)' => New(x)
      BY <1>4, <1>5 DEF New
    <2> QED
      BY <1>7, <2>1, TheParts, NewKept
  <1>10. RowsInv'
    <2> SUFFICES ASSUME NEW x \in mediaRows
                 PROVE  \/ Whole(x)' \/ x \in bare \cup clipped'
                        \/ \E u \in Users : Deletes(u) /\ x \in library[u].ids
      BY <1>3, <1>6 DEF RowsInv
    <2>1. x \in Media
      BY TheParts, TypesAre
    <2>2. \/ Whole(x) \/ x \in bare \cup clipped
          \/ \E u \in Users : Deletes(u) /\ x \in library[u].ids
      BY TheParts DEF RowsInv
    <2> QED
      BY <1>4, <2>1, <2>2 DEF Whole
  <1>11. StoreInv' /\ JobShape'
    BY <1>1, <1>3, TheParts DEF StoreInv, JobShape
  <1>12. PairInv' /\ RestoredIsWhole'
    BY <1>1, <1>2 DEF PairInv, RestoredIsWhole
  <1>13. KeptInv'
    BY <1>1, TheParts DEF KeptInv
  <1> QED
    BY <1>1, <1>8, <1>9, <1>10, <1>11, <1>12, <1>13 DEF BackupInv, JobInv

LEMMA LibraryKeeps ==
    ASSUME BackupInv, NEW u \in Users,
           \/ \E m \in Media : \/ StartUpload(u, m) \/ WriteFile(u, m) \/ InsertRow(u, m)
                               \/ UploadFails(u, m) \/ removeStoredFile(u, m)
           \/ \E ids \in SUBSET Media : StartDelete(u, ids)
           \/ DeleteByIDs(u) \/ DeleteFails(u)
    PROVE  BackupInv'
  <1>1. CASE \E m \in Media : StartUpload(u, m)
    BY <1>1, TheParts, StartUploadTypes, StartUploadKeeps, LibraryStep
  <1>2. CASE \E m \in Media : WriteFile(u, m)
    BY <1>2, TheParts, WriteFileTypes, WriteFileKeeps, LibraryStep
  <1>3. CASE \E m \in Media : InsertRow(u, m)
    BY <1>3, TheParts, InsertRowTypes, InsertRowKeeps, LibraryStep
  <1>4. CASE \E m \in Media : UploadFails(u, m)
    BY <1>4, TheParts, UploadFailsTypes, UploadFailsKeeps, LibraryStep
  <1>5. CASE \E m \in Media : removeStoredFile(u, m)
    BY <1>5, TheParts, RemoveFileTypes, RemoveFileKeeps, LibraryStep
  <1>6. CASE \E ids \in SUBSET Media : StartDelete(u, ids)
    BY <1>6, TheParts, StartDeleteTypes, StartDeleteKeeps, LibraryStep
  <1>7. CASE DeleteByIDs(u)
    BY <1>7, TheParts, DeleteRowsTypes, DeleteRowsKeeps, LibraryStep
  <1>8. CASE DeleteFails(u)
    BY <1>8, TheParts, DeleteFailsTypes, DeleteFailsKeeps, LibraryStep
  <1> QED
    BY <1>1, <1>2, <1>3, <1>4, <1>5, <1>6, <1>7, <1>8

LEMMA BackupStep ==
    ASSUME BackupInv, BackupsNext
    PROVE  BackupInv'
  <1>1. CASE \E u \in Users, m \in Media :
               \/ StartUpload(u, m) \/ WriteFile(u, m) \/ InsertRow(u, m) \/ UploadFails(u, m)
               \/ removeStoredFile(u, m)
    BY <1>1, LibraryKeeps
  <1>2. CASE \E u \in Users, ids \in SUBSET Media : StartDelete(u, ids)
    BY <1>2, LibraryKeeps
  <1>3. CASE \E u \in Users : DeleteByIDs(u) \/ DeleteFails(u)
    BY <1>3, LibraryKeeps
  <1>4. CASE \E n \in DOMAIN store : DeleteBackup(n) \/ restoreDB(n) \/ restoreMediaImpl(n)
    BY <1>4, DeleteBackupKeeps, RestoreKeeps
  <1>5. CASE \E op \in {"db", "media", "all"} : TryLock(op)
    BY <1>5, TryLockKeeps DEF Backing
  <1>6. CASE backupDB \/ dumpTo \/ backupMediaImpl \/ tarGz \/ BackupFails
    BY <1>6, BackupDBKeeps, DumpKeeps, BackupMediaKeeps, ArchiveKeeps, BackupFailsKeeps
  <1>7. CASE backupDBRefused \/ Unlock \/ ExtractEnds
    BY <1>7, QuickEnds
  <1>8. CASE \E m \in Media : ReadFile(m) \/ untarGz(m)
    BY <1>8, ReadFileKeeps, ExtractKeeps
  <1>9. CASE cleanup \/ ApplyDump \/ ApplyFails \/ Restart
    BY <1>9, RetainKeeps, ApplyDumpKeeps, ApplyFailsKeeps, RestartKeeps
  <1> QED
    BY <1>1, <1>2, <1>3, <1>4, <1>5, <1>6, <1>7, <1>8, <1>9 DEF BackupsNext

LEMMA BackupsStart ==
    ASSUME BackupsInit
    PROVE  BackupInv
  <1>1. /\ driver \in Drivers /\ mediaRows = {} /\ files = [m \in Media |-> "never"]
        /\ library = [u \in Users |-> NoCall] /\ store = <<>> /\ job = NoCall /\ open = TRUE
        /\ second = 1 /\ jobs = 0 /\ failures = 0 /\ bare = {} /\ clipped = {}
    BY DEF BackupsInit
  <1>2. DOMAIN store = {} /\ job.step = "idle" /\ \A u \in Users : ~ AtCall(u)
    BY <1>1 DEF NoCall, AtCall
  <1>3. BackupTypes
    <2>1. store \in [DOMAIN store -> Content]
      BY <1>1, <1>2
    <2>2. library \in [Users -> Calls \cup {NoCall}]
      BY <1>1
    <2>3. second \in 1 .. MaxSeconds /\ jobs \in 0 .. MaxJobs /\ failures \in 0 .. MaxFailures
      BY <1>1, BackupNats
    <2>4. BackupsTypeOK
      BY <1>1, <1>2, <2>3 DEF BackupsTypeOK
    <2> QED
      BY <1>2, <2>1, <2>2, <2>4 DEF BackupTypes
  <1>4. NamesFit /\ StoreInv /\ JobShape /\ PairInv /\ KeptInv /\ RestoredIsWhole
    BY <1>2 DEF NamesFit, StoreInv, JobShape, PairInv, KeptInv, RestoredIsWhole
  <1>5. \A u \in Users, m \in Media : ~ Uploading(u, m) /\ ~ Deletes(u)
    BY <1>2 DEF Uploading, Uploads, Deletes, AtCall
  <1>6. UploadInv /\ NewInv /\ RowsInv
    BY <1>1, <1>2, <1>5 DEF UploadInv, NewInv, RowsInv, Known
  <1> QED
    BY <1>3, <1>4, <1>6 DEF BackupInv, JobInv

LEMMA BackupRests ==
    ASSUME BackupInv, UNCHANGED backupVars
    PROVE  BackupInv'
  <1>1. UNCHANGED <<driver, mediaRows, files, library, store, job, open, second, jobs, failures,
                    bare, clipped>>
    BY DEF backupVars
  <1>2. BackupTypes'
    BY <1>1, TheParts, TypesAre, TypesFrom, StillLibrary
  <1>3. UploadInv' /\ NewInv' /\ RowsInv'
    BY <1>1, TheParts, StoreKnown, JobKnown, QuietLibrary
  <1>4. StoreInv' /\ JobShape' /\ KeptInv' /\ RestoredIsWhole'
    BY <1>1, TheParts DEF StoreInv, JobShape, KeptInv, RestoredIsWhole
  <1>5. PairInv'
    BY <1>1, TheParts DEF PairInv, Before, Whole
  <1>6. NamesFit'
    BY <1>1, TheParts DEF NamesFit, Pending
  <1> QED
    BY <1>2, <1>3, <1>4, <1>5, <1>6 DEF BackupInv, JobInv

(* Files, rows and backups agree: every row has its whole file or a named     *)
(* reason for not having it, a full backup archives the files of its rows,    *)
(* retention keeps the newest, and a restore brings back the whole snapshot    *)
(* (Manager.BackupAll, cleanup, restoreDB and the deletion of media).          *)
THEOREM BackupsAlwaysHold == Spec => []BackupsHold
  <1>1. Init => BackupInv
    BY BackupsStart DEF Init
  <1>2. BackupInv /\ [Next]_operationsVars => BackupInv'
    <2> SUFFICES ASSUME BackupInv, [Next]_operationsVars
                 PROVE  BackupInv'
      OBVIOUS
    <2>1. CASE BackupsNext
      BY <2>1, BackupStep
    <2>2. CASE UNCHANGED backupVars
      BY <2>2, BackupRests
    <2> QED
      BY <2>1, <2>2 DEF Next, operationsVars
  <1>3. BackupInv => BackupsHold
    BY BackupsForm
  <1> QED
    BY <1>1, <1>2, <1>3, PTL DEF Spec

---------------------------------------------------------------------------------
(* Tags.                                                                     *)

MergeSteps == {"source", "leftover", "count", "store", "old", "merged"}
Works      == Updating \cup Clearing \cup Merging \cup {NoWork}

WorkFits ==
    \A k \in Clerks :
        /\ work[k].step = "commit" =>
              work[k].article \in written /\ \A t \in Tags : work[k].counts[t] <= writes
        /\ work[k].step \in MergeSteps => work[k].counted <= writes

TagTypes ==
    /\ TagsTypeOK
    /\ work \in [Clerks -> Works]
    /\ IsFiniteSet(written) /\ Cardinality(written) <= writes
    /\ \A t \in Tags : count[t] <= writes
    /\ WorkFits

LEMMA WorkKinds ==
    ASSUME NEW w \in Works
    PROVE  /\ w.step = "commit" => /\ w.article \in Articles /\ w.tags \subseteq Tags
                                   /\ w.counts \in [Tags -> 0 .. MaxWrites]
           /\ w.step = "row" => w.target \in Tags
           /\ w.step \in MergeSteps =>
                 /\ w \in Merging /\ w.target \in Tags /\ w.tags \subseteq Tags
                 /\ w.left \subseteq Tags /\ w.unmoved \subseteq Tags
                 /\ w.source \in Tags /\ w.old \in BOOLEAN /\ w.counted \in 0 .. MaxWrites
           /\ w = NoWork <=> w.step = "idle"
  <1>1. \A x \in Updating : /\ x.step = "commit" /\ x.article \in Articles /\ x.tags \subseteq Tags
                            /\ x.counts \in [Tags -> 0 .. MaxWrites]
    BY DEF Updating
  <1>2. \A x \in Clearing : x.step = "row" /\ x.target \in Tags
    BY DEF Clearing
  <1>3. \A x \in Merging : /\ x.step \in MergeSteps /\ x.target \in Tags /\ x.tags \subseteq Tags
                           /\ x.left \subseteq Tags /\ x.unmoved \subseteq Tags
                           /\ x.source \in Tags /\ x.old \in BOOLEAN /\ x.counted \in 0 .. MaxWrites
    BY DEF Merging, MergeSteps
  <1>4. NoWork.step = "idle"
    BY DEF NoWork
  <1>5. \A s \in MergeSteps : s # "commit" /\ s # "row" /\ s # "idle"
    BY DEF MergeSteps
  <1>6. w \in Updating \/ w \in Clearing \/ w \in Merging \/ w = NoWork
    BY DEF Works
  <1> QED
    BY <1>1, <1>2, <1>3, <1>4, <1>5, <1>6

LEMMA TagNats == MaxWrites \in Nat /\ MaxLosses \in Nat
  BY TagBounds

LEMMA TagsAre ==
    ASSUME TagTypes
    PROVE  /\ database \in Databases
           /\ tag \in [Tags -> {"never", "live", "deleted"}]
           /\ written \subseteq Articles /\ IsFiniteSet(written)
           /\ Cardinality(written) \in Nat /\ Cardinality(written) <= writes
           /\ links \subseteq written \X Tags
           /\ count \in [Tags -> 0 .. MaxWrites] /\ \A t \in Tags : count[t] <= writes
           /\ work \in [Clerks -> Works]
           /\ writes \in 0 .. MaxWrites /\ losses \in 0 .. MaxLosses
           /\ drifted \subseteq Tags
           /\ outdated \in [Clerks -> SUBSET Tags] /\ carried \in [Clerks -> SUBSET Articles]
           /\ late \subseteq links
           /\ WorkFits
  BY FS_CardinalityType DEF TagTypes, TagsTypeOK

LEMMA TagTypesFrom ==
    ASSUME database' \in Databases, tag' \in [Tags -> {"never", "live", "deleted"}],
           written' \subseteq Articles, IsFiniteSet(written'),
           Cardinality(written') <= writes', links' \subseteq written' \X Tags,
           count' \in [Tags -> 0 .. MaxWrites], \A t \in Tags : count'[t] <= writes',
           work' \in [Clerks -> Works], writes' \in 0 .. MaxWrites, losses' \in 0 .. MaxLosses,
           drifted' \subseteq Tags,
           outdated' \in [Clerks -> SUBSET Tags], carried' \in [Clerks -> SUBSET Articles],
           late' \subseteq links', WorkFits'
    PROVE  TagTypes'
  <1>1. \A k \in Clerks : work'[k] = NoWork \/ work'[k] \in Updating \cup Clearing \cup Merging
    BY DEF Works
  <1> QED
    BY <1>1 DEF TagTypes, TagsTypeOK

(* What one clerk is at, and the others stay at.                             *)
LEMMA OneWork ==
    ASSUME TagTypes, NEW k \in Clerks, NEW w \in Works, work' = [work EXCEPT ![k] = w]
    PROVE  /\ work' \in [Clerks -> Works] /\ work'[k] = w
           /\ \A c \in Clerks : c # k => work'[c] = work[c]
  BY TagsAre

LEMMA FitsStay ==
    ASSUME TagTypes, NEW k, written \subseteq written', writes' \in Nat, writes' >= writes,
           \A c \in Clerks : c # k => work'[c] = work[c],
           k \in Clerks =>
              /\ work'[k].step = "commit" =>
                    work'[k].article \in written' /\ \A t \in Tags : work'[k].counts[t] <= writes'
              /\ work'[k].step \in MergeSteps => work'[k].counted <= writes'
    PROVE  WorkFits'
  <1> SUFFICES ASSUME NEW c \in Clerks
               PROVE  /\ work'[c].step = "commit" =>
                            /\ work'[c].article \in written'
                            /\ \A t \in Tags : work'[c].counts[t] <= writes'
                      /\ work'[c].step \in MergeSteps => work'[c].counted <= writes'
    BY DEF WorkFits
  <1>1. CASE c = k
    BY <1>1
  <1>2. CASE c # k
    <2>1. work'[c] = work[c] /\ work[c] \in Works /\ writes \in Nat
      BY <1>2, TagsAre, TagNats
    <2>2. /\ work[c].step = "commit" =>
                work[c].article \in written /\ \A t \in Tags : work[c].counts[t] <= writes
          /\ work[c].step \in MergeSteps => work[c].counted <= writes
      BY TagsAre DEF WorkFits
    <2>3. /\ work[c].step = "commit" => \A t \in Tags : work[c].counts[t] \in Nat
          /\ work[c].step \in MergeSteps => work[c].counted \in Nat
      BY <2>1, WorkKinds, TagNats
    <2> QED
      BY <2>1, <2>2, <2>3
  <1> QED
    BY <1>1, <1>2

LEMMA LinkedFew ==
    ASSUME TagTypes, NEW pairs, pairs \subseteq written \X Tags, NEW t \in Tags
    PROVE  /\ IsFiniteSet(Linked(pairs, t)) /\ Cardinality(Linked(pairs, t)) \in Nat
           /\ Cardinality(Linked(pairs, t)) <= writes
           /\ Cardinality(Linked(pairs, t)) \in 0 .. MaxWrites
  <1>1. Linked(pairs, t) \subseteq written
    BY DEF Linked
  <1>2. IsFiniteSet(Linked(pairs, t)) /\ Cardinality(Linked(pairs, t)) <= Cardinality(written)
    BY <1>1, TagsAre, FS_Subset
  <1>3. Cardinality(Linked(pairs, t)) \in Nat
    BY <1>2, FS_CardinalityType
  <1> QED
    BY <1>2, <1>3, TagsAre, TagNats

LEMMA LinkTypes ==
    ASSUME TagTypes, NEW k, NEW pairs, written \subseteq written', written' \subseteq Articles,
           pairs \subseteq written' \X Tags, Link(k, pairs)
    PROVE  /\ links' = pairs /\ links' \subseteq written' \X Tags /\ late' \subseteq links'
           /\ outdated' \in [Clerks -> SUBSET Tags] /\ carried' \in [Clerks -> SUBSET Articles]
  <1>1. links' = pairs /\ late' \subseteq pairs
    BY DEF Link
  <1>2. links \subseteq written' \X Tags
    BY TagsAre
  <1> DEFINE differ == (pairs \ links) \cup (links \ pairs)
  <1>3. \A p \in differ : p[2] \in Tags
    BY <1>2
  <1>4. outdated' = [c \in Clerks |-> outdated[c] \cup {p[2] : p \in differ}]
    BY DEF Link
  <1>5. carried' = [c \in Clerks |-> IF c = k THEN carried[c]
                                     ELSE carried[c] \ {p[1] : p \in differ}]
    BY DEF Link
  <1> HIDE DEF differ
  <1>6. outdated' \in [Clerks -> SUBSET Tags]
    BY <1>3, <1>4, TagsAre
  <1>7. carried' \in [Clerks -> SUBSET Articles]
    BY <1>5, TagsAre
  <1> QED
    BY <1>1, <1>6, <1>7

(* What a change of the links tells the others.                              *)
LEMMA LinkTells ==
    ASSUME TagTypes, NEW k, NEW pairs, written \subseteq written', written' \subseteq Articles,
           pairs \subseteq written' \X Tags, Link(k, pairs)
    PROVE  /\ \A c \in Clerks, t \in Tags : t \notin outdated'[c] =>
                 /\ t \notin outdated[c]
                 /\ \A a \in Articles : <<a, t>> \in links' <=> <<a, t>> \in links
           /\ \A c \in Clerks : c # k => \A a \in carried'[c] :
                 /\ a \in carried[c]
                 /\ \A t \in Tags : <<a, t>> \in links' <=> <<a, t>> \in links
           /\ k \in Clerks => carried'[k] = carried[k]
           /\ \A p \in links' : p \in late => p \in late'
           /\ \A p \in links' \ links : p[2] \in PastClearing => p \in late'
  <1> DEFINE differ == (pairs \ links) \cup (links \ pairs)
  <1>1. links' = pairs
    BY DEF Link
  <1>2. outdated' = [c \in Clerks |-> outdated[c] \cup {p[2] : p \in differ}]
    BY DEF Link
  <1>3. carried' = [c \in Clerks |-> IF c = k THEN carried[c]
                                     ELSE carried[c] \ {p[1] : p \in differ}]
    BY DEF Link
  <1>4. \A a, t : <<a, t>> \notin differ => (<<a, t>> \in links' <=> <<a, t>> \in links)
    BY <1>1
  <1> HIDE DEF differ
  <1>5. ASSUME NEW c \in Clerks, NEW t \in Tags, t \notin outdated'[c]
        PROVE  /\ t \notin outdated[c]
               /\ \A a \in Articles : <<a, t>> \in links' <=> <<a, t>> \in links
    <2>1. t \notin outdated[c] /\ \A p \in differ : p[2] # t
      BY <1>2, <1>5
    <2>2. \A a \in Articles : <<a, t>>[2] = t
      OBVIOUS
    <2> QED
      BY <1>4, <2>1, <2>2
  <1>6. ASSUME NEW c \in Clerks, c # k, NEW a \in carried'[c]
        PROVE  /\ a \in carried[c]
               /\ \A t \in Tags : <<a, t>> \in links' <=> <<a, t>> \in links
    <2>1. a \in carried[c] /\ \A p \in differ : p[1] # a
      BY <1>3, <1>6
    <2>2. \A t \in Tags : <<a, t>>[1] = a
      OBVIOUS
    <2> QED
      BY <1>4, <2>1, <2>2
  <1>7. k \in Clerks => carried'[k] = carried[k]
    BY <1>3
  <1>8. late' = (late \cap pairs) \cup {p \in pairs \ links : p[2] \in PastClearing}
    BY DEF Link
  <1> QED
    BY <1>1, <1>5, <1>6, <1>7, <1>8

(* What the counts, the deletions and the merges at work know.               *)

CommitFits(k) ==
    work[k].step = "commit" =>
        \A t \in Tags : \/ t \in outdated[k]
                        \/ work[k].counts[t] =
                             Cardinality(Linked(WithTags(work[k].article, work[k].tags), t))

StoreFits(k) ==
    work[k].step = "store" => \/ work[k].target \in outdated[k]
                              \/ work[k].counted = Cardinality(Linked(links, work[k].target))

RowFits(k) ==
    work[k].step = "row" => \A p \in links : p[2] = work[k].target => p \in late

(* A merge has carried its articles to the target, has yet to, or left them.  *)
Carried(k, a) ==
    \/ <<a, work[k].target>> \in links
    \/ work[k].step \in {"source", "leftover", "count"} /\ work[k].target \notin LiveTags
    \/ \E s \in work[k].left : s \in LiveTags /\ <<a, s>> \in links
    \/ \E s \in work[k].unmoved : <<a, s>> \in links

CarryFits(k) ==
    work[k].step \in MergeSteps =>
        /\ tag[work[k].target] # "never" /\ work[k].target \notin work[k].left
        /\ work[k].unmoved \cap work[k].left = {} /\ work[k].target \notin work[k].unmoved
        /\ work[k].step = "leftover" =>
              /\ work[k].source \notin work[k].left \cup work[k].unmoved
              /\ work[k].source # work[k].target
        /\ work[k].step \in {"count", "store", "old", "merged"} => work[k].left = {}
        /\ \A a \in carried[k] : Carried(k, a)

ClerkFits(k) == CommitFits(k) /\ StoreFits(k) /\ RowFits(k) /\ CarryFits(k)

CountInv == \A t \in Tags : count[t] = Cardinality(Linked(links, t)) \/ t \in drifted

TagInv == TagTypes /\ CountInv /\ LinksAreLive /\ \A k \in Clerks : ClerkFits(k)

LEMMA SameLinked ==
    ASSUME NEW p, NEW q, NEW t, \A a \in Articles : <<a, t>> \in p <=> <<a, t>> \in q
    PROVE  Linked(p, t) = Linked(q, t)
  BY DEF Linked

LEMMA SameWithTags ==
    ASSUME NEW a, NEW ids, NEW t, \A b \in Articles : <<b, t>> \in links' <=> <<b, t>> \in links
    PROVE  Linked(WithTags(a, ids), t)' = Linked(WithTags(a, ids), t)
  BY DEF Linked, WithTags

(* The others, while one changes links.                                      *)
LEMMA LinkRests ==
    ASSUME TagTypes, NEW k, NEW pairs, written \subseteq written', written' \subseteq Articles,
           pairs \subseteq written' \X Tags, Link(k, pairs), UNCHANGED <<database, tag>>,
           NEW c \in Clerks, c # k, work'[c] = work[c], ClerkFits(c)
    PROVE  ClerkFits(c)'
  <1>1.    /\ \A t \in Tags : t \notin outdated'[c] =>
                 /\ t \notin outdated[c]
                 /\ \A a \in Articles : <<a, t>> \in links' <=> <<a, t>> \in links
           /\ \A a \in carried'[c] :
                 /\ a \in carried[c]
                 /\ \A t \in Tags : <<a, t>> \in links' <=> <<a, t>> \in links
           /\ \A p \in links' : p \in late => p \in late'
           /\ \A p \in links' \ links : p[2] \in PastClearing => p \in late'
    BY LinkTells
  <1>a. work[c] \in Works
    BY TagsAre
  <1>2. CommitFits(c)'
    <2> SUFFICES ASSUME work[c].step = "commit", NEW t \in Tags, t \notin outdated'[c]
                 PROVE  work[c].counts[t] =
                           Cardinality(Linked(WithTags(work[c].article, work[c].tags), t)')
      BY DEF CommitFits
    <2>1. PICK a, ids, cs : a = work[c].article /\ ids = work[c].tags /\ cs = work[c].counts
      OBVIOUS
    <2>2. cs[t] = Cardinality(Linked(WithTags(a, ids), t))
      BY <1>1, <2>1 DEF ClerkFits, CommitFits
    <2>3. Linked(WithTags(a, ids), t)' = Linked(WithTags(a, ids), t)
      BY <1>1, SameWithTags
    <2>4. a = work'[c].article /\ ids = work'[c].tags
      BY <2>1
    <2> QED
      BY <2>1, <2>2, <2>3, <2>4
  <1>3. StoreFits(c)'
    <2> SUFFICES ASSUME work[c].step = "store", work[c].target \notin outdated'[c]
                 PROVE  work[c].counted = Cardinality(Linked(links', work[c].target))
      BY DEF StoreFits, Linked
    <2>1. work[c].target \in Tags
      BY <1>a, WorkKinds DEF MergeSteps
    <2>2. Linked(links', work[c].target) = Linked(links, work[c].target)
      BY <1>1, <2>1, SameLinked
    <2> QED
      BY <1>1, <2>1, <2>2 DEF ClerkFits, StoreFits
  <1>4. RowFits(c)'
    <2> SUFFICES ASSUME work[c].step = "row", NEW p \in links', p[2] = work[c].target
                 PROVE  p \in late'
      BY DEF RowFits
    <2>1. p[2] \in PastClearing
      BY DEF PastClearing
    <2>2. p \in links => p \in late
      BY DEF ClerkFits, RowFits
    <2> QED
      BY <1>1, <2>1, <2>2
  <1>5. CarryFits(c)'
    <2> SUFFICES ASSUME work[c].step \in MergeSteps
                 PROVE  /\ tag[work[c].target] # "never" /\ work[c].target \notin work[c].left
                        /\ work[c].unmoved \cap work[c].left = {}
                        /\ work[c].target \notin work[c].unmoved
                        /\ work[c].step = "leftover" =>
                              /\ work[c].source \notin work[c].left \cup work[c].unmoved
                              /\ work[c].source # work[c].target
                        /\ work[c].step \in {"count", "store", "old", "merged"} => work[c].left = {}
                        /\ \A a \in carried'[c] : Carried(c, a)'
      BY DEF CarryFits
    <2>1. work[c].target \in Tags /\ work[c].left \subseteq Tags /\ work[c].unmoved \subseteq Tags
      BY <1>a, WorkKinds
    <2>2. ASSUME NEW a \in carried'[c]
          PROVE  Carried(c, a)'
      <3>1. a \in carried[c] /\ \A t \in Tags : <<a, t>> \in links' <=> <<a, t>> \in links
        BY <1>1
      <3>2. Carried(c, a)
        BY <3>1 DEF ClerkFits, CarryFits
      <3>3. LiveTags' = LiveTags
        BY DEF LiveTags
      <3> QED
        BY <2>1, <3>1, <3>2, <3>3 DEF Carried
    <2> QED
      BY <2>2 DEF ClerkFits, CarryFits
  <1> QED
    BY <1>2, <1>3, <1>4, <1>5 DEF ClerkFits

(* The others, while one changes no links.                                   *)
LEMMA QuietRests ==
    ASSUME TagTypes, UNCHANGED <<database, links>>, late \subseteq late',
           NEW c \in Clerks, work'[c] = work[c], outdated'[c] = outdated[c],
           carried'[c] \subseteq carried[c],
           \A t \in Tags : (tag[t] # "never" => tag'[t] # "never") /\ (tag[t] = "deleted" => tag'[t] = "deleted"),
           \A a \in carried'[c], t \in Tags : <<a, t>> \in links /\ tag[t] = "live" => tag'[t] = "live",
           ClerkFits(c)
    PROVE  ClerkFits(c)'
  <1>a. work[c] \in Works
    BY TagsAre
  <1>b. UNCHANGED links
    OBVIOUS
  <1>2. CommitFits(c)'
    <2>1. PICK a, ids, cs : a = work[c].article /\ ids = work[c].tags /\ cs = work[c].counts
      OBVIOUS
    <2>2. \A t \in Tags : Linked(WithTags(a, ids), t)' = Linked(WithTags(a, ids), t)
      BY <1>b DEF Linked, WithTags
    <2>3. a = work'[c].article /\ ids = work'[c].tags /\ cs = work'[c].counts
      BY <2>1
    <2>4. \A t \in Tags : t \in outdated[c] \/ work[c].step # "commit" \/ cs[t] = Cardinality(Linked(WithTags(a, ids), t))
      BY <2>1 DEF ClerkFits, CommitFits
    <2> QED
      BY <2>2, <2>3, <2>4 DEF CommitFits
  <1>3. StoreFits(c)' /\ RowFits(c)'
    BY <1>b DEF ClerkFits, StoreFits, RowFits, Linked
  <1>5. CarryFits(c)'
    <2> SUFFICES ASSUME work[c].step \in MergeSteps
                 PROVE  /\ tag'[work[c].target] # "never" /\ work[c].target \notin work[c].left
                        /\ work[c].unmoved \cap work[c].left = {}
                        /\ work[c].target \notin work[c].unmoved
                        /\ work[c].step = "leftover" =>
                              /\ work[c].source \notin work[c].left \cup work[c].unmoved
                              /\ work[c].source # work[c].target
                        /\ work[c].step \in {"count", "store", "old", "merged"} => work[c].left = {}
                        /\ \A a \in carried'[c] : Carried(c, a)'
      BY DEF CarryFits
    <2>1. work[c].target \in Tags /\ work[c].left \subseteq Tags /\ work[c].unmoved \subseteq Tags /\ tag[work[c].target] # "never"
      BY <1>a, WorkKinds DEF ClerkFits, CarryFits
    <2>2. ASSUME NEW a \in carried'[c]
          PROVE  Carried(c, a)'
      <3>1. Carried(c, a)
        BY DEF ClerkFits, CarryFits
      <3>2. work[c].target \notin LiveTags => work[c].target \notin LiveTags'
        BY <2>1, TagsAre DEF LiveTags
      <3>3. \A t \in Tags : <<a, t>> \in links /\ t \in LiveTags => t \in LiveTags'
        BY DEF LiveTags
      <3> QED
        BY <1>b, <2>1, <3>1, <3>2, <3>3 DEF Carried
    <2> QED
      BY <2>1, <2>2 DEF ClerkFits, CarryFits
  <1> QED
    BY <1>2, <1>3, <1>5 DEF ClerkFits

(* A change of links keeps links live but for late ones.                     *)
LEMMA LinkLive ==
    ASSUME TagTypes, LinksAreLive, NEW k, NEW pairs, written \subseteq written',
           written' \subseteq Articles, pairs \subseteq written' \X Tags, Link(k, pairs), UNCHANGED tag
    PROVE  LinksAreLive'
  <1>1. /\ \A p \in links' : p \in late => p \in late'
        /\ \A p \in links' \ links : p[2] \in PastClearing => p \in late'
        /\ links' \subseteq written' \X Tags
    BY LinkTells, LinkTypes
  <1>2. LiveTags' = LiveTags
    BY DEF LiveTags
  <1> SUFFICES ASSUME NEW p \in links'
               PROVE  p[2] \in LiveTags \/ p \in late'
    BY <1>2 DEF LinksAreLive
  <1>3. p[2] \in Tags
    BY <1>1
  <1> QED
    BY <1>1, <1>3 DEF LinksAreLive, PastClearing

(* A clerk without work, or at the end of it.                                *)
LEMMA IdleFits ==
    ASSUME NEW k \in Clerks, work'[k].step \notin MergeSteps \cup {"commit", "row"}
    PROVE  ClerkFits(k)'
  BY DEF ClerkFits, CommitFits, StoreFits, RowFits, CarryFits, MergeSteps

LEMMA StepsDiffer ==
    /\ NoWork.step \notin MergeSteps \cup {"commit", "row"} /\ NoWork \in Works
    /\ "commit" \notin MergeSteps /\ "row" \notin MergeSteps
  BY DEF NoWork, MergeSteps, Works

LEMMA TagParts ==
    ASSUME TagInv
    PROVE  /\ TagTypes /\ CountInv /\ LinksAreLive
           /\ \A k \in Clerks : ClerkFits(k)
  BY DEF TagInv

LEMMA CreateTagKeeps ==
    ASSUME TagInv, NEW t \in Tags, CreateTag(t)
    PROVE  TagInv'
  <1>1. /\ tag[t] = "never" /\ tag' = [tag EXCEPT ![t] = "live"]
        /\ UNCHANGED <<database, written, links, count, work, writes, losses>>
        /\ UNCHANGED <<drifted, outdated, carried, late>>
    BY DEF CreateTag, tagHistory
  <1>2. /\ tag' \in [Tags -> {"never", "live", "deleted"}]
        /\ tag'[t] = "live" /\ \A s \in Tags : s # t => tag'[s] = tag[s]
    BY <1>1, TagParts, TagsAre
  <1>3. TagTypes'
    <2>1. WorkFits'
      BY <1>1, TagParts, TagsAre DEF WorkFits
    <2> QED
      BY <1>1, <1>2, <2>1, TagParts, TagsAre, TagTypesFrom
  <1>4. CountInv'
    BY <1>1, TagParts DEF CountInv, Linked
  <1>5. LinksAreLive'
    <2>1. \A s \in LiveTags : s \in LiveTags'
      BY <1>1, <1>2 DEF LiveTags
    <2> QED
      BY <1>1, <2>1, TagParts DEF LinksAreLive
  <1>6. \A c \in Clerks : ClerkFits(c)'
    BY <1>1, <1>2, TagParts, QuietRests
  <1> QED
    BY <1>3, <1>4, <1>5, <1>6 DEF TagInv

LEMMA CreateArticleKeeps ==
    ASSUME TagInv, NEW a \in Articles, NEW ids \in SUBSET Tags, CreateArticle(a, ids)
    PROVE  TagInv'
  <1> DEFINE pairs == WithTags(a, ids \cap LiveTags)
  <1>1. /\ a \notin written /\ writes < MaxWrites /\ writes' = writes + 1
        /\ written' = written \cup {a} /\ Link(Nobody, pairs)
        /\ count' = [t \in Tags |-> IF t \in Bumped(ids) THEN count[t] + 1 ELSE count[t]]
        /\ UNCHANGED <<database, tag, work, losses, drifted>>
    BY DEF CreateArticle
  <1>2. pairs \subseteq written' \X Tags
    BY <1>1, TagParts, TagsAre DEF WithTags
  <1>3. written \subseteq written' /\ written' \subseteq Articles
    BY <1>1, TagParts, TagsAre
  <1>4. \A t \in Tags : Linked(pairs, t) = IF t \in Bumped(ids) THEN Linked(links, t) \cup {a}
                                           ELSE Linked(links, t)
    <2>1. \A p \in links : p[1] # a /\ p = <<p[1], p[2]>>
      BY <1>1, TagParts, TagsAre
    <2>2. \A b \in Articles, t \in Tags : <<b, t>> \in pairs <=>
             <<b, t>> \in links \/ (b = a /\ t \in Bumped(ids))
      BY <2>1 DEF WithTags, Bumped
    <2> QED
      BY <2>2 DEF Linked
  <1> HIDE DEF pairs
  <1>5. /\ links' = pairs /\ links' \subseteq written' \X Tags /\ late' \subseteq links'
        /\ outdated' \in [Clerks -> SUBSET Tags] /\ carried' \in [Clerks -> SUBSET Articles]
    BY <1>1, <1>2, <1>3, TagParts, LinkTypes
  <1>6. writes \in Nat /\ writes' \in 0 .. MaxWrites /\ writes' = writes + 1
    BY <1>1, TagParts, TagsAre, TagNats
  <1>7. TagTypes'
    <2>1. IsFiniteSet(written') /\ Cardinality(written') <= writes'
      <3>1. /\ IsFiniteSet(written) /\ Cardinality(written) \in Nat /\ Cardinality(written) <= writes
        BY TagParts, TagsAre
      <3>2. /\ IsFiniteSet(written \cup {a})
            /\ Cardinality(written \cup {a}) = Cardinality(written) + 1
        BY <1>1, <3>1, FS_AddElement
      <3> QED
        BY <1>1, <1>6, <3>1, <3>2
    <2>2. \A t \in Tags : count[t] \in Nat /\ count[t] <= writes
      BY TagParts, TagsAre, TagNats
    <2>3. count' \in [Tags -> 0 .. MaxWrites] /\ \A t \in Tags : count'[t] <= writes'
      <3>1. \A t \in Tags : count'[t] \in Nat /\ count'[t] <= writes'
        BY <1>1, <1>6, <2>2
      <3>2. \A t \in Tags : count'[t] \in 0 .. MaxWrites
        BY <1>6, <3>1, TagNats
      <3> QED
        BY <1>1, <3>1, <3>2
    <2>4. WorkFits'
      <3>1. writes' \in Nat /\ writes' >= writes /\ Nobody \notin Clerks
        BY <1>6, NobodyAssumption
      <3> QED
        BY <1>1, <1>3, <3>1, TagParts, FitsStay
    <2> QED
      BY <1>1, <1>3, <1>5, <1>6, <2>1, <2>3, <2>4, TagParts, TagsAre, TagTypesFrom
  <1>8. CountInv'
    <2> SUFFICES ASSUME NEW t \in Tags
                 PROVE  count'[t] = Cardinality(Linked(pairs, t)) \/ t \in drifted
      BY <1>1, <1>5 DEF CountInv, Linked
    <2>1. count[t] = Cardinality(Linked(links, t)) \/ t \in drifted
      BY TagParts DEF CountInv
    <2>2. IsFiniteSet(Linked(links, t)) /\ a \notin Linked(links, t)
      <3>1. links \subseteq written \X Tags
        BY TagParts, TagsAre
      <3> QED
        BY <1>1, <3>1, TagParts, LinkedFew DEF Linked
    <2>3. Cardinality(Linked(links, t) \cup {a}) = Cardinality(Linked(links, t)) + 1
      BY <2>2, FS_AddElement
    <2> QED
      BY <1>1, <1>4, <2>1, <2>3
  <1>9. LinksAreLive'
    BY <1>1, <1>2, <1>3, TagParts, LinkLive
  <1>10. \A c \in Clerks : ClerkFits(c)'
    <2>1. \A c \in Clerks : c # Nobody /\ work'[c] = work[c]
      BY <1>1, NobodyAssumption
    <2> QED
      BY <1>1, <1>2, <1>3, <2>1, TagParts, LinkRests
  <1> QED
    BY <1>7, <1>8, <1>9, <1>10 DEF TagInv

LEMMA UpdateArticleKeeps ==
    ASSUME TagInv, NEW k \in Clerks, NEW a \in Articles, NEW ids \in SUBSET Tags,
           UpdateArticle(k, a, ids)
    PROVE  TagInv'
  <1>a. PICK tags \in SUBSET Tags : tags = ids \cap LiveTags
    OBVIOUS
  <1>b. PICK cs : cs = Counts(WithTags(a, tags))
    OBVIOUS
  <1> DEFINE w == [step |-> "commit", article |-> a, tags |-> tags, counts |-> cs]
  <1>1. /\ a \in written /\ writes < MaxWrites /\ writes' = writes + 1 /\ work[k] = NoWork
        /\ work' = [work EXCEPT ![k] = w] /\ outdated' = [outdated EXCEPT ![k] = {}]
        /\ UNCHANGED <<database, tag, written, links, count, losses, drifted, carried, late>>
    BY <1>a, <1>b DEF UpdateArticle
  <1>2. WithTags(a, tags) \subseteq written \X Tags
    BY <1>1, TagParts, TagsAre DEF WithTags
  <1>3. /\ cs \in [Tags -> 0 .. MaxWrites] /\ \A t \in Tags : cs[t] <= writes
        /\ \A t \in Tags : cs[t] = Cardinality(Linked(WithTags(a, tags), t))
    <2>1. \A t \in Tags : /\ Cardinality(Linked(WithTags(a, tags), t)) \in 0 .. MaxWrites
                          /\ Cardinality(Linked(WithTags(a, tags), t)) <= writes
      BY <1>2, TagParts, LinkedFew
    <2> QED
      BY <1>b, <2>1 DEF Counts
  <1>4. w.step = "commit" /\ w.article = a /\ w.tags = tags /\ w.counts = cs /\ w \in Works
    BY <1>3 DEF Updating, Works
  <1> HIDE DEF w
  <1>5. work' \in [Clerks -> Works] /\ work'[k] = w /\ \A c \in Clerks : c # k => work'[c] = work[c]
    BY <1>1, <1>4, TagParts, OneWork
  <1>6. writes \in Nat /\ writes' \in 0 .. MaxWrites /\ writes' = writes + 1
    BY <1>1, TagParts, TagsAre, TagNats
  <1>7. outdated' \in [Clerks -> SUBSET Tags] /\ \A c \in Clerks : c # k => outdated'[c] = outdated[c]
    BY <1>1, TagParts, TagsAre
  <1>8. TagTypes'
    <2>1. \A t \in Tags : cs[t] \in Nat /\ count[t] \in Nat /\ count[t] <= writes
      BY <1>3, TagParts, TagsAre, TagNats
    <2>2. \A t \in Tags : cs[t] <= writes' /\ count'[t] <= writes'
      BY <1>1, <1>3, <1>6, <2>1
    <2>3. WorkFits'
      <3>1. writes' \in Nat /\ writes' >= writes /\ written \subseteq written'
        BY <1>1, <1>6
      <3> QED
        BY <1>1, <1>4, <1>5, <2>2, <3>1, StepsDiffer, TagParts, FitsStay
    <2>4. Cardinality(written') <= writes'
      <3>1. Cardinality(written) \in Nat /\ Cardinality(written) <= writes
        BY TagParts, TagsAre
      <3> QED
        BY <1>1, <1>6, <3>1
    <2> QED
      BY <1>1, <1>5, <1>6, <1>7, <2>2, <2>3, <2>4, TagParts, TagsAre, TagTypesFrom
  <1>9. CountInv' /\ LinksAreLive'
    BY <1>1, TagParts DEF CountInv, LinksAreLive, LiveTags, Linked
  <1>10. ClerkFits(k)'
    <2>1. \A t \in Tags : Linked(WithTags(a, tags), t)' = Linked(WithTags(a, tags), t)
      BY <1>1 DEF Linked, WithTags
    <2>2. CommitFits(k)'
      BY <1>3, <1>4, <1>5, <2>1 DEF CommitFits
    <2> QED
      BY <1>4, <1>5, <2>2, StepsDiffer DEF ClerkFits, StoreFits, RowFits, CarryFits, MergeSteps
  <1>11. \A c \in Clerks : c # k => ClerkFits(c)'
    BY <1>1, <1>5, <1>7, TagParts, QuietRests
  <1> QED
    BY <1>8, <1>9, <1>10, <1>11 DEF TagInv

LEMMA CommitUpdateKeeps ==
    ASSUME TagInv, NEW k \in Clerks, CommitUpdate(k)
    PROVE  TagInv'
  <1>a. PICK a, tags, cs : a = work[k].article /\ tags = work[k].tags /\ cs = work[k].counts
    OBVIOUS
  <1>b. PICK pairs : pairs = WithTags(a, tags)
    OBVIOUS
  <1>1. /\ work[k].step = "commit" /\ Link(k, pairs) /\ count' = cs /\ drifted' = outdated[k]
        /\ work' = [work EXCEPT ![k] = NoWork]
        /\ UNCHANGED <<database, tag, written, writes, losses>>
    BY <1>a, <1>b DEF CommitUpdate, EndWork
  <1>2. /\ work[k] \in Works /\ a \in Articles /\ a \in written /\ tags \subseteq Tags
        /\ cs \in [Tags -> 0 .. MaxWrites] /\ \A t \in Tags : cs[t] <= writes
    <2>1. work[k] \in Works
      BY TagParts, TagsAre
    <2>2. a \in written /\ \A t \in Tags : cs[t] <= writes
      BY <1>a, <1>1, TagParts, TagsAre DEF WorkFits
    <2> QED
      BY <1>a, <1>1, <2>1, <2>2, WorkKinds
  <1>3. pairs \subseteq written \X Tags
    BY <1>b, <1>2, TagParts, TagsAre DEF WithTags
  <1>4. written \subseteq written' /\ written' \subseteq Articles /\ pairs \subseteq written' \X Tags
    BY <1>1, <1>3, TagParts, TagsAre
  <1>5. /\ links' = pairs /\ links' \subseteq written' \X Tags /\ late' \subseteq links'
        /\ outdated' \in [Clerks -> SUBSET Tags] /\ carried' \in [Clerks -> SUBSET Articles]
    BY <1>1, <1>4, TagParts, LinkTypes
  <1>6. work' \in [Clerks -> Works] /\ work'[k] = NoWork /\ \A c \in Clerks : c # k => work'[c] = work[c]
    BY <1>1, StepsDiffer, TagParts, OneWork
  <1>7. TagTypes'
    <2>1. writes' \in Nat /\ writes' >= writes /\ writes' = writes
      BY <1>1, TagParts, TagsAre, TagNats
    <2>2. WorkFits'
      BY <1>4, <1>6, <2>1, StepsDiffer, TagParts, FitsStay
    <2>3. drifted' \subseteq Tags
      BY <1>1, TagParts, TagsAre
    <2> QED
      BY <1>1, <1>2, <1>4, <1>5, <1>6, <2>1, <2>2, <2>3, TagParts, TagsAre, TagTypesFrom
  <1>8. CountInv'
    <2>1. \A t \in Tags : t \in outdated[k] \/ cs[t] = Cardinality(Linked(pairs, t))
      BY <1>a, <1>b, <1>1, TagParts DEF ClerkFits, CommitFits
    <2> QED
      BY <1>1, <1>5, <2>1 DEF CountInv, Linked
  <1>9. LinksAreLive'
    BY <1>1, <1>4, TagParts, LinkLive
  <1>10. ClerkFits(k)'
    BY <1>6, StepsDiffer, IdleFits
  <1>11. \A c \in Clerks : c # k => ClerkFits(c)'
    BY <1>1, <1>4, <1>6, TagParts, LinkRests
  <1> QED
    BY <1>7, <1>8, <1>9, <1>10, <1>11 DEF TagInv

(* Types while one clerk goes on.                                            *)
LEMMA WorkMoves ==
    ASSUME TagTypes, NEW k \in Clerks, NEW w \in Works, work' = [work EXCEPT ![k] = w],
           w.step # "commit", w.step \in MergeSteps => w.counted <= writes,
           writes' = writes \/ (writes < MaxWrites /\ writes' = writes + 1),
           losses' = losses \/ MayLose,
           UNCHANGED <<database, written>>, tag' \in [Tags -> {"never", "live", "deleted"}],
           count' \in [Tags -> 0 .. MaxWrites], \A t \in Tags : count'[t] <= writes,
           links' \subseteq written' \X Tags, drifted' \subseteq Tags,
           outdated' \in [Clerks -> SUBSET Tags], carried' \in [Clerks -> SUBSET Articles],
           late' \subseteq links'
    PROVE  /\ TagTypes' /\ work'[k] = w
           /\ \A c \in Clerks : c # k => work'[c] = work[c]
  <1>1. /\ work' \in [Clerks -> Works] /\ work'[k] = w
        /\ \A c \in Clerks : c # k => work'[c] = work[c]
    BY OneWork
  <1>2. writes \in Nat /\ writes' \in 0 .. MaxWrites /\ writes' >= writes
    BY TagsAre, TagNats
  <1>3. losses' \in 0 .. MaxLosses
    BY TagsAre, TagNats DEF MayLose
  <1>4. \A t \in Tags : count'[t] <= writes'
    BY <1>2, TagNats
  <1>5. Cardinality(written') <= writes'
    <2>1. Cardinality(written) \in Nat /\ Cardinality(written) <= writes
      BY TagsAre
    <2> QED
      BY <1>2, <2>1
  <1>6. WorkFits'
    <2>1. w.step \in MergeSteps => w.counted <= writes'
      <3>1. w.step \in MergeSteps => w.counted \in Nat
        BY WorkKinds, TagNats
      <3> QED
        BY <1>2, <3>1
    <2>2. writes' \in Nat /\ written \subseteq written'
      BY <1>2
    <2> QED
      BY <1>1, <1>2, <2>1, <2>2, FitsStay
  <1> QED
    BY <1>1, <1>2, <1>3, <1>4, <1>5, <1>6, TagsAre, TagTypesFrom

LEMMA ClearKeeps ==
    ASSUME TagInv, NEW k \in Clerks, NEW t \in Tags, ClearArticleAssociations(k, t)
    PROVE  TagInv'
  <1> DEFINE w == [step |-> "row", target |-> t]
  <1>1. /\ writes < MaxWrites /\ writes' = writes + 1
        /\ work' = [work EXCEPT ![k] = w]
        /\ UNCHANGED <<database, tag, written, count>>
    BY DEF ClearArticleAssociations, BeginWork
  <1>2. w.step = "row" /\ w.target = t /\ w \in Works
    BY DEF Clearing, Works
  <1> HIDE DEF w
  <1>3. /\ tag' \in [Tags -> {"never", "live", "deleted"}] /\ count' \in [Tags -> 0 .. MaxWrites]
        /\ \A s \in Tags : count'[s] <= writes
    BY <1>1, TagParts, TagsAre
  <1>4. CASE /\ Link(k, {p \in links : p[2] # t}) /\ drifted' = drifted \cup {t} /\ UNCHANGED losses
    <2>a. PICK pairs : pairs = {p \in links : p[2] # t}
      OBVIOUS
    <2>1. Link(k, pairs)
      BY <1>4, <2>a
    <2>2. /\ written \subseteq written' /\ written' \subseteq Articles /\ pairs \subseteq written' \X Tags
      BY <1>1, <2>a, TagParts, TagsAre
    <2>3. /\ links' = pairs /\ links' \subseteq written' \X Tags /\ late' \subseteq links'
          /\ outdated' \in [Clerks -> SUBSET Tags] /\ carried' \in [Clerks -> SUBSET Articles]
      BY <2>1, <2>2, TagParts, LinkTypes
    <2>4. drifted' \subseteq Tags
      BY <1>4, TagParts, TagsAre
    <2>5. TagTypes' /\ work'[k] = w /\ \A c \in Clerks : c # k => work'[c] = work[c]
      BY <1>1, <1>2, <1>3, <1>4, <2>3, <2>4, StepsDiffer, TagParts, WorkMoves
    <2>6. CountInv'
      <3>1. \A s \in Tags : s # t => Linked(links', s) = Linked(links, s)
        BY <2>a, <2>3 DEF Linked
      <3> QED
        BY <1>1, <1>4, <3>1, TagParts DEF CountInv, Linked
    <2>7. LinksAreLive'
      BY <1>1, <2>1, <2>2, TagParts, LinkLive
    <2>8. ClerkFits(k)'
      <3>1. RowFits(k)'
        BY <1>2, <2>a, <2>3, <2>5 DEF RowFits
      <3> QED
        BY <1>2, <2>5, <3>1, StepsDiffer DEF ClerkFits, CommitFits, StoreFits, CarryFits, MergeSteps
    <2>9. \A c \in Clerks : c # k => ClerkFits(c)'
      BY <1>1, <2>1, <2>2, <2>5, TagParts, LinkRests
    <2> QED
      BY <2>5, <2>6, <2>7, <2>8, <2>9 DEF TagInv
  <1>5. CASE /\ MayLose /\ late' = late \cup {p \in links : p[2] = t}
             /\ UNCHANGED <<links, drifted, outdated, carried>>
    <2>1. late' \subseteq links' /\ late \subseteq late'
      BY <1>5, TagParts, TagsAre
    <2>2. TagTypes' /\ work'[k] = w /\ \A c \in Clerks : c # k => work'[c] = work[c]
      BY <1>1, <1>2, <1>3, <1>5, <2>1, StepsDiffer, TagParts, TagsAre, WorkMoves
    <2>3. CountInv' /\ LinksAreLive'
      BY <1>1, <1>5, <2>1, TagParts DEF CountInv, LinksAreLive, LiveTags, Linked
    <2>4. ClerkFits(k)'
      <3>1. RowFits(k)'
        BY <1>2, <1>5, <2>2 DEF RowFits
      <3> QED
        BY <1>2, <2>2, <3>1, StepsDiffer DEF ClerkFits, CommitFits, StoreFits, CarryFits, MergeSteps
    <2>5. \A c \in Clerks : c # k => ClerkFits(c)'
      BY <1>1, <1>5, <2>1, <2>2, TagParts, QuietRests
    <2> QED
      BY <2>2, <2>3, <2>4, <2>5 DEF TagInv
  <1> QED
    BY <1>4, <1>5 DEF ClearArticleAssociations

(* Rows are deleted by one clerk.                                            *)
LEMMA RemoveTells ==
    ASSUME TagTypes, NEW k \in Clerks, NEW ts, Remove(k, ts), UNCHANGED links
    PROVE  /\ tag' \in [Tags -> {"never", "live", "deleted"}]
           /\ carried' \in [Clerks -> SUBSET Articles] /\ carried'[k] = carried[k]
           /\ \A t \in Tags : (tag[t] # "never" => tag'[t] # "never")
                              /\ (tag[t] = "deleted" => tag'[t] = "deleted")
           /\ \A t \in Tags : t \notin ts => tag'[t] = tag[t]
           /\ \A c \in Clerks : c # k =>
                 /\ carried'[c] \subseteq carried[c]
                 /\ \A a \in carried'[c], t \in Tags : <<a, t>> \in links => t \notin ts
  <1>1. tag' = [t \in Tags |-> IF t \in ts \cap LiveTags THEN "deleted" ELSE tag[t]]
    BY DEF Remove
  <1>2. carried' = [c \in Clerks |-> IF c = k THEN carried[c]
                                     ELSE carried[c] \ UNION {Linked(links, t) : t \in ts}]
    BY DEF Remove
  <1>3. \A a \in Articles, t \in Tags : <<a, t>> \in links /\ t \in ts => a \in UNION {Linked(links, s) : s \in ts}
    BY DEF Linked
  <1>4. carried' \in [Clerks -> SUBSET Articles] /\ carried'[k] = carried[k]
    BY <1>2, TagsAre
  <1>5. tag' \in [Tags -> {"never", "live", "deleted"}]
    BY <1>1, TagsAre
  <1>6. ASSUME NEW c \in Clerks, c # k
        PROVE  /\ carried'[c] \subseteq carried[c]
               /\ \A a \in carried'[c], t \in Tags : <<a, t>> \in links => t \notin ts
    <2>1. carried'[c] = carried[c] \ UNION {Linked(links, t) : t \in ts}
      BY <1>2, <1>6
    <2>2. carried[c] \subseteq Articles
      BY TagsAre
    <2> QED
      BY <1>3, <2>1, <2>2
  <1> QED
    BY <1>1, <1>4, <1>5, <1>6

LEMMA DeleteTagKeeps ==
    ASSUME TagInv, NEW k \in Clerks, DeleteTag(k)
    PROVE  TagInv'
  <1>a. PICK t : t = work[k].target
    OBVIOUS
  <1>1. /\ work[k].step = "row" /\ Remove(k, {t}) /\ work' = [work EXCEPT ![k] = NoWork]
        /\ UNCHANGED <<database, written, links, count, writes, losses, drifted, outdated, late>>
    BY <1>a DEF DeleteTag, EndWork
  <1>2.    /\ tag' \in [Tags -> {"never", "live", "deleted"}]
           /\ carried' \in [Clerks -> SUBSET Articles]
           /\ \A s \in Tags : (tag[s] # "never" => tag'[s] # "never")
                              /\ (tag[s] = "deleted" => tag'[s] = "deleted")
           /\ \A s \in Tags : s \notin {t} => tag'[s] = tag[s]
           /\ \A c \in Clerks : c # k =>
                 /\ carried'[c] \subseteq carried[c]
                 /\ \A a \in carried'[c], s \in Tags : <<a, s>> \in links => s \notin {t}
    BY <1>1, TagParts, RemoveTells
  <1>3. TagTypes' /\ work'[k] = NoWork /\ \A c \in Clerks : c # k => work'[c] = work[c]
    BY <1>1, <1>2, StepsDiffer, TagParts, TagsAre, WorkMoves
  <1>4. CountInv'
    BY <1>1, TagParts DEF CountInv, Linked
  <1>5. LinksAreLive'
    <2> SUFFICES ASSUME NEW p \in links
                 PROVE  p[2] \in LiveTags' \/ p \in late
      BY <1>1 DEF LinksAreLive
    <2>1. p[2] \in Tags
      BY TagParts, TagsAre
    <2>2. CASE p[2] = t
      BY <1>a, <1>1, <2>2, TagParts DEF ClerkFits, RowFits
    <2>3. CASE p[2] # t
      <3>1. tag'[p[2]] = tag[p[2]]
        BY <1>2, <2>1, <2>3
      <3> QED
        BY <2>1, <3>1, TagParts DEF LinksAreLive, LiveTags
    <2> QED
      BY <2>2, <2>3
  <1>6. ClerkFits(k)'
    BY <1>3, StepsDiffer, IdleFits
  <1>7. ASSUME NEW c \in Clerks, c # k
        PROVE  ClerkFits(c)'
    <2>1. \A a \in carried'[c], s \in Tags : <<a, s>> \in links /\ tag[s] = "live" => tag'[s] = "live"
      BY <1>2, <1>7
    <2> QED
      BY <1>1, <1>2, <1>3, <1>7, <2>1, TagParts, QuietRests
  <1> QED
    BY <1>3, <1>4, <1>5, <1>6, <1>7 DEF TagInv

LEMMA StartMergeKeeps ==
    ASSUME TagInv, NEW k \in Clerks, NEW sources \in SUBSET Tags, NEW t \in Tags, NEW old \in BOOLEAN,
           StartMerge(k, sources, t, old)
    PROVE  TagInv'
  <1>a. PICK step \in {"count", "source"} : step = IF sources \ {t} = {} THEN "count" ELSE "source"
    OBVIOUS
  <1> DEFINE w == [step |-> step, target |-> t, tags |-> sources, left |-> sources \ {t},
                   unmoved |-> {}, source |-> t, old |-> old, counted |-> 0]
  <1>1. /\ writes < MaxWrites /\ writes' = writes + 1 /\ t \in LiveTags
        /\ work' = [work EXCEPT ![k] = w]
        /\ carried' = [carried EXCEPT ![k] = UNION {Linked(links, s) : s \in sources \cap LiveTags}]
        /\ UNCHANGED <<database, tag, written, links, count, losses, drifted, outdated, late>>
    BY <1>a DEF StartMerge, BeginWork
  <1>2. /\ w.step = step /\ w.target = t /\ w.left = sources \ {t} /\ w.unmoved = {}
        /\ w.counted = 0 /\ w \in Works
    <2>1. 0 \in 0 .. MaxWrites
      BY TagNats
    <2> QED
      BY <2>1 DEF Merging, Works
  <1> HIDE DEF w
  <1>3. PICK arts \in SUBSET Articles : arts = UNION {Linked(links, s) : s \in sources \cap LiveTags}
    BY DEF Linked
  <1>4. /\ carried' \in [Clerks -> SUBSET Articles] /\ carried'[k] = arts
        /\ \A c \in Clerks : c # k => carried'[c] = carried[c]
    BY <1>1, <1>3, TagParts, TagsAre
  <1>5. w.step # "commit" /\ w.step # "row" /\ w.step # "store" /\ w.step # "leftover"
    BY <1>2
  <1>6. w.counted <= writes
    BY <1>2, TagParts, TagsAre, TagNats
  <1>7. TagTypes' /\ work'[k] = w /\ \A c \in Clerks : c # k => work'[c] = work[c]
    BY <1>1, <1>2, <1>4, <1>5, <1>6, TagParts, TagsAre, WorkMoves
  <1>8. CountInv' /\ LinksAreLive'
    BY <1>1, TagParts DEF CountInv, LinksAreLive, LiveTags, Linked
  <1>9. ClerkFits(k)'
    <2>1. CarryFits(k)'
      <3>1. tag'[t] # "never"
        BY <1>1 DEF LiveTags
      <3>2. \A a \in arts : Carried(k, a)'
        <4>1. ASSUME NEW a \in arts
              PROVE  <<a, t>> \in links' \/ \E s \in sources \ {t} : s \in LiveTags' /\ <<a, s>> \in links'
          <5>1. PICK s \in sources \cap LiveTags : <<a, s>> \in links
            BY <1>3 DEF Linked
          <5> QED
            BY <1>1, <5>1 DEF LiveTags
        <4> QED
          BY <1>2, <1>7, <4>1 DEF Carried
      <3>3. step = "count" => sources \ {t} = {}
        BY <1>a
      <3> QED
        BY <1>2, <1>4, <1>5, <1>7, <3>1, <3>2, <3>3 DEF CarryFits
    <2> QED
      BY <1>5, <1>7, <2>1 DEF ClerkFits, CommitFits, StoreFits, RowFits
  <1>10. \A c \in Clerks : c # k => ClerkFits(c)'
    BY <1>1, <1>4, <1>7, TagParts, QuietRests
  <1> QED
    BY <1>7, <1>8, <1>9, <1>10 DEF TagInv

(* A merge reaches a source, or leaves one behind.                           *)
LEMMA ReachWork ==
    ASSUME TagTypes, NEW k \in Clerks, NEW s \in Tags, NEW step \in {"source", "leftover", "count"},
           NEW failed \in SUBSET Tags, work[k].step \in MergeSteps, Reach(k, s, step, failed)
    PROVE  \E w \in Works :
              /\ work' = [work EXCEPT ![k] = w]
              /\ w.step = step /\ w.left = work[k].left \ {s} /\ w.source = s
              /\ w.unmoved = work[k].unmoved \cup failed
              /\ w.target = work[k].target /\ w.counted = work[k].counted
              /\ w.tags = work[k].tags /\ w.old = work[k].old
  <1>1. work[k] \in Merging /\ work \in [Clerks -> Works]
    BY TagsAre, WorkKinds
  <1> DEFINE w == [work[k] EXCEPT !.left = work[k].left \ {s}, !.source = s, !.step = step,
                                  !.unmoved = work[k].unmoved \cup failed]
  <1>2. /\ w.step = step /\ w.left = work[k].left \ {s} /\ w.source = s
        /\ w.unmoved = work[k].unmoved \cup failed
        /\ w.target = work[k].target /\ w.counted = work[k].counted
        /\ w.tags = work[k].tags /\ w.old = work[k].old
        /\ w \in Works
    BY <1>1 DEF Merging, Works
  <1>3. work' = [work EXCEPT ![k] = w]
    BY <1>1 DEF Reach
  <1> HIDE DEF w
  <1> QED
    BY <1>2, <1>3

LEMMA MergeTagsKeeps ==
    ASSUME TagInv, NEW k \in Clerks, NEW s \in Tags, MergeTags(k, s)
    PROVE  TagInv'
  <1>a. PICK t : t = work[k].target
    OBVIOUS
  <1>0. /\ work[k].step = "source" /\ s \in work[k].left
        /\ UNCHANGED <<database, tag, written, count, writes>>
    BY DEF MergeTags
  <1>b. /\ work[k].step \in MergeSteps /\ t \in Tags /\ work[k].left \subseteq Tags
        /\ work[k].unmoved \subseteq Tags
    BY <1>a, <1>0, TagParts, TagsAre, WorkKinds DEF MergeSteps
  <1>c. /\ tag[t] # "never" /\ t \notin work[k].left /\ s # t /\ t \notin work[k].unmoved
        /\ work[k].unmoved \cap work[k].left = {}
        /\ \A a \in carried[k] : Carried(k, a)
    BY <1>a, <1>0, <1>b, TagParts DEF ClerkFits, CarryFits
  <1>d. work[k].counted <= writes
    BY <1>b, TagParts, TagsAre DEF WorkFits
  <1>e. LiveTags' = LiveTags
    BY <1>0 DEF LiveTags
  <1> DEFINE next == NextSource(k, work[k].left \ {s})
  <1>1. CASE /\ database = "sqlite" /\ {s, t} \subseteq LiveTags
             /\ Link(k, Moved(s, t)) /\ drifted' = drifted \cup {s, t}
             /\ Reach(k, s, "leftover", {}) /\ UNCHANGED losses
    <2>a. PICK pairs : pairs = Moved(s, t)
      OBVIOUS
    <2>1. /\ Link(k, pairs) /\ drifted' = drifted \cup {s, t} /\ Reach(k, s, "leftover", {})
          /\ losses' = losses
      BY <1>1, <2>a
    <2>2. PICK w \in Works :
              /\ work' = [work EXCEPT ![k] = w]
              /\ w.step = "leftover" /\ w.left = work[k].left \ {s} /\ w.source = s
              /\ w.unmoved = work[k].unmoved
              /\ w.target = t /\ w.counted = work[k].counted
      <3>1. PICK none \in SUBSET Tags : none = {}
        OBVIOUS
      <3>2. Reach(k, s, "leftover", none)
        BY <2>1, <3>1
      <3>3. PICK w \in Works :
              /\ work' = [work EXCEPT ![k] = w]
              /\ w.step = "leftover" /\ w.left = work[k].left \ {s} /\ w.source = s
              /\ w.unmoved = work[k].unmoved \cup none
              /\ w.target = work[k].target /\ w.counted = work[k].counted
        BY <1>b, <3>2, TagParts, ReachWork
      <3> QED
        BY <1>a, <3>1, <3>3
    <2>3. \A a \in Articles, x \in Tags :
             /\ x # s /\ x # t => (<<a, x>> \in pairs <=> <<a, x>> \in links)
             /\ <<a, s>> \in links => <<a, t>> \in pairs
             /\ <<a, t>> \in links => <<a, t>> \in pairs
      BY <1>c, <2>a DEF Moved, Linked
    <2>4. /\ written \subseteq written' /\ written' \subseteq Articles /\ pairs \subseteq written' \X Tags
      <3>1. \A a \in Articles : <<a, s>> \in links => a \in written
        BY TagParts, TagsAre
      <3>2. PICK going : going = Linked(links, s) \ Linked(links, t)
        OBVIOUS
      <3>3. going \subseteq written
        BY <3>1, <3>2 DEF Linked
      <3>4. pairs = (links \ {<<a, s>> : a \in going}) \cup {<<a, t>> : a \in going}
        BY <2>a, <3>2 DEF Moved
      <3>5. links \subseteq written \X Tags /\ written \subseteq Articles /\ written' = written
        BY <1>0, TagParts, TagsAre
      <3> QED
        BY <1>b, <3>3, <3>4, <3>5
    <2>5. /\ links' = pairs /\ links' \subseteq written' \X Tags /\ late' \subseteq links'
          /\ outdated' \in [Clerks -> SUBSET Tags] /\ carried' \in [Clerks -> SUBSET Articles]
      BY <2>1, <2>4, TagParts, LinkTypes
    <2>6. TagTypes' /\ work'[k] = w /\ \A c \in Clerks : c # k => work'[c] = work[c]
      <3>1. drifted' \subseteq Tags
        BY <1>b, <2>1, TagParts, TagsAre
      <3> QED
        BY <1>0, <1>d, <2>1, <2>2, <2>5, <3>1, TagParts, TagsAre, WorkMoves
    <2>7. CountInv'
      <3>1. \A x \in Tags : x \notin {s, t} => Linked(links', x) = Linked(links, x)
        BY <2>3, <2>5, SameLinked
      <3> QED
        BY <1>0, <2>1, <3>1, TagParts DEF CountInv, Linked
    <2>8. LinksAreLive'
      BY <1>0, <2>1, <2>4, TagParts, LinkLive
    <2>9. ClerkFits(k)'
      <3>1. carried'[k] = carried[k] /\ carried[k] \subseteq Articles
        BY <2>1, <2>4, TagParts, TagsAre, LinkTells
      <3>2. \A a \in carried[k] : Carried(k, a)'
        <4> SUFFICES ASSUME NEW a \in carried[k]
                     PROVE  \/ <<a, t>> \in links'
                            \/ \E x \in work[k].left \ {s} : x \in LiveTags /\ <<a, x>> \in links'
                            \/ \E x \in work[k].unmoved : <<a, x>> \in links'
          BY <1>e, <2>2, <2>6 DEF Carried
        <4>1. a \in Articles /\ Carried(k, a)
          BY <1>1, <1>c, <3>1
        <4>2. \/ <<a, t>> \in links
              \/ \E x \in work[k].left : x \in LiveTags /\ <<a, x>> \in links
              \/ \E x \in work[k].unmoved : <<a, x>> \in links
          BY <1>a, <1>1, <4>1 DEF Carried
        <4>3. s \notin work[k].unmoved
          BY <1>0, <1>c
        <4> QED
          BY <1>b, <1>c, <2>3, <2>5, <4>1, <4>2, <4>3
      <3>3. CarryFits(k)'
        BY <1>0, <1>c, <2>2, <2>6, <3>1, <3>2 DEF CarryFits
      <3> QED
        BY <2>2, <2>6, <3>3 DEF ClerkFits, CommitFits, StoreFits, RowFits
    <2>10. \A c \in Clerks : c # k => ClerkFits(c)'
      BY <1>0, <2>1, <2>4, <2>6, TagParts, LinkRests
    <2> QED
      BY <2>6, <2>7, <2>8, <2>9, <2>10 DEF TagInv
  <1>2. ASSUME NEW failed \in SUBSET {s}, Reach(k, s, next, failed), failed = {} => ~ {s, t} \subseteq LiveTags,
               losses' = losses \/ MayLose, UNCHANGED <<links, tagHistory>>
        PROVE  TagInv'
    <2>a. PICK step \in {"source", "leftover", "count"} : step = NextSource(k, work[k].left \ {s})
      BY DEF NextSource
    <2>1. /\ Reach(k, s, step, failed) /\ failed \in SUBSET Tags
          /\ UNCHANGED <<links, drifted, outdated, carried, late>>
      BY <1>2, <2>a DEF tagHistory
    <2>2. PICK w \in Works :
              /\ work' = [work EXCEPT ![k] = w]
              /\ w.step = step /\ w.left = work[k].left \ {s} /\ w.source = s
              /\ w.unmoved = work[k].unmoved \cup failed
              /\ w.target = t /\ w.counted = work[k].counted
      BY <1>a, <1>b, <2>1, TagParts, ReachWork
    <2>3. step \in {"source", "count"} /\ (step = "count" => w.left = {})
      BY <2>a, <2>2 DEF NextSource
    <2>4. TagTypes' /\ work'[k] = w /\ \A c \in Clerks : c # k => work'[c] = work[c]
      BY <1>0, <1>2, <1>d, <2>1, <2>2, <2>3, TagParts, TagsAre, WorkMoves
    <2>5. CountInv' /\ LinksAreLive'
      BY <1>0, <2>1, TagParts DEF CountInv, LinksAreLive, LiveTags, Linked
    <2>6. ClerkFits(k)'
      <3>1. \A a \in carried[k] : Carried(k, a)'
        <4> SUFFICES ASSUME NEW a \in carried[k]
                     PROVE  \/ <<a, t>> \in links
                            \/ t \notin LiveTags
                            \/ \E x \in work[k].left \ {s} : x \in LiveTags /\ <<a, x>> \in links
                            \/ \E x \in work[k].unmoved \cup failed : <<a, x>> \in links
          <5>1. /\ work'[k].target = t /\ work'[k].left = work[k].left \ {s}
                /\ work'[k].unmoved = work[k].unmoved \cup failed
                /\ work'[k].step \in {"source", "leftover", "count"}
            BY <2>2, <2>3, <2>4
          <5> QED
            BY <1>e, <2>1, <5>1 DEF Carried
        <4>1. Carried(k, a)
          BY <1>c
        <4>2. s \notin LiveTags \/ t \notin LiveTags \/ s \in failed
          BY <1>2
        <4> QED
          BY <1>a, <4>1, <4>2 DEF Carried
      <3>2. CarryFits(k)'
        BY <1>0, <1>c, <2>1, <2>2, <2>3, <2>4, <3>1 DEF CarryFits
      <3> QED
        BY <2>2, <2>3, <2>4, <3>2 DEF ClerkFits, CommitFits, StoreFits, RowFits
    <2>7. \A c \in Clerks : c # k => ClerkFits(c)'
      BY <1>0, <2>1, <2>4, TagParts, QuietRests
    <2> QED
      BY <2>4, <2>5, <2>6, <2>7 DEF TagInv
  <1> HIDE DEF next
  <1>3. CASE /\ {s, t} \subseteq LiveTags
             /\ IF database = "sqlite" THEN MayLose ELSE UNCHANGED losses
             /\ Reach(k, s, next, {s}) /\ UNCHANGED <<links, tagHistory>>
    <2>1. losses' = losses \/ MayLose
      BY <1>3
    <2>2. {s} # {} /\ {s} \in SUBSET {s}
      OBVIOUS
    <2> QED
      BY <1>2, <1>3, <2>1, <2>2
  <1>4. CASE /\ ~ {s, t} \subseteq LiveTags
             /\ Reach(k, s, next, {}) /\ UNCHANGED <<links, losses, tagHistory>>
    BY <1>2, <1>4
  <1> QED
    BY <1>a, <1>1, <1>3, <1>4 DEF MergeTags, next

LEMMA DropLeftoversKeeps ==
    ASSUME TagInv, NEW k \in Clerks, DropLeftovers(k)
    PROVE  TagInv'
  <1>a. PICK t, s : t = work[k].target /\ s = work[k].source
    OBVIOUS
  <1>b. PICK pairs : pairs = {p \in links : p[2] # s}
    OBVIOUS
  <1>c. PICK step \in {"source", "leftover", "count"} : step = NextSource(k, work[k].left)
    BY DEF NextSource
  <1>0. /\ work[k].step = "leftover" /\ Reach(k, s, step, {})
        /\ UNCHANGED <<database, tag, written, count, writes>>
    BY <1>a, <1>b, <1>c DEF DropLeftovers
  <1>d. \/ Link(k, pairs) /\ drifted' = drifted \cup {s} /\ losses' = losses
        \/ MayLose /\ UNCHANGED <<links, drifted, outdated, carried, late>>
    BY <1>a, <1>b, <1>c DEF DropLeftovers, tagHistory
  <1>1. work[k].step \in MergeSteps /\ t \in Tags /\ s \in Tags /\ work[k].left \subseteq Tags /\ work[k].unmoved \subseteq Tags
    BY <1>a, <1>0, TagParts, TagsAre, WorkKinds DEF MergeSteps
  <1>2. /\ tag[t] # "never" /\ t \notin work[k].left /\ s # t /\ s \notin work[k].left
        /\ s \notin work[k].unmoved /\ t \notin work[k].unmoved /\ work[k].unmoved \cap work[k].left = {}
        /\ \A a \in carried[k] : Carried(k, a)
    BY <1>a, <1>0, <1>1, TagParts DEF ClerkFits, CarryFits
  <1>3. work[k].counted <= writes
    BY <1>1, TagParts, TagsAre DEF WorkFits
  <1>4. PICK w \in Works :
              /\ work' = [work EXCEPT ![k] = w]
              /\ w.step = step /\ w.left = work[k].left \ {s} /\ w.source = s
              /\ w.unmoved = work[k].unmoved
              /\ w.target = t /\ w.counted = work[k].counted
    <2>1. PICK none \in SUBSET Tags : none = {}
      OBVIOUS
    <2>2. Reach(k, s, step, none)
      BY <1>0, <2>1
    <2>3. PICK w \in Works :
              /\ work' = [work EXCEPT ![k] = w]
              /\ w.step = step /\ w.left = work[k].left \ {s} /\ w.source = s
              /\ w.unmoved = work[k].unmoved \cup none
              /\ w.target = work[k].target /\ w.counted = work[k].counted
      BY <1>1, <2>2, TagParts, ReachWork
    <2> QED
      BY <1>a, <2>1, <2>3
  <1>5. step \in {"source", "count"} /\ w.left = work[k].left /\ (step = "count" => w.left = {})
    BY <1>c, <1>2, <1>4 DEF NextSource
  <1>6. CASE Link(k, pairs) /\ drifted' = drifted \cup {s} /\ losses' = losses
    <2>6. /\ written \subseteq written' /\ written' \subseteq Articles /\ pairs \subseteq written' \X Tags
      BY <1>0, <1>6, <1>b, TagParts, TagsAre
    <2>7. /\ links' = pairs /\ links' \subseteq written' \X Tags /\ late' \subseteq links'
          /\ outdated' \in [Clerks -> SUBSET Tags] /\ carried' \in [Clerks -> SUBSET Articles]
      BY <1>0, <1>6, <2>6, TagParts, LinkTypes
    <2>8. TagTypes' /\ work'[k] = w /\ \A c \in Clerks : c # k => work'[c] = work[c]
      <3>1. drifted' \subseteq Tags
        BY <1>0, <1>6, <1>1, TagParts, TagsAre
      <3> QED
        BY <1>0, <1>6, <1>3, <1>4, <1>5, <2>7, <3>1, TagParts, TagsAre, WorkMoves
    <2>9. \A a \in Articles, x \in Tags : x # s => (<<a, x>> \in pairs <=> <<a, x>> \in links)
      BY <1>b
    <2>10. CountInv'
      <3>1. \A x \in Tags : x # s => Linked(links', x) = Linked(links, x)
        BY <2>7, <2>9, SameLinked
      <3> QED
        BY <1>0, <1>6, <3>1, TagParts DEF CountInv, Linked
    <2>11. LinksAreLive'
      BY <1>0, <1>6, <2>6, TagParts, LinkLive
    <2>12. ClerkFits(k)'
      <3>1. carried'[k] = carried[k] /\ carried[k] \subseteq Articles
        BY <1>0, <1>6, <2>6, TagParts, TagsAre, LinkTells
      <3>2. \A a \in carried[k] : Carried(k, a)'
        <4> SUFFICES ASSUME NEW a \in carried[k]
                     PROVE  \/ <<a, t>> \in pairs
                            \/ t \notin LiveTags
                            \/ \E x \in work[k].left : x \in LiveTags /\ <<a, x>> \in pairs
                            \/ \E x \in work[k].unmoved : <<a, x>> \in pairs
          <5>1. LiveTags' = LiveTags
            BY <1>0 DEF LiveTags
          <5>2. /\ work'[k].target = t /\ work'[k].left = work[k].left
                /\ work'[k].unmoved = work[k].unmoved /\ work'[k].step \in {"source", "leftover", "count"}
            BY <1>4, <1>5, <2>8
          <5> QED
            BY <2>7, <5>1, <5>2 DEF Carried
        <4>1. Carried(k, a) /\ a \in Articles
          BY <1>2, <3>1
        <4> QED
          BY <1>a, <1>1, <1>2, <2>9, <4>1 DEF Carried
      <3>3. CarryFits(k)'
        BY <1>0, <1>6, <1>2, <1>4, <1>5, <2>8, <3>1, <3>2 DEF CarryFits
      <3> QED
        BY <1>4, <1>5, <2>8, <3>3 DEF ClerkFits, CommitFits, StoreFits, RowFits
    <2>13. \A c \in Clerks : c # k => ClerkFits(c)'
      BY <1>0, <1>6, <2>6, <2>8, TagParts, LinkRests
    <2> QED
      BY <2>8, <2>10, <2>11, <2>12, <2>13 DEF TagInv
  <1>7. CASE MayLose /\ UNCHANGED <<links, drifted, outdated, carried, late>>
    <2>1. TagTypes' /\ work'[k] = w /\ \A c \in Clerks : c # k => work'[c] = work[c]
      BY <1>0, <1>3, <1>4, <1>5, <1>7, TagParts, TagsAre, WorkMoves
    <2>2. CountInv' /\ LinksAreLive'
      BY <1>0, <1>7, TagParts DEF CountInv, LinksAreLive, LiveTags, Linked
    <2>3. ClerkFits(k)'
      <3>1. \A a \in carried'[k] : Carried(k, a)'
        <4>1. LiveTags' = LiveTags
          BY <1>0 DEF LiveTags
        <4>2. /\ work'[k].target = t /\ work'[k].left = work[k].left /\ work'[k].unmoved = work[k].unmoved
              /\ work'[k].step \in {"source", "leftover", "count"}
          BY <1>4, <1>5, <2>1
        <4>3. \A a \in carried[k] : Carried(k, a)
          BY <1>2
        <4> QED
          BY <1>a, <1>0, <1>7, <4>1, <4>2, <4>3 DEF Carried
      <3>2. CarryFits(k)'
        BY <1>0, <1>2, <1>4, <1>5, <2>1, <3>1 DEF CarryFits
      <3> QED
        BY <1>4, <1>5, <2>1, <3>2 DEF ClerkFits, CommitFits, StoreFits, RowFits
    <2>4. \A c \in Clerks : c # k => ClerkFits(c)'
      BY <1>0, <1>7, <2>1, TagParts, QuietRests
    <2> QED
      BY <2>1, <2>2, <2>3, <2>4 DEF TagInv
  <1> QED
    BY <1>d, <1>6, <1>7

LEMMA CountLinksKeeps ==
    ASSUME TagInv, NEW k \in Clerks, CountArticleAssociations(k)
    PROVE  TagInv'
  <1>a. PICK t, n : t = work[k].target /\ n = Cardinality(Linked(links, t))
    OBVIOUS
  <1>0. /\ work[k].step = "count" /\ outdated' = [outdated EXCEPT ![k] = {}]
        /\ work' = IF t \notin LiveTags THEN [work EXCEPT ![k] = NoWork]
                   ELSE [work EXCEPT ![k].step = "store", ![k].counted = n]
        /\ UNCHANGED <<database, tag, written, links, count, writes, losses, drifted, carried, late>>
    BY <1>a DEF CountArticleAssociations, EndWork
  <1>1. /\ work[k] \in Merging /\ work[k].step \in MergeSteps /\ t \in Tags
        /\ work[k].unmoved \subseteq Tags
    BY <1>a, <1>0, TagParts, TagsAre, WorkKinds DEF MergeSteps
  <1>2. n \in 0 .. MaxWrites /\ n <= writes
    BY <1>a, <1>1, TagParts, TagsAre, LinkedFew
  <1>3. /\ outdated' \in [Clerks -> SUBSET Tags] /\ \A c \in Clerks : c # k => outdated'[c] = outdated[c]
    BY <1>0, TagParts, TagsAre
  <1>4. CountInv' /\ LinksAreLive'
    BY <1>0, TagParts DEF CountInv, LinksAreLive, LiveTags, Linked
  <1>5. CASE t \notin LiveTags
    <2>1. TagTypes' /\ work'[k] = NoWork /\ \A c \in Clerks : c # k => work'[c] = work[c]
      BY <1>0, <1>3, <1>5, StepsDiffer, TagParts, TagsAre, WorkMoves
    <2>2. ClerkFits(k)'
      BY <2>1, StepsDiffer, IdleFits
    <2>3. \A c \in Clerks : c # k => ClerkFits(c)'
      BY <1>0, <1>3, <2>1, TagParts, QuietRests
    <2> QED
      BY <1>4, <2>1, <2>2, <2>3 DEF TagInv
  <1>6. CASE t \in LiveTags
    <2> DEFINE w == [work[k] EXCEPT !.step = "store", !.counted = n]
    <2>1. /\ w.step = "store" /\ w.counted = n /\ w.target = t /\ w.left = work[k].left
          /\ w.unmoved = work[k].unmoved /\ w \in Works
      BY <1>a, <1>1, <1>2 DEF Merging, Works
    <2>2. work' = [work EXCEPT ![k] = w]
      BY <1>0, <1>6, TagParts, TagsAre
    <2> HIDE DEF w
    <2>3. TagTypes' /\ work'[k] = w /\ \A c \in Clerks : c # k => work'[c] = work[c]
      BY <1>0, <1>2, <1>3, <2>1, <2>2, StepsDiffer, TagParts, TagsAre, WorkMoves
    <2>4. ClerkFits(k)'
      <3>1. StoreFits(k)'
        <4>1. n = Cardinality(Linked(links', t))
          BY <1>a, <1>0
        <4> QED
          BY <2>1, <2>3, <4>1 DEF StoreFits, Linked
      <3>2. /\ tag[t] # "never" /\ t \notin work[k].left /\ work[k].left = {}
            /\ t \notin work[k].unmoved
            /\ \A a \in carried[k] : Carried(k, a)
        BY <1>a, <1>0, <1>1, TagParts DEF ClerkFits, CarryFits
      <3>3. \A a \in carried[k] : Carried(k, a)'
        <4> SUFFICES ASSUME NEW a \in carried[k]
                     PROVE  <<a, t>> \in links' \/ \E x \in work[k].unmoved : <<a, x>> \in links'
          BY <2>1, <2>3 DEF Carried
        <4>1. Carried(k, a)
          BY <3>2
        <4> QED
          BY <1>a, <1>0, <1>6, <3>2, <4>1 DEF Carried
      <3>4. CarryFits(k)'
        BY <1>0, <2>1, <2>3, <3>2, <3>3 DEF CarryFits
      <3> QED
        BY <2>1, <2>3, <3>1, <3>4 DEF ClerkFits, CommitFits, RowFits
    <2>5. \A c \in Clerks : c # k => ClerkFits(c)'
      BY <1>0, <1>3, <2>3, TagParts, QuietRests
    <2> QED
      BY <1>4, <2>3, <2>4, <2>5 DEF TagInv
  <1> QED
    BY <1>5, <1>6

(* A merge past its sources goes on to a later step.                         *)
LEMMA LaterWork ==
    ASSUME TagTypes, NEW k \in Clerks, NEW step \in {"old", "merged"},
           work[k].step \in MergeSteps, Enter(k, step)
    PROVE  \E w \in Works :
              /\ work' = [work EXCEPT ![k] = w]
              /\ w.step = step /\ w.left = work[k].left /\ w.unmoved = work[k].unmoved
              /\ w.target = work[k].target /\ w.counted = work[k].counted
  <1>1. work[k] \in Merging /\ work \in [Clerks -> Works]
    BY TagsAre, WorkKinds
  <1> DEFINE w == [work[k] EXCEPT !.step = step]
  <1>2. /\ w.step = step /\ w.left = work[k].left /\ w.unmoved = work[k].unmoved
        /\ w.target = work[k].target /\ w.counted = work[k].counted
        /\ w \in Works
    BY <1>1 DEF Merging, Works
  <1>3. work' = [work EXCEPT ![k] = w]
    BY <1>1 DEF Enter
  <1> HIDE DEF w
  <1> QED
    BY <1>2, <1>3

LEMMA LaterFits ==
    ASSUME TagInv, NEW k \in Clerks, work[k].step \in {"store", "old"}, NEW w \in Works,
           work'[k] = w, w.step \in {"old", "merged"}, w.left = work[k].left,
           w.unmoved = work[k].unmoved, w.target = work[k].target, UNCHANGED <<database, links>>, carried'[k] = carried[k],
           tag'[w.target] # "never"
    PROVE  ClerkFits(k)'
  <1>1. /\ work[k].target \notin work[k].left /\ work[k].left = {}
        /\ work[k].target \notin work[k].unmoved
        /\ \A a \in carried[k] : Carried(k, a)
    BY TagParts DEF ClerkFits, CarryFits, MergeSteps
  <1>2. \A a \in carried[k] : Carried(k, a)'
    BY <1>1 DEF Carried
  <1>3. CarryFits(k)'
    BY <1>1, <1>2 DEF CarryFits
  <1> QED
    BY <1>3 DEF ClerkFits, CommitFits, StoreFits, RowFits

LEMMA UpdateCountKeeps ==
    ASSUME TagInv, NEW k \in Clerks, UpdateCount(k)
    PROVE  TagInv'
  <1>a. PICK t, n : t = work[k].target /\ n = work[k].counted
    OBVIOUS
  <1>b. PICK step \in {"old", "merged"} : step = IF work[k].old THEN "old" ELSE "merged"
    OBVIOUS
  <1>0. /\ work[k].step = "store" /\ Enter(k, step)
        /\ \/ /\ count' = [count EXCEPT ![t] = n]
              /\ drifted' = IF t \in outdated[k] THEN drifted \cup {t} ELSE drifted \ {t}
           \/ UNCHANGED <<count, drifted>>
        /\ losses' = losses \/ MayLose
        /\ UNCHANGED <<database, tag, written, links, writes, outdated, carried, late>>
    BY <1>a, <1>b DEF UpdateCount
  <1>1. work[k].step \in MergeSteps /\ t \in Tags /\ n \in 0 .. MaxWrites /\ n <= writes
    <2>1. work[k].step \in MergeSteps /\ work[k] \in Works
      BY <1>0, TagParts, TagsAre DEF MergeSteps
    <2> QED
      BY <1>a, <2>1, TagParts, TagsAre, WorkKinds DEF WorkFits
  <1>2. PICK w \in Works :
              /\ work' = [work EXCEPT ![k] = w]
              /\ w.step = step /\ w.left = work[k].left /\ w.unmoved = work[k].unmoved
              /\ w.target = t /\ w.counted = n
    BY <1>a, <1>0, <1>1, TagParts, LaterWork
  <1>3. /\ count' \in [Tags -> 0 .. MaxWrites] /\ drifted' \subseteq Tags
        /\ \A s \in Tags : count'[s] <= writes
    <2>1. count \in [Tags -> 0 .. MaxWrites] /\ drifted \subseteq Tags /\ \A s \in Tags : count[s] <= writes
      BY TagParts, TagsAre
    <2>2. CASE /\ count' = [count EXCEPT ![t] = n]
               /\ drifted' = IF t \in outdated[k] THEN drifted \cup {t} ELSE drifted \ {t}
      BY <1>0, <1>1, <2>1, <2>2
    <2>3. CASE UNCHANGED <<count, drifted>>
      BY <1>0, <2>1, <2>3
    <2> QED
      BY <1>0, <2>2, <2>3
  <1>4. w.step # "commit"
    BY <1>2
  <1>5. TagTypes' /\ work'[k] = w /\ \A c \in Clerks : c # k => work'[c] = work[c]
    BY <1>0, <1>1, <1>2, <1>3, <1>4, TagParts, TagsAre, WorkMoves
  <1>6. LinksAreLive'
    BY <1>0, TagParts DEF LinksAreLive, LiveTags
  <1>7. CountInv'
    <2> SUFFICES ASSUME NEW s \in Tags
                 PROVE  count'[s] = Cardinality(Linked(links, s)) \/ s \in drifted'
      BY <1>0 DEF CountInv, Linked
    <2>1. count[s] = Cardinality(Linked(links, s)) \/ s \in drifted
      BY TagParts DEF CountInv
    <2>2. t \in outdated[k] \/ n = Cardinality(Linked(links, t))
      BY <1>a, <1>0, TagParts DEF ClerkFits, StoreFits
    <2>3. count \in [Tags -> 0 .. MaxWrites]
      BY TagParts, TagsAre
    <2>4. CASE /\ count' = [count EXCEPT ![t] = n]
               /\ drifted' = IF t \in outdated[k] THEN drifted \cup {t} ELSE drifted \ {t}
      BY <1>0, <2>1, <2>2, <2>3, <2>4
    <2>5. CASE UNCHANGED <<count, drifted>>
      BY <1>0, <2>1, <2>5
    <2> QED
      BY <1>0, <2>4, <2>5
  <1>8. ClerkFits(k)'
    <2>1. tag'[w.target] # "never"
      BY <1>a, <1>0, <1>1, <1>2, TagParts DEF ClerkFits, CarryFits
    <2> QED
      BY <1>a, <1>0, <1>2, <1>5, <2>1, LaterFits
  <1>9. \A c \in Clerks : c # k => ClerkFits(c)'
    BY <1>0, <1>5, TagParts, QuietRests
  <1> QED
    BY <1>5, <1>6, <1>7, <1>8, <1>9 DEF TagInv

LEMMA DeleteSourcesKeeps ==
    ASSUME TagInv, NEW k \in Clerks, DeleteSources(k)
    PROVE  TagInv'
  <1>a. PICK ts : ts = work[k].tags
    OBVIOUS
  <1>0. /\ work[k].step = "old" /\ Enter(k, "merged")
        /\ UNCHANGED <<database, written, links, count, writes, drifted, outdated>>
    BY <1>a DEF DeleteSources
  <1>b. \/ /\ Remove(k, ts) /\ late' = late \cup {p \in links : p[2] \in ts} /\ UNCHANGED losses
        \/ MayLose /\ UNCHANGED <<tag, carried, late>>
    BY <1>a DEF DeleteSources
  <1>1. work[k].step \in MergeSteps /\ work[k].target \in Tags /\ work[k].counted <= writes
    <2>1. work[k].step \in MergeSteps /\ work[k] \in Works
      BY <1>0, TagParts, TagsAre DEF MergeSteps
    <2> QED
      BY <2>1, TagParts, TagsAre, WorkKinds DEF WorkFits
  <1>2. PICK w \in Works :
              /\ work' = [work EXCEPT ![k] = w]
              /\ w.step = "merged" /\ w.left = work[k].left /\ w.unmoved = work[k].unmoved
              /\ w.target = work[k].target /\ w.counted = work[k].counted
    BY <1>0, <1>1, TagParts, LaterWork
  <1>3. CASE Remove(k, ts) /\ late' = late \cup {p \in links : p[2] \in ts} /\ UNCHANGED losses
    <2>3.    /\ tag' \in [Tags -> {"never", "live", "deleted"}]
             /\ carried' \in [Clerks -> SUBSET Articles] /\ carried'[k] = carried[k]
             /\ \A s \in Tags : (tag[s] # "never" => tag'[s] # "never")
                                /\ (tag[s] = "deleted" => tag'[s] = "deleted")
             /\ \A s \in Tags : s \notin ts => tag'[s] = tag[s]
             /\ \A c \in Clerks : c # k =>
                   /\ carried'[c] \subseteq carried[c]
                   /\ \A a \in carried'[c], s \in Tags : <<a, s>> \in links => s \notin ts
      BY <1>0, <1>3, TagParts, RemoveTells
    <2>4. late' \subseteq links' /\ late \subseteq late'
      BY <1>0, <1>3, TagParts, TagsAre
    <2>5. TagTypes' /\ work'[k] = w /\ \A c \in Clerks : c # k => work'[c] = work[c]
      BY <1>0, <1>1, <1>2, <1>3, <2>3, <2>4, TagParts, TagsAre, WorkMoves
    <2>6. CountInv'
      BY <1>0, TagParts DEF CountInv, Linked
    <2>7. LinksAreLive'
      <3> SUFFICES ASSUME NEW p \in links
                   PROVE  p[2] \in LiveTags' \/ p \in late'
        BY <1>0 DEF LinksAreLive
      <3>1. p[2] \in Tags
        BY TagParts, TagsAre
      <3>2. CASE p[2] \in ts
        BY <1>0, <1>3, <3>2
      <3>3. CASE p[2] \notin ts
        <4>1. tag'[p[2]] = tag[p[2]]
          BY <2>3, <3>1, <3>3
        <4> QED
          BY <2>4, <3>1, <4>1, TagParts DEF LinksAreLive, LiveTags
      <3> QED
        BY <3>2, <3>3
    <2>8. ClerkFits(k)'
      <3>1. tag'[w.target] # "never"
        BY <1>1, <1>2, <2>3, TagParts DEF ClerkFits, CarryFits
      <3> QED
        BY <1>0, <1>2, <2>3, <2>5, <3>1, LaterFits
    <2>9. ASSUME NEW c \in Clerks, c # k
          PROVE  ClerkFits(c)'
      <3>1. \A a \in carried'[c], s \in Tags : <<a, s>> \in links /\ tag[s] = "live" => tag'[s] = "live"
        BY <2>3, <2>9
      <3> QED
        BY <1>0, <2>3, <2>4, <2>5, <2>9, <3>1, TagParts, QuietRests
    <2> QED
      BY <2>5, <2>6, <2>7, <2>8, <2>9 DEF TagInv
  <1>4. CASE MayLose /\ UNCHANGED <<tag, carried, late>>
    <2>1. TagTypes' /\ work'[k] = w /\ \A c \in Clerks : c # k => work'[c] = work[c]
      BY <1>0, <1>1, <1>2, <1>4, TagParts, TagsAre, WorkMoves
    <2>2. CountInv' /\ LinksAreLive'
      BY <1>0, <1>4, TagParts DEF CountInv, LinksAreLive, LiveTags, Linked
    <2>3. ClerkFits(k)'
      <3>1. tag'[w.target] # "never"
        BY <1>1, <1>2, <1>4, TagParts DEF ClerkFits, CarryFits
      <3> QED
        BY <1>0, <1>2, <1>4, <2>1, <3>1, LaterFits
    <2>4. \A c \in Clerks : c # k => ClerkFits(c)'
      BY <1>0, <1>4, <2>1, TagParts, QuietRests
    <2> QED
      BY <2>1, <2>2, <2>3, <2>4 DEF TagInv
  <1> QED
    BY <1>b, <1>3, <1>4

LEMMA WorkEndKeeps ==
    ASSUME TagInv, NEW k \in Clerks, MergeAnswered(k) \/ Dies(k)
    PROVE  TagInv'
  <1>1. /\ work' = [work EXCEPT ![k] = NoWork] /\ carried' = [carried EXCEPT ![k] = {}]
        /\ losses' = losses \/ MayLose
        /\ UNCHANGED <<database, tag, written, links, count, writes, drifted, outdated, late>>
    BY DEF MergeAnswered, Dies, EndWork
  <1>2. carried' \in [Clerks -> SUBSET Articles] /\ \A c \in Clerks : c # k => carried'[c] = carried[c]
    BY <1>1, TagParts, TagsAre
  <1>3. TagTypes' /\ work'[k] = NoWork /\ \A c \in Clerks : c # k => work'[c] = work[c]
    BY <1>1, <1>2, StepsDiffer, TagParts, TagsAre, WorkMoves
  <1>4. CountInv' /\ LinksAreLive'
    BY <1>1, TagParts DEF CountInv, LinksAreLive, LiveTags, Linked
  <1>5. ClerkFits(k)'
    BY <1>3, StepsDiffer, IdleFits
  <1>6. \A c \in Clerks : c # k => ClerkFits(c)'
    BY <1>1, <1>2, <1>3, TagParts, QuietRests
  <1> QED
    BY <1>3, <1>4, <1>5, <1>6 DEF TagInv

LEMMA TagStep ==
    ASSUME TagInv, TagsNext
    PROVE  TagInv'
  <1>1. CASE \E t \in Tags : CreateTag(t)
    BY <1>1, CreateTagKeeps
  <1>2. CASE \E a \in Articles, ids \in SUBSET Tags : CreateArticle(a, ids)
    BY <1>2, CreateArticleKeeps
  <1>3. ASSUME NEW k \in Clerks, \E a \in Articles, ids \in SUBSET Tags : UpdateArticle(k, a, ids)
        PROVE  TagInv'
    BY <1>3, UpdateArticleKeeps
  <1>4. ASSUME NEW k \in Clerks, \E t \in Tags : ClearArticleAssociations(k, t) \/ MergeTags(k, t)
        PROVE  TagInv'
    BY <1>4, ClearKeeps, MergeTagsKeeps
  <1>5. ASSUME NEW k \in Clerks, \E sources \in SUBSET Tags \ {{}}, t \in Tags, old \in BOOLEAN :
                                    StartMerge(k, sources, t, old)
        PROVE  TagInv'
    BY <1>5, StartMergeKeeps
  <1>6. ASSUME NEW k \in Clerks,
               \/ CommitUpdate(k) \/ DeleteTag(k) \/ DropLeftovers(k) \/ CountArticleAssociations(k)
               \/ UpdateCount(k) \/ DeleteSources(k) \/ MergeAnswered(k) \/ Dies(k)
        PROVE  TagInv'
    BY <1>6, CommitUpdateKeeps, DeleteTagKeeps, DropLeftoversKeeps, CountLinksKeeps,
       UpdateCountKeeps, DeleteSourcesKeeps, WorkEndKeeps
  <1> QED
    BY <1>1, <1>2, <1>3, <1>4, <1>5, <1>6 DEF TagsNext

LEMMA TagsStart ==
    ASSUME TagsInit
    PROVE  TagInv
  <1>1. /\ database \in Databases /\ tag = [t \in Tags |-> "never"] /\ written = {} /\ links = {}
        /\ count = [t \in Tags |-> 0] /\ work = [k \in Clerks |-> NoWork]
        /\ writes = 0 /\ losses = 0 /\ drifted = {} /\ late = {}
        /\ outdated = [k \in Clerks |-> {}] /\ carried = [k \in Clerks |-> {}]
    BY DEF TagsInit
  <1>2. \A k \in Clerks : work[k] = NoWork
    BY <1>1
  <1>3. \A t \in Tags : Linked(links, t) = {}
    BY <1>1 DEF Linked
  <1>4. TagTypes
    <2>1. IsFiniteSet(written) /\ Cardinality(written) <= writes
      BY <1>1, FS_EmptySet
    <2>2. WorkFits
      BY <1>2, StepsDiffer DEF WorkFits
    <2>3. work \in [Clerks -> Works] /\ \A t \in Tags : count[t] <= writes
      BY <1>1, StepsDiffer
    <2>4. writes \in 0 .. MaxWrites /\ losses \in 0 .. MaxLosses /\ count \in [Tags -> 0 .. MaxWrites]
      BY <1>1, TagNats
    <2>5. TagsTypeOK
      BY <1>1, <2>4 DEF TagsTypeOK
    <2> QED
      BY <2>1, <2>2, <2>3, <2>5 DEF TagTypes
  <1>5. CountInv /\ LinksAreLive
    BY <1>1, <1>3, FS_EmptySet DEF CountInv, LinksAreLive
  <1>6. \A k \in Clerks : ClerkFits(k)
    <2>1. \A k \in Clerks : work[k].step \notin MergeSteps \cup {"commit", "row"}
      BY <1>2, StepsDiffer
    <2>2. "store" \in MergeSteps
      BY DEF MergeSteps
    <2> QED
      BY <2>1, <2>2 DEF ClerkFits, CommitFits, StoreFits, RowFits, CarryFits
  <1> QED
    BY <1>4, <1>5, <1>6 DEF TagInv

LEMMA TagsForm ==
    ASSUME TagInv
    PROVE  TagsTypeOK /\ TagsHold
  <1>1. CountsMatchLinks
    BY TagParts DEF CountInv, CountsMatchLinks, LiveTags
  <1>2. MergeCarries
    <2> SUFFICES ASSUME NEW k \in Clerks, work[k].step = "merged",
                        NEW a \in carried[k]
                 PROVE  \/ <<a, work[k].target>> \in links
                        \/ \E s \in work[k].unmoved : <<a, s>> \in links
      BY DEF MergeCarries
    <2>1. work[k].left = {} /\ Carried(k, a)
      BY TagParts DEF ClerkFits, CarryFits, MergeSteps
    <2> QED
      BY <2>1 DEF Carried
  <1> QED
    BY <1>1, <1>2, TagParts DEF TagsHold, TagTypes

LEMMA TagsRest ==
    ASSUME TagInv, UNCHANGED tagVars
    PROVE  TagInv'
  <1>1. UNCHANGED <<database, tag, written, links, count, work, writes, losses, drifted, outdated,
                    carried, late>>
    BY DEF tagVars, tagHistory
  <1>2. TagTypes'
    <2>1. WorkFits'
      BY <1>1, TagParts, TagsAre DEF WorkFits
    <2> QED
      BY <1>1, <2>1, TagParts, TagsAre, TagTypesFrom
  <1>3. CountInv' /\ LinksAreLive'
    BY <1>1, TagParts DEF CountInv, LinksAreLive, LiveTags, Linked
  <1>4. \A c \in Clerks : ClerkFits(c)'
    BY <1>1, TagParts, QuietRests
  <1> QED
    BY <1>2, <1>3, <1>4 DEF TagInv

---------------------------------------------------------------------------------
(* Categories.                                                               *)

(* Sets that a step takes one from the other.                                *)
Iterates(f, A, G, N) == f[0] = A /\ \A n \in 1 .. N : f[n] = G[f[n - 1]]
Steps(U)      == [SUBSET U -> SUBSET U]
Grows(G, U)   == \A X \in SUBSET U : X \subseteq G[X]
Sets(N, U)    == [0 .. N -> SUBSET U]
Follows(g, A, G, N, U) ==
    g[0] = A /\ \A n \in 1 .. N : g[n - 1] \in SUBSET U => g[n] = G[g[n - 1]]

(* Iterates of a step on sets exist, and ... *)
LEMMA IteratesExist ==
    ASSUME NEW U, NEW A \in SUBSET U, NEW G \in Steps(U), NEW N \in Nat
    PROVE  \E f \in Sets(N, U) : Iterates(f, A, G, N)
  <1> USE DEF Steps, Sets, Iterates
  <1> DEFINE Good(k) == \E f \in [0 .. k -> SUBSET U] :
                           f[0] = A /\ \A n \in 1 .. k : f[n] = G[f[n - 1]]
             Bad == {k \in Nat : ~ Good(k)}
  <1>1. Bad = {}
    <2> SUFFICES ASSUME Bad # {}
                 PROVE  FALSE
      OBVIOUS
    <2>1. PICK k \in Bad : \A m \in Bad : k <= m
      BY LeastNumber
    <2>2. Good(0)
      <3> DEFINE f == [n \in 0 .. 0 |-> A]
      <3>1. f \in [0 .. 0 -> SUBSET U] /\ f[0] = A /\ 1 .. 0 = {}
        OBVIOUS
      <3> HIDE DEF f
      <3>2. \A n \in 1 .. 0 : f[n] = G[f[n - 1]]
        BY <3>1
      <3> QED
        BY <3>1, <3>2
    <2>3. k # 0 /\ Good(k - 1)
      <3> HIDE DEF Good
      <3>1. k \in Nat /\ ~ Good(k)
        OBVIOUS
      <3>2. k # 0 /\ k - 1 \in Nat
        BY <2>2, <3>1
      <3>3. k - 1 \notin Bad
        BY <2>1, <3>1
      <3> QED
        BY <3>2, <3>3
    <2>4. PICK f \in [0 .. k - 1 -> SUBSET U] :
             f[0] = A /\ \A n \in 1 .. k - 1 : f[n] = G[f[n - 1]]
      BY <2>3
    <2> DEFINE g == [n \in 0 .. k |-> IF n = k THEN G[f[k - 1]] ELSE f[n]]
    <2>5. k \in Nat /\ k - 1 \in 0 .. k - 1
      BY <2>1, <2>3
    <2>6. g \in [0 .. k -> SUBSET U] /\ g[0] = A
      BY <2>3, <2>4, <2>5
    <2>7. \A n \in 1 .. k : g[n] = G[g[n - 1]]
      BY <2>4, <2>5
    <2>8. Good(k)
      BY <2>6, <2>7
    <2> QED
      BY <2>1, <2>8
  <1> QED
    BY <1>1

(* What is stepped from often enough, stays. *)
LEMMA IteratesSettle ==
    ASSUME NEW U, IsFiniteSet(U), NEW N \in Nat, Cardinality(U) <= N,
           NEW A, NEW G \in Steps(U), Grows(G, U), NEW f \in Sets(N, U), Iterates(f, A, G, N)
    PROVE  G[f[N]] = f[N] /\ A \subseteq f[N]
  <1> USE DEF Steps, Sets, Iterates, Grows
  <1> DEFINE Good(k) == f[0] \subseteq f[k] /\ (G[f[k]] = f[k] \/ Cardinality(f[k]) >= k)
             Bad == {k \in 0 .. N : ~ Good(k)}
  <1>1. \A n \in 0 .. N : IsFiniteSet(f[n]) /\ Cardinality(f[n]) \in Nat
    BY FS_Subset, FS_CardinalityType
  <1>2. Bad = {}
    <2> SUFFICES ASSUME Bad # {}
                 PROVE  FALSE
      OBVIOUS
    <2>1. PICK k \in Bad : \A m \in Bad : k <= m
      <3>1. Bad \subseteq Nat
        OBVIOUS
      <3> HIDE DEF Bad
      <3> QED
        BY <3>1, LeastNumber
    <2>2. Good(0)
      BY <1>1
    <2>3. k # 0 /\ k - 1 \in 0 .. N /\ Good(k - 1) /\ k \in 1 .. N
      BY <2>1, <2>2
    <2>4. f[k] = G[f[k - 1]] /\ f[k - 1] \subseteq f[k] /\ f[0] \subseteq f[k]
      BY <2>3
    <2>5. CASE f[k] = f[k - 1]
      BY <2>1, <2>4, <2>5
    <2>6. CASE f[k] # f[k - 1]
      <3>1. PICK y \in f[k] : y \notin f[k - 1]
        BY <2>4, <2>6
      <3>2. Cardinality(f[k - 1] \cup {y}) = Cardinality(f[k - 1]) + 1
        <4>1. IsFiniteSet(f[k - 1])
          BY <1>1, <2>3
        <4> QED
          BY <3>1, <4>1, FS_AddElement
      <3>3. f[k - 1] \cup {y} \subseteq f[k] /\ IsFiniteSet(f[k])
        BY <1>1, <2>3, <2>4, <3>1
      <3>4. Cardinality(f[k - 1] \cup {y}) <= Cardinality(f[k])
        BY <3>3, FS_Subset
      <3>5. Cardinality(f[k - 1]) >= k - 1
        BY <2>3, <2>4, <2>6
      <3>6. Cardinality(f[k]) >= k
        BY <1>1, <2>3, <3>2, <3>4, <3>5
      <3> QED
        BY <2>1, <2>4, <3>6
    <2> QED
      BY <2>5, <2>6
  <1>3. Good(N)
    BY <1>2
  <1>4. CASE Cardinality(f[N]) >= N
    <2>1. Cardinality(U) \in Nat /\ Cardinality(f[N]) <= Cardinality(U)
      BY FS_CardinalityType, FS_Subset
    <2>2. Cardinality(f[N]) = Cardinality(U)
      BY <1>1, <1>4, <2>1
    <2>3. f[N] = U
      <3>1. f[N] \in SUBSET U
        OBVIOUS
      <3> QED
        BY <2>2, <3>1, FS_Subset
    <2>4. G[U] = U
      <3>1. U \in SUBSET U
        OBVIOUS
      <3>2. U \subseteq G[U] /\ G[U] \in SUBSET U
        BY <3>1
      <3> QED
        BY <3>2
    <2> QED
      BY <1>3, <2>3, <2>4
  <1> QED
    BY <1>3, <1>4

(* A sequence that steps like the iterates is the iterates.                  *)
LEMMA IteratesAgree ==
    ASSUME NEW U, NEW A, NEW G \in Steps(U), NEW N \in Nat, NEW f \in Sets(N, U),
           Iterates(f, A, G, N), NEW g, Follows(g, A, G, N, U)
    PROVE  g[N] = f[N]
  <1> USE DEF Steps, Sets, Iterates, Follows
  <1> DEFINE Bad == {k \in 0 .. N : g[k] # f[k]}
  <1>1. Bad = {}
    <2> SUFFICES ASSUME Bad # {}
                 PROVE  FALSE
      OBVIOUS
    <2>1. PICK k \in Bad : \A m \in Bad : k <= m
      <3>1. Bad \subseteq Nat
        OBVIOUS
      <3> HIDE DEF Bad
      <3> QED
        BY <3>1, LeastNumber
    <2>2. k \in 0 .. N /\ k # 0 /\ k - 1 \in 0 .. N /\ k \in 1 .. N
      OBVIOUS
    <2>3. g[k - 1] = f[k - 1]
      BY <2>1, <2>2
    <2>4. f[k] = G[f[k - 1]] /\ g[k] = G[f[k - 1]]
      BY <2>2, <2>3
    <2> QED
      BY <2>2, <2>4
  <1> QED
    BY <1>1

(* Stepping as often as a set has members leads from A to a set that holds A *)
(* and steps to itself: the chains and the tree of categories are such sets. *)
LEMMA Closes ==
    ASSUME NEW U, IsFiniteSet(U), NEW N \in Nat, Cardinality(U) <= N,
           NEW A \in SUBSET U, NEW G \in Steps(U), Grows(G, U)
    PROVE  \E f \in Sets(N, U) :
              /\ Iterates(f, A, G, N) /\ f[N] \in SUBSET U
              /\ A \subseteq f[N] /\ G[f[N]] = f[N]
              /\ \A g : Follows(g, A, G, N, U) => g[N] = f[N]
  <1>1. PICK f \in Sets(N, U) : Iterates(f, A, G, N)
    BY IteratesExist
  <1>2. A \subseteq f[N] /\ G[f[N]] = f[N]
    BY <1>1, IteratesSettle
  <1>3. ASSUME NEW g, Follows(g, A, G, N, U)
        PROVE  g[N] = f[N]
    BY <1>1, <1>3, IteratesAgree
  <1>4. f[N] \in SUBSET U
    BY DEF Sets
  <1> QED
    BY <1>1, <1>2, <1>3, <1>4

LEMMA TreeNats == MaxCats \in Nat /\ MaxOrders \in Nat /\ MaxSlips \in Nat
  BY TreeBounds

LEMMA CatsFew == IsFiniteSet(Cats) /\ Cardinality(Cats) = MaxCats
  BY TreeNats, FS_Interval DEF Cats

Placed == under \in [Cats \cup Pieces -> Cats \cup {Root}]

(* What a category is under is in its chain, to the top.                     *)
LEMMA ChainClosed ==
    ASSUME Placed, NEW x \in Cats
    PROVE  /\ x \in Chain(x) /\ Chain(x) \subseteq Cats
           /\ \A y \in Chain(x) : under[y] \in Chain(x) \cup {Root}
  <1> DEFINE A == {x}
             G == [S \in SUBSET Cats |-> S \cup ({under[y] : y \in S} \ {Root})]
  <1>1. G \in Steps(Cats) /\ Grows(G, Cats)
    BY DEF Placed, Steps, Grows
  <1>2. \A S \in SUBSET Cats : G[S] = S \cup ({under[y] : y \in S} \ {Root})
    OBVIOUS
  <1>3. A \in SUBSET Cats /\ x \in A
    OBVIOUS
  <1> HIDE DEF G, A
  <1>4. MaxCats \in Nat /\ IsFiniteSet(Cats) /\ Cardinality(Cats) <= MaxCats
    BY TreeNats, CatsFew
  <1>5. PICK f \in Sets(MaxCats, Cats) :
              /\ Iterates(f, A, G, MaxCats) /\ f[MaxCats] \in SUBSET Cats
              /\ A \subseteq f[MaxCats] /\ G[f[MaxCats]] = f[MaxCats]
              /\ \A g : Follows(g, A, G, MaxCats, Cats) => g[MaxCats] = f[MaxCats]
    BY <1>1, <1>3, <1>4, Closes
  <1>6. f = [n \in 0 .. MaxCats |->
               IF n = 0 THEN A ELSE f[n - 1] \cup ({under[y] : y \in f[n - 1]} \ {Root})]
    <2>1. f \in [0 .. MaxCats -> SUBSET Cats] /\ f[0] = A
          /\ \A n \in 1 .. MaxCats : f[n] = G[f[n - 1]]
      BY <1>5 DEF Sets, Iterates
    <2>2. \A n \in 1 .. MaxCats : f[n - 1] \in SUBSET Cats
      BY <1>4, <2>1
    <2>3. \A n \in 1 .. MaxCats : f[n] = f[n - 1] \cup ({under[y] : y \in f[n - 1]} \ {Root})
      BY <1>2, <2>1, <2>2
    <2>4. \A n \in 0 .. MaxCats :
             f[n] = IF n = 0 THEN A ELSE f[n - 1] \cup ({under[y] : y \in f[n - 1]} \ {Root})
      BY <1>4, <2>1, <2>3
    <2> QED
      BY <2>1, <2>4
  <1> DEFINE up == CHOOSE g : g = [n \in 0 .. MaxCats |->
               IF n = 0 THEN A ELSE g[n - 1] \cup ({under[y] : y \in g[n - 1]} \ {Root})]
  <1>7. Chain(x) = up[MaxCats]
    BY DEF Chain, Root, A
  <1>8. up = [n \in 0 .. MaxCats |->
               IF n = 0 THEN A ELSE up[n - 1] \cup ({under[y] : y \in up[n - 1]} \ {Root})]
    BY <1>6
  <1> HIDE DEF up
  <1>9. Follows(up, A, G, MaxCats, Cats)
    <2>1. up[0] = A /\ \A n \in 1 .. MaxCats :
             up[n] = up[n - 1] \cup ({under[y] : y \in up[n - 1]} \ {Root})
      BY <1>8, <1>4
    <2> QED
      BY <1>2, <2>1 DEF Follows
  <1>10. Chain(x) = f[MaxCats]
    BY <1>5, <1>7, <1>9
  <1>11. x \in Chain(x) /\ Chain(x) \in SUBSET Cats
    BY <1>3, <1>5, <1>10
  <1>12. Chain(x) = Chain(x) \cup ({under[y] : y \in Chain(x)} \ {Root})
    BY <1>2, <1>5, <1>10
  <1> QED
    BY <1>11, <1>12

(* The roots are in the tree, and the children of what is in it.             *)
LEMMA TreeClosed ==
    ASSUME Placed
    PROVE  \A c \in Live : under[c] \in BuildCategoryTree \cup {Root} => c \in BuildCategoryTree
  <1> DEFINE A == {c \in Live : under[c] = Root}
             G == [S \in SUBSET Cats |-> S \cup {c \in Live : under[c] \in S}]
  <1>1. G \in Steps(Cats) /\ Grows(G, Cats)
    BY DEF Live, Steps, Grows
  <1>2. \A S \in SUBSET Cats : G[S] = S \cup {c \in Live : under[c] \in S}
    OBVIOUS
  <1>3. A \in SUBSET Cats /\ \A c \in Live : under[c] = Root => c \in A
    BY DEF Live
  <1> HIDE DEF G, A
  <1>4. MaxCats \in Nat /\ IsFiniteSet(Cats) /\ Cardinality(Cats) <= MaxCats
    BY TreeNats, CatsFew
  <1>5. PICK f \in Sets(MaxCats, Cats) :
              /\ Iterates(f, A, G, MaxCats) /\ f[MaxCats] \in SUBSET Cats
              /\ A \subseteq f[MaxCats] /\ G[f[MaxCats]] = f[MaxCats]
              /\ \A g : Follows(g, A, G, MaxCats, Cats) => g[MaxCats] = f[MaxCats]
    BY <1>1, <1>3, <1>4, Closes
  <1>6. f = [n \in 0 .. MaxCats |->
               IF n = 0 THEN A ELSE f[n - 1] \cup {c \in Live : under[c] \in f[n - 1]}]
    <2>1. f \in [0 .. MaxCats -> SUBSET Cats] /\ f[0] = A
          /\ \A n \in 1 .. MaxCats : f[n] = G[f[n - 1]]
      BY <1>5 DEF Sets, Iterates
    <2>2. \A n \in 1 .. MaxCats : f[n - 1] \in SUBSET Cats
      BY <1>4, <2>1
    <2>3. \A n \in 1 .. MaxCats : f[n] = f[n - 1] \cup {c \in Live : under[c] \in f[n - 1]}
      BY <1>2, <2>1, <2>2
    <2>4. \A n \in 0 .. MaxCats :
             f[n] = IF n = 0 THEN A ELSE f[n - 1] \cup {c \in Live : under[c] \in f[n - 1]}
      BY <1>4, <2>1, <2>3
    <2> QED
      BY <2>1, <2>4
  <1> DEFINE up == CHOOSE g : g = [n \in 0 .. MaxCats |->
               IF n = 0 THEN A ELSE g[n - 1] \cup {c \in Live : under[c] \in g[n - 1]}]
  <1>7. BuildCategoryTree = up[MaxCats]
    BY DEF BuildCategoryTree, Root, A
  <1>8. up = [n \in 0 .. MaxCats |->
               IF n = 0 THEN A ELSE up[n - 1] \cup {c \in Live : under[c] \in up[n - 1]}]
    BY <1>6
  <1> HIDE DEF up
  <1>9. Follows(up, A, G, MaxCats, Cats)
    <2>1. up[0] = A /\ \A n \in 1 .. MaxCats :
             up[n] = up[n - 1] \cup {c \in Live : under[c] \in up[n - 1]}
      BY <1>8, <1>4
    <2> QED
      BY <1>2, <2>1 DEF Follows
  <1>10. BuildCategoryTree = f[MaxCats]
    BY <1>5, <1>7, <1>9
  <1>11. A \subseteq BuildCategoryTree /\ BuildCategoryTree \in SUBSET Cats
    BY <1>5, <1>10
  <1>12. BuildCategoryTree = BuildCategoryTree \cup {c \in Live : under[c] \in BuildCategoryTree}
    BY <1>2, <1>5, <1>10
  <1> QED
    BY <1>3, <1>11, <1>12

(* What a request is at, whatever the rows are.                              *)
OrderShape(o) ==
    /\ o.op = "delete" => /\ o.step \in {"articles", "children", "row"}
                          /\ o.moves[1].id \in Cats
    /\ o.op # "delete" => o.step \in {"write", "refused"}
    /\ o.op = "reorder" => o.step = "write" /\ o.moves # <<>>
    /\ o.op # "reorder" => o.moves \in [1 .. 1 -> Moves]
    /\ o.op = "update" => o.moves[1].id \in Cats
    /\ o.op = "create" => o.slug # Kept
    /\ o.step = "refused" => o.slug # Kept

(* The slugs are given out in turn, so the row is known by its slug; a slug  *)
(* found free was free among the rows before the one it is for.              *)
OrderFits(o) ==
    /\ o.op \in {"update", "delete"} => o.moves[1].id \in Rows
    /\ o.op \in {"create", "update"} /\ o.slug # Kept => o.holders = {}
    /\ o.op = "create" => \A d \in Cats : d <= o.slug => d \in Rows
    /\ o.op = "update" /\ o.slug # Kept => o.slug < o.moves[1].id
    /\ o.step = "refused" => o.slug + 1 \in Rows

TreeTypes ==
    /\ TreeTypeOK
    /\ order \in [Editors -> Orders \cup {NoOrder}]
    /\ \A e \in Editors : order[e] # NoOrder => OrderShape(order[e])

RowsInTurn == \A c \in Rows : category[c].slug = c - 1 /\ \A d \in Cats : d < c => d \in Rows

OrdersFit == \A e \in Editors : order[e] # NoOrder => OrderFits(order[e])

ParentsAreLive == \A c \in Live : under[c] \in Live \cup {Root} \/ c \in strays

(* A deletion that is past a category's rows has left none of them in it.    *)
DealtAreStrays == \A x \in Live \cup Pieces : DealtWith(under[x], x) => x \in strays

(* No categories but strays are all under one another.                       *)
NoTrap == \A S \in SUBSET (Cats \ strays) : S # {} => \E c \in S : under[c] \notin S

TreeInv ==
    /\ TreeTypes /\ RowsInTurn /\ OrdersFit
    /\ ParentsAreLive /\ RefsAreLive /\ DealtAreStrays /\ NoTrap

LEMMA TreeAre ==
    ASSUME TreeTypes
    PROVE  /\ category \in [Cats -> [state : {"never", "live", "deleted"}, slug : Slugs]]
           /\ Placed
           /\ order \in [Editors -> Orders \cup {NoOrder}]
           /\ orders \in 0 .. MaxOrders /\ slips \in 0 .. MaxSlips
           /\ strays \subseteq Cats \cup Pieces
           /\ \A e \in Editors : order[e] # NoOrder => OrderShape(order[e])
  BY DEF TreeTypes, TreeTypeOK, Placed

LEMMA TreeTypesFrom ==
    ASSUME category' \in [Cats -> [state : {"never", "live", "deleted"}, slug : Slugs]],
           Placed', order' \in [Editors -> Orders \cup {NoOrder}],
           orders' \in 0 .. MaxOrders, slips' \in 0 .. MaxSlips,
           strays' \subseteq Cats \cup Pieces,
           \A e \in Editors : order'[e] # NoOrder => OrderShape(order'[e])
    PROVE  TreeTypes'
  <1>1. \A e \in Editors : order'[e] = NoOrder \/ order'[e] \in Orders
    OBVIOUS
  <1>2. (\A e \in Editors : order[e] # NoOrder => OrderShape(order[e]))'
    OBVIOUS
  <1> QED
    BY <1>1, <1>2 DEF TreeTypes, TreeTypeOK, Placed

LEMMA PiecesApart == Pieces \cap Cats = {} /\ Root \notin Cats /\ Root \notin Pieces
  BY TreeBounds DEF Cats, Root

LEMMA OrderFields ==
    ASSUME NEW o \in Orders
    PROVE  /\ o # NoOrder /\ o.step # "idle"
           /\ o.op \in {"create", "update", "reorder", "delete"}
           /\ o.step \in {"write", "articles", "children", "row", "refused"}
           /\ o.slug \in Slugs \cup {Kept} /\ o.holders \in SUBSET Cats
           /\ o.moves \in {<<>>} \cup [1 .. 1 -> Moves] \cup [1 .. 2 -> Moves]
  <1>1. /\ o.op \in {"create", "update", "reorder", "delete"}
        /\ o.step \in {"write", "articles", "children", "row", "refused"}
        /\ o.slug \in Slugs \cup {Kept} /\ o.holders \in SUBSET Cats
        /\ o.moves \in {<<>>} \cup [1 .. 1 -> Moves] \cup [1 .. 2 -> Moves]
    BY DEF Orders
  <1>2. NoOrder.step = "idle"
    BY DEF NoOrder
  <1> QED
    BY <1>1, <1>2

LEMMA OneMove ==
    ASSUME NEW o \in Orders, o.op # "reorder", OrderShape(o)
    PROVE  /\ o.moves[1] \in Moves
           /\ o.moves[1].id \in Cats \cup {Root} /\ o.moves[1].parent \in Cats \cup {Root}
  <1>1. o.moves \in [1 .. 1 -> Moves]
    BY DEF OrderShape
  <1>2. o.moves[1] \in Moves
    BY <1>1
  <1> QED
    BY <1>2 DEF Moves

(* What the request of e is.                                                 *)
LEMMA OrderIs ==
    ASSUME TreeTypes, OrdersFit, NEW e \in Editors, order[e].step # "idle" \/ order[e] # NoOrder
    PROVE  \E o \in Orders : order[e] = o /\ OrderShape(o) /\ OrderFits(o)
  <1>1. NoOrder.step = "idle"
    BY DEF NoOrder
  <1>2. order[e] # NoOrder /\ order[e] \in Orders
    BY <1>1, TreeAre
  <1>3. OrderShape(order[e]) /\ OrderFits(order[e])
    BY <1>2, TreeAre DEF OrdersFit
  <1> QED
    BY <1>2, <1>3

(* An order at its next step.                                                *)
LEMMA NextStep ==
    ASSUME TreeTypes, NEW e \in Editors, NEW o \in Orders, order[e] = o, NEW s,
           s \in {"write", "articles", "children", "row", "refused"}, Step(e, s)
    PROVE  \E w \in Orders : /\ order' = [order EXCEPT ![e] = w]
                             /\ w.op = o.op /\ w.step = s /\ w.slug = o.slug
                             /\ w.holders = o.holders /\ w.moves = o.moves
  <1> DEFINE w == [o EXCEPT !.step = s]
  <1>1. w \in Orders
    BY DEF Orders
  <1>2. /\ w.op = o.op /\ w.step = s /\ w.slug = o.slug
        /\ w.holders = o.holders /\ w.moves = o.moves
    BY DEF Orders
  <1>3. order' = [order EXCEPT ![e] = w]
    BY DEF Step
  <1> HIDE DEF w
  <1> QED
    BY <1>1, <1>2, <1>3

LEMMA FitsOn ==
    ASSUME NEW w, OrderFits(w), Rows \subseteq Rows'
    PROVE  OrderFits(w)'
  BY DEF OrderFits

(* One request moves on, the others stay.                                    *)
LEMMA OneOrder ==
    ASSUME TreeTypes, OrdersFit, NEW e \in Editors, NEW w \in Orders \cup {NoOrder},
           order' = [order EXCEPT ![e] = w], w # NoOrder => OrderShape(w) /\ OrderFits(w)',
           Rows \subseteq Rows'
    PROVE  /\ order' \in [Editors -> Orders \cup {NoOrder}] /\ OrdersFit'
           /\ \A f \in Editors : order'[f] # NoOrder => OrderShape(order'[f])
           /\ order'[e] = w /\ \A f \in Editors : f # e => order'[f] = order[f]
  <1>1. /\ order' \in [Editors -> Orders \cup {NoOrder}]
        /\ order'[e] = w /\ \A f \in Editors : f # e => order'[f] = order[f]
    BY TreeAre
  <1>2. ASSUME NEW f \in Editors, order'[f] # NoOrder
        PROVE  OrderShape(order'[f]) /\ OrderFits(order[f])'
    <2>1. CASE f = e
      <3>1. w = order'[f] /\ OrderShape(w) /\ OrderFits(w)'
        BY <1>1, <1>2, <2>1
      <3> QED
        BY <3>1 DEF OrderFits
    <2>2. CASE f # e
      <3>1. PICK o : o = order[f]
        OBVIOUS
      <3>2. o = order'[f] /\ OrderShape(o) /\ OrderFits(o)
        BY <1>1, <1>2, <2>2, <3>1, TreeAre DEF OrdersFit
      <3>3. OrderFits(o)'
        BY <3>2, FitsOn
      <3> QED
        BY <3>2, <3>3 DEF OrderFits
    <2> QED
      BY <2>1, <2>2
  <1>3. OrdersFit'
    BY <1>2 DEF OrdersFit
  <1> QED
    BY <1>1, <1>2, <1>3

(* An order that has dealt with such rows of p.                              *)
Deals(o, p, x) ==
    /\ o # NoOrder /\ o.op = "delete" /\ o.moves[1].id = p
    /\ o.step \in IF x \in Pieces THEN {"children", "row"} ELSE {"row"}

LEMMA DealtIs ==
    ASSUME NEW p, NEW x
    PROVE  DealtWith(p, x) <=> \E f \in Editors : Deals(order[f], p, x)
  BY DEF DealtWith, Deals

LEMMA DealtNext ==
    ASSUME TreeTypes, NEW e \in Editors, NEW w, order' = [order EXCEPT ![e] = w],
           NEW p, NEW x, DealtWith(p, x)'
    PROVE  DealtWith(p, x) \/ Deals(w, p, x)
  <1>1. PICK f \in Editors : Deals(order'[f], p, x)
    BY DEF DealtWith, Deals
  <1>2. f = e => order'[f] = w
    BY TreeAre
  <1>3. f # e => order'[f] = order[f]
    BY TreeAre
  <1> QED
    BY <1>1, <1>2, <1>3, DealtIs

LEMMA NoDealAtTop ==
    ASSUME TreeTypes, NEW x
    PROVE  ~ DealtWith(Root, x)
  BY TreeAre, PiecesApart DEF DealtWith, OrderShape

WhereInv == ParentsAreLive /\ RefsAreLive /\ DealtAreStrays /\ NoTrap

LEMMA LiveAreCats == Live \subseteq Cats /\ Rows \subseteq Cats /\ Live \subseteq Rows
  BY DEF Live, Rows

(* Nothing moves, and a category that goes leaves only strays in it.          *)
LEMMA WhereStays ==
    ASSUME TreeTypes, WhereInv, UNCHANGED under, strays \subseteq strays', Live' \subseteq Live,
           \A x \in Live \cup Pieces : under[x] \in Live \ Live' => x \in strays,
           \A x \in Live \cup Pieces : DealtWith(under[x], x)' =>
                                          DealtWith(under[x], x) \/ x \in strays'
    PROVE  WhereInv'
  <1>1. ParentsAreLive'
    BY DEF WhereInv, ParentsAreLive
  <1>2. RefsAreLive'
    BY DEF WhereInv, RefsAreLive
  <1>3. DealtAreStrays'
    BY DEF WhereInv, DealtAreStrays
  <1>4. NoTrap'
    BY DEF WhereInv, NoTrap
  <1> QED
    BY <1>1, <1>2, <1>3, <1>4 DEF WhereInv

(* No trap closes: what is put under a category of a trap is in the chain     *)
(* of that category, and so a stray.                                         *)
LEMMA PlaceTrapsNot ==
    ASSUME TreeTypes, NoTrap, NEW x \in Cats \cup Pieces, NEW p \in Cats \cup {Root}, Place(x, p)
    PROVE  NoTrap'
  <1>1. Placed /\ under' = [under EXCEPT ![x] = p]
    BY TreeAre DEF Place
  <1>2. strays \ {x} \subseteq strays'
    BY DEF Place
  <1>3. SUFFICES ASSUME NEW S \in SUBSET (Cats \ strays'), S # {}
                 PROVE  \E c \in S : under'[c] \notin S
    BY DEF NoTrap
  <1>4. S \subseteq Cats /\ \A c \in S : c # x => c \notin strays /\ under'[c] = under[c]
    BY <1>1, <1>2 DEF Placed
  <1>5. CASE x \notin S
    <2>1. S \in SUBSET (Cats \ strays)
      BY <1>4, <1>5
    <2>2. PICK c \in S : under[c] \notin S
      BY <1>3, <2>1 DEF NoTrap
    <2> QED
      BY <1>4, <1>5, <2>2
  <1>6. CASE x \in S
    <2>1. x \notin strays' /\ under'[x] = p /\ x \in Cats
      BY <1>1, <1>4, <1>6 DEF Placed
    <2>2. p = Root \/ x \notin Chain(p)
      BY <2>1 DEF Place
    <2>3. CASE p \notin S
      BY <1>6, <2>1, <2>3
    <2>4. CASE p \in S
      <3>1. p \in Cats /\ p # Root
        BY <1>4, <2>4, PiecesApart
      <3>2. /\ p \in Chain(p) /\ Chain(p) \subseteq Cats
            /\ \A y \in Chain(p) : under[y] \in Chain(p) \cup {Root}
        BY <1>1, <3>1, ChainClosed
      <3> DEFINE T == S \cap Chain(p)
      <3>3. T \in SUBSET (Cats \ strays) /\ T # {} /\ x \notin T
        BY <1>4, <2>2, <2>4, <3>1, <3>2
      <3>4. PICK c \in T : under[c] \notin T
        BY <3>3 DEF NoTrap
      <3>5. under'[c] = under[c] /\ under[c] \notin S
        BY <1>4, <3>2, <3>3, <3>4, PiecesApart
      <3> QED
        BY <3>4, <3>5
    <2> QED
      BY <2>3, <2>4
  <1> QED
    BY <1>5, <1>6

LEMMA PlaceKeeps ==
    ASSUME TreeTypes, WhereInv, NEW x \in Cats \cup Pieces, NEW p \in Cats \cup {Root}, Place(x, p),
           Live \subseteq Live', Live' \subseteq Live \cup {x},
           \A q, y : DealtWith(q, y)' => DealtWith(q, y)
    PROVE  WhereInv' /\ Placed' /\ strays' \subseteq Cats \cup Pieces
  <1>1. Placed /\ under' = [under EXCEPT ![x] = p] /\ Placed'
    BY TreeAre DEF Place, Placed
  <1>2. strays \ {x} \subseteq strays' /\ strays' \subseteq strays \cup {x}
    BY DEF Place
  <1>3. p # Root /\ (p \notin Live \/ DealtWith(p, x)) => x \in strays'
    BY DEF Place
  <1>4. under'[x] = p /\ \A y \in Cats \cup Pieces : y # x => under'[y] = under[y]
    BY <1>1 DEF Placed
  <1>5. ParentsAreLive'
    <2> SUFFICES ASSUME NEW c \in Live'
                 PROVE  under'[c] \in Live' \cup {Root} \/ c \in strays'
      BY DEF ParentsAreLive
    <2>1. CASE c = x
      BY <1>3, <1>4, <2>1
    <2>2. CASE c # x
      BY <1>2, <1>4, <2>2, LiveAreCats DEF WhereInv, ParentsAreLive
    <2> QED
      BY <2>1, <2>2
  <1>6. RefsAreLive'
    <2> SUFFICES ASSUME NEW a \in Pieces
                 PROVE  under'[a] \in Live' \cup {Root} \/ a \in strays'
      BY DEF RefsAreLive
    <2>1. CASE a = x
      BY <1>3, <1>4, <2>1
    <2>2. CASE a # x
      BY <1>2, <1>4, <2>2 DEF WhereInv, RefsAreLive
    <2> QED
      BY <2>1, <2>2
  <1>7. DealtAreStrays'
    <2> SUFFICES ASSUME NEW y \in Live' \cup Pieces, DealtWith(under[y], y)'
                 PROVE  y \in strays'
      BY DEF DealtAreStrays
    <2>1. PICK q : q = under'[y]
      OBVIOUS
    <2>2. DealtWith(q, y)'
      BY <2>1 DEF DealtWith
    <2>3. DealtWith(q, y)
      BY <2>2
    <2>4. CASE y = x
      BY <1>3, <1>4, <2>1, <2>3, <2>4, NoDealAtTop
    <2>5. CASE y # x
      <3>1. y \in Live \cup Pieces /\ q = under[y]
        BY <1>4, <2>1, <2>5, LiveAreCats
      <3> QED
        BY <1>2, <2>3, <2>5, <3>1 DEF WhereInv, DealtAreStrays
    <2> QED
      BY <2>4, <2>5
  <1>8. NoTrap'
    BY PlaceTrapsNot DEF WhereInv
  <1> QED
    BY <1>1, <1>2, <1>5, <1>6, <1>7, <1>8, TreeAre DEF WhereInv

LEMMA TakeOutKeeps ==
    ASSUME TreeTypes, WhereInv, NEW c \in Cats, NEW kind, kind \subseteq Cats \cup Pieces,
           TakeOut(c, kind), Live' = Live,
           \A q, y : DealtWith(q, y)' => DealtWith(q, y) \/ (q = c /\ y \in kind)
                                         \/ (y \notin Live \cup Pieces)
    PROVE  WhereInv' /\ Placed' /\ strays' \subseteq Cats \cup Pieces /\ slips' \in 0 .. MaxSlips
  <1>1. CASE UNCHANGED <<slips, strays>>
             /\ under' = [x \in Cats \cup Pieces |-> IF x \in kind /\ under[x] = c THEN Root
                                                      ELSE under[x]]
    <2>1. \A x \in Cats \cup Pieces : under'[x] = Root
                                      \/ (under'[x] = under[x] /\ ~ (x \in kind /\ under[x] = c))
      BY <1>1
    <2>2. Placed'
      BY <1>1, TreeAre DEF Placed
    <2>3. ParentsAreLive'
      BY <1>1, <2>1, LiveAreCats DEF WhereInv, ParentsAreLive
    <2>4. RefsAreLive'
      BY <1>1, <2>1 DEF WhereInv, RefsAreLive
    <2>5. DealtAreStrays'
      <3> SUFFICES ASSUME NEW y \in Live \cup Pieces, DealtWith(under[y], y)'
                   PROVE  y \in strays
        BY <1>1 DEF DealtAreStrays
      <3>1. PICK q : q = under'[y]
        OBVIOUS
      <3>2. DealtWith(q, y)'
        BY <3>1 DEF DealtWith
      <3>3. y \in Cats \cup Pieces
        BY LiveAreCats
      <3>4. q # Root
        <4>1. c # Root
          BY PiecesApart
        <4> QED
          BY <3>2, <4>1, NoDealAtTop
      <3>5. q = under[y] /\ DealtWith(q, y)
        BY <2>1, <3>1, <3>2, <3>3, <3>4
      <3> QED
        BY <3>5 DEF WhereInv, DealtAreStrays
    <2>6. NoTrap'
      <3> SUFFICES ASSUME NEW S \in SUBSET (Cats \ strays), S # {}
                   PROVE  \E d \in S : under'[d] \notin S
        BY <1>1 DEF NoTrap
      <3>1. PICK d \in S : under[d] \notin S
        BY DEF WhereInv, NoTrap
      <3> QED
        BY <2>1, <3>1, PiecesApart
    <2> QED
      BY <1>1, <2>2, <2>3, <2>4, <2>5, <2>6, TreeAre DEF WhereInv
  <1>2. CASE /\ slips < MaxSlips /\ slips' = slips + 1 /\ UNCHANGED under
             /\ strays' = strays \cup {x \in kind : under[x] = c}
    <2>1. \A y \in Live \cup Pieces : DealtWith(under[y], y)' =>
                                         DealtWith(under[y], y) \/ y \in strays'
      <3> SUFFICES ASSUME NEW y \in Live \cup Pieces, DealtWith(under[y], y)'
                   PROVE  DealtWith(under[y], y) \/ y \in strays'
        OBVIOUS
      <3>1. PICK q : q = under[y]
        OBVIOUS
      <3>2. DealtWith(q, y)'
        BY <1>2, <3>1 DEF DealtWith
      <3> QED
        BY <1>2, <3>1, <3>2
    <2>2. WhereInv'
      BY <1>2, <2>1, WhereStays
    <2>3. Placed'
      BY <1>2, TreeAre DEF Placed
    <2>4. slips' \in 0 .. MaxSlips
      BY <1>2, TreeAre, TreeNats
    <2> QED
      BY <1>2, <2>2, <2>3, <2>4, TreeAre
  <1> QED
    BY <1>1, <1>2 DEF TakeOut

LEMMA TheTreeParts ==
    ASSUME TreeInv
    PROVE  TreeTypes /\ RowsInTurn /\ OrdersFit /\ WhereInv
  BY DEF TreeInv, WhereInv

LEMMA SameRows ==
    ASSUME UNCHANGED category, RowsInTurn
    PROVE  Live' = Live /\ Rows' = Rows /\ RowsInTurn'
  BY DEF Live, Rows, RowsInTurn

LEMMA DealtLess ==
    ASSUME TreeTypes, NEW e \in Editors, NEW w, order' = [order EXCEPT ![e] = w],
           w = NoOrder \/ w.op # "delete" \/ \A q, y : Deals(w, q, y) => Deals(order[e], q, y)
    PROVE  \A q, y : DealtWith(q, y)' => DealtWith(q, y)
  <1> SUFFICES ASSUME NEW q, NEW y, DealtWith(q, y)'
               PROVE  DealtWith(q, y)
    OBVIOUS
  <1>1. DealtWith(q, y) \/ Deals(w, q, y)
    BY DealtNext
  <1>2. Deals(w, q, y) => Deals(order[e], q, y)
    BY DEF Deals
  <1> QED
    BY <1>1, <1>2, DealtIs

(* A request moves on, and no row and no place with it.                       *)
LEMMA QuietOrder ==
    ASSUME TreeInv, NEW e \in Editors, NEW w \in Orders \cup {NoOrder},
           order' = [order EXCEPT ![e] = w], w # NoOrder => OrderShape(w) /\ OrderFits(w),
           w = NoOrder \/ w.op # "delete" \/ \A q, y : Deals(w, q, y) => Deals(order[e], q, y),
           UNCHANGED <<category, under, strays>>,
           orders' \in 0 .. MaxOrders, slips' \in 0 .. MaxSlips
    PROVE  TreeInv'
  <1>1. TreeTypes /\ RowsInTurn /\ OrdersFit /\ WhereInv
    BY TheTreeParts
  <1>2. Live' = Live /\ Rows' = Rows /\ RowsInTurn'
    BY <1>1, SameRows
  <1>3. w # NoOrder => OrderShape(w) /\ OrderFits(w)'
    BY <1>2, FitsOn
  <1>4. /\ order' \in [Editors -> Orders \cup {NoOrder}] /\ OrdersFit'
        /\ \A f \in Editors : order'[f] # NoOrder => OrderShape(order'[f])
    BY <1>1, <1>2, <1>3, OneOrder
  <1>5. \A q, y : DealtWith(q, y)' => DealtWith(q, y)
    BY <1>1, DealtLess
  <1>6. WhereInv'
    <2>1. \A x \in Live \cup Pieces : DealtWith(under[x], x)' => DealtWith(under[x], x)
      <3> SUFFICES ASSUME NEW x \in Live \cup Pieces, DealtWith(under[x], x)'
                   PROVE  DealtWith(under[x], x)
        OBVIOUS
      <3>1. PICK q : q = under[x]
        OBVIOUS
      <3>2. DealtWith(q, x)'
        BY <3>1 DEF DealtWith
      <3> QED
        BY <1>5, <3>1, <3>2
    <2> QED
      BY <1>1, <1>2, <2>1, WhereStays
  <1>7. TreeTypes'
    <2>1. Placed'
      BY <1>1, TreeAre DEF Placed
    <2> QED
      BY <1>1, <1>4, <2>1, TreeAre, TreeTypesFrom
  <1> QED
    BY <1>2, <1>4, <1>6, <1>7 DEF TreeInv, WhereInv

(* One thing is put elsewhere by a request that moves on.                     *)
LEMMA PlacingKeeps ==
    ASSUME TreeInv, NEW e \in Editors, NEW w \in Orders \cup {NoOrder},
           order' = [order EXCEPT ![e] = w], w # NoOrder => OrderShape(w) /\ OrderFits(w),
           w = NoOrder \/ w.op # "delete",
           NEW x \in Cats \cup Pieces, NEW p \in Cats \cup {Root}, Place(x, p),
           UNCHANGED <<category, orders, slips>>
    PROVE  TreeInv'
  <1>1. TreeTypes /\ RowsInTurn /\ OrdersFit /\ WhereInv
    BY TheTreeParts
  <1>2. Live' = Live /\ Rows' = Rows /\ RowsInTurn'
    BY <1>1, SameRows
  <1>3. w # NoOrder => OrderShape(w) /\ OrderFits(w)'
    BY <1>2, FitsOn
  <1>4. /\ order' \in [Editors -> Orders \cup {NoOrder}] /\ OrdersFit'
        /\ \A f \in Editors : order'[f] # NoOrder => OrderShape(order'[f])
    BY <1>1, <1>2, <1>3, OneOrder
  <1>5. \A q, y : DealtWith(q, y)' => DealtWith(q, y)
    BY <1>1, DealtLess
  <1>6. WhereInv' /\ Placed' /\ strays' \subseteq Cats \cup Pieces
    BY <1>1, <1>2, <1>5, PlaceKeeps
  <1>7. TreeTypes'
    BY <1>1, <1>4, <1>6, TreeAre, TreeTypesFrom
  <1> QED
    BY <1>2, <1>4, <1>6, <1>7 DEF TreeInv, WhereInv

LEMMA MoveTypes ==
    /\ \A c, p \in Cats \cup {Root} :
          /\ Move(c, p) \in Moves /\ Move(c, p).id = c /\ Move(c, p).parent = p
          /\ <<Move(c, p)>> \in [1 .. 1 -> Moves] /\ <<Move(c, p)>>[1].id = c
    /\ \A c, p, d, q \in Cats \cup {Root} :
          /\ <<Move(c, p), Move(d, q)>> \in [1 .. 2 -> Moves]
          /\ <<Move(c, p), Move(d, q)>> # <<>>
  <1>1. \A c, p \in Cats \cup {Root} :
           Move(c, p) \in Moves /\ Move(c, p).id = c /\ Move(c, p).parent = p
    BY DEF Move, Moves
  <1>2. \A m \in Moves : <<m>> \in [1 .. 1 -> Moves] /\ <<m>>[1] = m
    OBVIOUS
  <1>3. \A m, n \in Moves : <<m, n>> \in [1 .. 2 -> Moves] /\ <<m, n>> # <<>>
    OBVIOUS
  <1> QED
    BY <1>1, <1>2, <1>3

LEMMA MovesAre ==
    ASSUME NEW n \in 1 .. 2, NEW ms \in [1 .. n -> Moves]
    PROVE  ms \in Seq(Moves) /\ Len(ms) = n /\ ms # <<>>
  <1>1. ms \in Seq(Moves)
    BY SeqDef
  <1>2. Len(ms) \in Nat /\ DOMAIN ms = 1 .. Len(ms) /\ DOMAIN ms = 1 .. n
    BY <1>1, LenProperties
  <1>3. Len(ms) = n
    BY <1>2
  <1> QED
    BY <1>1, <1>3, EmptySeq

LEMMA LaterMoves ==
    ASSUME NEW ms \in [1 .. 1 -> Moves] \cup [1 .. 2 -> Moves]
    PROVE  /\ Head(ms) \in Moves
           /\ Len(ms) # 1 => Tail(ms) \in [1 .. 1 -> Moves] /\ Tail(ms) # <<>>
  <1>1. ms \in Seq(Moves) /\ ms # <<>> /\ Len(ms) \in {1, 2}
    BY MovesAre
  <1>2. Head(ms) \in Moves /\ Tail(ms) \in Seq(Moves) /\ Len(Tail(ms)) = Len(ms) - 1
    BY <1>1, HeadTailProperties
  <1>3. ASSUME Len(ms) # 1
        PROVE  Tail(ms) \in [1 .. 1 -> Moves] /\ Tail(ms) # <<>>
    <2>1. Len(Tail(ms)) = 1
      BY <1>1, <1>2, <1>3
    <2>2. Tail(ms) \in [1 .. 1 -> Moves]
      BY <1>2, <2>1, LenProperties
    <2> QED
      BY <2>2, MovesAre
  <1> QED
    BY <1>2, <1>3

(* A slug found free: no other live row has it, and the rows before are live. *)
LEMMA SlugFound ==
    ASSUME TreeTypes, RowsInTurn, NEW id \in Cats \cup {Root}
    PROVE  /\ EnsureUniqueSlug(id) \in Slugs
           /\ \A c \in Live \ {id} : category[c].slug # EnsureUniqueSlug(id)
           /\ \A d \in Cats : d <= EnsureUniqueSlug(id) => d \in Live \ {id}
  <1> DEFINE Free(s)  == \A c \in Live \ {id} : category[c].slug # s
             First(s) == Free(s) /\ \A r \in 0 .. s - 1 : \E c \in Live \ {id} : category[c].slug = r
             S == {s \in Slugs : Free(s)}
  <1>1. \A c \in Live : c \in 1 .. MaxCats /\ category[c].slug = c - 1
    BY LiveAreCats DEF RowsInTurn, Cats
  <1>2. MaxCats \in S
    BY <1>1, TreeNats DEF Slugs
  <1>3. S \subseteq Nat
    BY TreeNats DEF Slugs
  <1>4. PICK t \in S : \A s \in S : t <= s
    <2> HIDE DEF S
    <2> QED
      BY <1>2, <1>3, LeastNumber
  <1>5. First(t) /\ t \in Slugs
    <2>1. t \in Slugs /\ Free(t) /\ t \in Nat /\ t <= MaxCats
      BY <1>2, <1>3, <1>4
    <2>2. \A r \in 0 .. t - 1 : ~ Free(r)
      BY <1>4, <2>1, TreeNats DEF Slugs
    <2> QED
      BY <2>1, <2>2
  <1> DEFINE u == CHOOSE s \in Slugs : First(s)
  <1>6. u \in Slugs /\ First(u)
    BY <1>5
  <1>7. EnsureUniqueSlug(id) = u
    BY DEF EnsureUniqueSlug
  <1> HIDE DEF u
  <1>8. ASSUME NEW d \in Cats, d <= u
        PROVE  d \in Live \ {id}
    <2>1. d \in 1 .. MaxCats /\ u \in 0 .. MaxCats /\ d - 1 \in 0 .. u - 1
      BY <1>6, <1>8, TreeNats DEF Cats, Slugs
    <2>2. PICK c \in Live \ {id} : category[c].slug = d - 1
      BY <1>6, <2>1
    <2>3. c = d
      BY <1>1, <2>1, <2>2, TreeNats
    <2> QED
      BY <2>2, <2>3
  <1> QED
    BY <1>6, <1>7, <1>8

LEMMA KeptIsNone == Kept \notin Slugs /\ \A s \in Slugs : s \in Nat /\ s <= MaxCats
  BY TreeNats DEF Kept, Slugs

LEMMA BeginKeeps ==
    ASSUME TreeInv, NEW e \in Editors, NEW op \in {"create", "update", "reorder", "delete"},
           NEW step, step = IF op = "delete" THEN "articles" ELSE "write",
           NEW s \in Slugs \cup {Kept}, NEW ms \in [1 .. 1 -> Moves] \cup [1 .. 2 -> Moves],
           op # "reorder" => ms \in [1 .. 1 -> Moves],
           op \in {"update", "delete"} => ms[1].id \in Live,
           op = "create" => ms[1].id = Root /\ s = EnsureUniqueSlug(Root),
           op = "update" => s \in {Kept, EnsureUniqueSlug(ms[1].id)},
           Begin(e, op, step, s, ms)
    PROVE  TreeInv'
  <1>1. TreeTypes /\ RowsInTurn /\ OrdersFit
    BY TheTreeParts
  <1> DEFINE H == {c \in Live : category[c].slug = s /\ c # ms[1].id}
  <1>2. H \in SUBSET Cats
    BY LiveAreCats
  <1>3. op \in {"create", "update"} /\ s # Kept =>
           /\ s = EnsureUniqueSlug(ms[1].id) /\ ms[1].id \in Cats \cup {Root} /\ s \in Slugs
    BY LiveAreCats
  <1>4. op \in {"create", "update"} /\ s # Kept =>
           H = {} /\ \A d \in Cats : d <= s => d \in Live \ {ms[1].id}
    BY <1>1, <1>3, SlugFound
  <1>5. op = "create" => s \in Slugs
    BY <1>1, SlugFound
  <1> HIDE DEF H
  <1> DEFINE w == [op |-> op, step |-> step, slug |-> s, moves |-> ms, holders |-> H]
  <1>6. w \in Orders
    BY <1>2 DEF Orders
  <1>7. w.op = op /\ w.step = step /\ w.slug = s /\ w.moves = ms /\ w.holders = H
    OBVIOUS
  <1>8. /\ order' = [order EXCEPT ![e] = w] /\ orders < MaxOrders /\ orders' = orders + 1
        /\ UNCHANGED <<category, under, slips, strays>>
    BY DEF Begin, H
  <1> HIDE DEF w
  <1>9. OrderShape(w)
    <2>1. step # "refused" /\ ms # <<>>
      BY MovesAre
    <2>2. op \in {"update", "delete"} => ms[1].id \in Cats
      BY LiveAreCats
    <2>3. op = "create" => s # Kept
      BY <1>5, KeptIsNone
    <2> QED
      BY <1>7, <2>1, <2>2, <2>3 DEF OrderShape
  <1>10. OrderFits(w)
    <2>1. step # "refused"
      OBVIOUS
    <2>2. op \in {"update", "delete"} => ms[1].id \in Rows
      BY LiveAreCats
    <2>3. op = "create" => \A d \in Cats : d <= s => d \in Rows
      BY <1>4, <1>5, KeptIsNone, LiveAreCats
    <2>4. op = "update" /\ s # Kept => s < ms[1].id
      <3> SUFFICES ASSUME op = "update", s # Kept
                   PROVE  s < ms[1].id
        OBVIOUS
      <3>1. ms[1].id \in Cats /\ ms[1].id \in Int /\ s \in Int
        <4>1. ms[1].id \in Cats /\ s \in Slugs
          BY <1>3, <2>2, LiveAreCats
        <4>2. \A c \in Cats : c \in Int
          BY TreeNats DEF Cats
        <4>3. ms[1].id \in Int
          BY <4>1, <4>2
        <4>4. s \in Int
          BY <4>1, KeptIsNone
        <4> QED
          BY <4>1, <4>3, <4>4
      <3>2. ~ (ms[1].id <= s)
        BY <1>4, <3>1
      <3> QED
        BY <3>1, <3>2
    <2> QED
      BY <1>4, <1>7, <2>1, <2>2, <2>3, <2>4 DEF OrderFits
  <1>11. \A q, y : Deals(w, q, y) => Deals(order[e], q, y)
    BY <1>7 DEF Deals
  <1>12. orders' \in 0 .. MaxOrders /\ slips' \in 0 .. MaxSlips
    BY <1>1, <1>8, TreeAre, TreeNats
  <1> QED
    BY <1>6, <1>8, <1>9, <1>10, <1>11, <1>12, QuietOrder

LEMMA StartKeeps ==
    ASSUME TreeInv, NEW e \in Editors,
           \/ \E p \in Cats \cup {Root} : StartCreate(e, p)
           \/ \E c \in Cats, p \in Cats \cup {Root} : StartUpdate(e, c, p)
           \/ \E c, d \in Rows, p, q \in Cats \cup {Root} : c # d /\ StartReorder(e, c, p, d, q)
           \/ \E c \in Cats : StartDeletion(e, c)
    PROVE  TreeInv'
  <1>1. TreeTypes /\ RowsInTurn
    BY TheTreeParts
  <1>2. ASSUME NEW p \in Cats \cup {Root}, StartCreate(e, p)
        PROVE  TreeInv'
    <2>1. PICK ms : ms = <<Move(Root, p)>>
      OBVIOUS
    <2>2. ms \in [1 .. 1 -> Moves] /\ ms[1].id = Root
      BY <2>1, MoveTypes
    <2>3. PICK s : s = EnsureUniqueSlug(Root)
      OBVIOUS
    <2>4. s \in Slugs \cup {Kept}
      BY <1>1, <2>3, SlugFound
    <2>5. Begin(e, "create", "write", s, ms)
      BY <1>2, <2>1, <2>3 DEF StartCreate
    <2> QED
      BY <2>2, <2>3, <2>4, <2>5, BeginKeeps
  <1>3. ASSUME NEW c \in Cats, NEW p \in Cats \cup {Root}, StartUpdate(e, c, p)
        PROVE  TreeInv'
    <2>1. PICK ms : ms = <<Move(c, p)>>
      OBVIOUS
    <2>2. ms \in [1 .. 1 -> Moves] /\ ms[1].id = c
      BY <2>1, MoveTypes
    <2>3. PICK s \in {Kept, EnsureUniqueSlug(c)} : Begin(e, "update", "write", s, ms)
      BY <1>3, <2>1 DEF StartUpdate
    <2>4. s \in Slugs \cup {Kept} /\ c \in Live
      BY <1>1, <1>3, <2>3, SlugFound DEF StartUpdate
    <2> QED
      BY <2>2, <2>3, <2>4, BeginKeeps
  <1>4. ASSUME NEW c \in Rows, NEW d \in Rows, NEW p \in Cats \cup {Root},
               NEW q \in Cats \cup {Root}, StartReorder(e, c, p, d, q)
        PROVE  TreeInv'
    <2>1. PICK ms : ms = <<Move(c, p), Move(d, q)>>
      OBVIOUS
    <2>2. ms \in [1 .. 2 -> Moves]
      BY <2>1, MoveTypes, LiveAreCats
    <2>3. Begin(e, "reorder", "write", Kept, ms)
      BY <1>4, <2>1 DEF StartReorder
    <2> QED
      BY <2>2, <2>3, BeginKeeps
  <1>5. ASSUME NEW c \in Cats, StartDeletion(e, c)
        PROVE  TreeInv'
    <2>1. PICK ms : ms = <<Move(c, Root)>>
      OBVIOUS
    <2>2. ms \in [1 .. 1 -> Moves] /\ ms[1].id = c
      BY <2>1, MoveTypes
    <2>3. Begin(e, "delete", "articles", Kept, ms) /\ c \in Live
      BY <1>5, <2>1 DEF StartDeletion
    <2> QED
      BY <2>2, <2>3, BeginKeeps
  <1> QED
    BY <1>2, <1>3, <1>4, <1>5

(* A refused slug is the slug of a row there is.                             *)
LEMMA TakenIsRow ==
    ASSUME TreeTypes, RowsInTurn, NEW id, NEW s, Taken(id, s)
    PROVE  s + 1 \in Rows
  <1>1. PICK c \in Rows \ {id} : category[c].slug = s
    BY DEF Taken
  <1>2. s = c - 1
    BY <1>1 DEF RowsInTurn
  <1>3. c \in 1 .. MaxCats /\ MaxCats \in Nat
    BY <1>1, LiveAreCats, TreeNats DEF Cats
  <1>4. s + 1 = c
    BY <1>2, <1>3
  <1> QED
    BY <1>1, <1>4

LEMMA RefuseKeeps ==
    ASSUME TreeInv, NEW e \in Editors, NEW o \in Orders, order[e] = o, OrderShape(o), OrderFits(o),
           o.op \in {"create", "update"}, o.slug # Kept, o.slug + 1 \in Rows, Refuse(e)
    PROVE  TreeInv'
  <1>1. TreeTypes
    BY TheTreeParts
  <1>2. Step(e, "refused") /\ UNCHANGED <<category, under, orders, slips, strays>>
    BY DEF Refuse
  <1>3. PICK w \in Orders : /\ order' = [order EXCEPT ![e] = w]
                            /\ w.op = o.op /\ w.step = "refused" /\ w.slug = o.slug
                            /\ w.holders = o.holders /\ w.moves = o.moves
    BY <1>1, <1>2, NextStep
  <1>4. OrderShape(w)
    BY <1>3 DEF OrderShape
  <1>5. OrderFits(w)
    BY <1>3 DEF OrderFits
  <1>6. w.op # "delete"
    BY <1>3
  <1>7. orders' \in 0 .. MaxOrders /\ slips' \in 0 .. MaxSlips
    BY <1>1, <1>2, TreeAre
  <1> QED
    BY <1>2, <1>3, <1>4, <1>5, <1>6, <1>7, QuietOrder

(* The first row that is free is the one whose slug was found free.           *)
LEMMA CreateKeeps ==
    ASSUME TreeInv, NEW e \in Editors, Create(e)
    PROVE  TreeInv'
  <1>1. TreeTypes /\ RowsInTurn /\ OrdersFit /\ WhereInv
    BY TheTreeParts
  <1>2. order[e] # NoOrder /\ order[e].op = "create" /\ order[e].step = "write"
    BY DEF Create
  <1>3. PICK o \in Orders : order[e] = o /\ OrderShape(o) /\ OrderFits(o)
    BY <1>1, <1>2, OrderIs
  <1>4. o.op = "create" /\ o.slug \in Slugs /\ o.slug # Kept
    BY <1>2, <1>3, OrderFields DEF OrderShape
  <1>5. CASE Taken(Root, o.slug) /\ Refuse(e)
    <2>1. o.slug + 1 \in Rows
      BY <1>1, <1>5, TakenIsRow
    <2> QED
      BY <1>3, <1>4, <1>5, <2>1, RefuseKeeps
  <1>6. ASSUME ~ Taken(Root, o.slug), NEW c \in Cats \ Rows, \A d \in Cats \ Rows : c <= d,
               category' = [category EXCEPT ![c] = [state |-> "live", slug |-> o.slug]],
               Place(c, o.moves[1].parent), EndOrder(e), UNCHANGED <<orders, slips>>
        PROVE  TreeInv'
    <2>1. PICK s : s = o.slug
      OBVIOUS
    <2>2. s \in Nat /\ s <= MaxCats /\ s \in Slugs
      BY <1>4, <2>1, KeptIsNone
    <2>3. \A d \in Cats : d <= s => d \in Rows
      BY <1>3, <1>4, <2>1 DEF OrderFits
    <2>4. s + 1 \notin Rows
      <3> SUFFICES ASSUME s + 1 \in Rows
                   PROVE  FALSE
        OBVIOUS
      <3>1. category[s + 1].slug = s
        BY <1>1, <2>2 DEF RowsInTurn
      <3>2. s + 1 # Root
        BY <2>2 DEF Root
      <3> QED
        BY <1>6, <2>1, <3>1, <3>2 DEF Taken
    <2>5. c = s + 1
      <3>1. c \in 1 .. MaxCats /\ c \notin Rows
        BY <1>6 DEF Cats
      <3>2. ~ (c <= s)
        BY <1>6, <2>3
      <3>3. s + 1 \in Cats
        BY <2>2, <3>1, <3>2, TreeNats DEF Cats
      <3>4. c <= s + 1
        BY <1>6, <2>4, <3>3
      <3> QED
        BY <2>2, <3>1, <3>2, <3>4, TreeNats
    <2> DEFINE r == [state |-> "live", slug |-> s]
    <2>6. r \in [state : {"never", "live", "deleted"}, slug : Slugs] /\ r.state = "live" /\ r.slug = s
      BY <2>2
    <2>7. category' = [category EXCEPT ![c] = r]
      BY <1>6, <2>1
    <2> HIDE DEF r
    <2>8. /\ category' \in [Cats -> [state : {"never", "live", "deleted"}, slug : Slugs]]
          /\ category'[c] = r /\ \A d \in Cats : d # c => category'[d] = category[d]
      BY <1>1, <2>6, <2>7, TreeAre
    <2>9. Live' = Live \cup {c} /\ Rows' = Rows \cup {c}
      BY <1>6, <2>6, <2>8 DEF Live, Rows
    <2>10. RowsInTurn'
      <3> SUFFICES ASSUME NEW d \in Rows'
                   PROVE  /\ category'[d].slug = d - 1
                          /\ \A f \in Cats : f < d => f \in Rows'
        BY DEF RowsInTurn
      <3>1. CASE d = c
        <4>1. category'[d].slug = d - 1
          BY <2>2, <2>5, <2>6, <2>8, <3>1
        <4>2. ASSUME NEW f \in Cats, f < d PROVE f \in Rows
          <5>1. f \in Int /\ c \in Int
            BY <1>6, TreeNats DEF Cats
          <5>2. ~ (c <= f)
            BY <3>1, <4>2, <5>1
          <5> QED
            BY <1>6, <5>2
        <4> QED
          BY <2>9, <4>1, <4>2
      <3>2. CASE d # c
        <4>1. d \in Rows /\ d \in Cats
          BY <2>9, <3>2, LiveAreCats
        <4> QED
          BY <1>1, <2>8, <2>9, <3>2, <4>1 DEF RowsInTurn
      <3> QED
        BY <3>1, <3>2
    <2>11. order' = [order EXCEPT ![e] = NoOrder]
      BY <1>6 DEF EndOrder
    <2>12. /\ order' \in [Editors -> Orders \cup {NoOrder}] /\ OrdersFit'
           /\ \A f \in Editors : order'[f] # NoOrder => OrderShape(order'[f])
      BY <1>1, <2>9, <2>11, OneOrder
    <2>13. \A q, y : DealtWith(q, y)' => DealtWith(q, y)
      BY <1>1, <2>11, DealtLess
    <2>14. o.moves[1].parent \in Cats \cup {Root}
      BY <1>3, <1>4, OneMove
    <2>15. WhereInv' /\ Placed' /\ strays' \subseteq Cats \cup Pieces
      <3>1. PICK p : p = o.moves[1].parent
        OBVIOUS
      <3> QED
        BY <1>1, <1>6, <2>9, <2>13, <2>14, <3>1, PlaceKeeps
    <2>16. TreeTypes'
      BY <1>1, <1>6, <2>8, <2>12, <2>15, TreeAre, TreeTypesFrom
    <2> QED
      BY <2>10, <2>12, <2>15, <2>16 DEF TreeInv, WhereInv
  <1> QED
    BY <1>3, <1>5, <1>6 DEF Create

(* A row's slug stays as it is: no other is free for it.                     *)
LEMMA SlugStays ==
    ASSUME TreeTypes, RowsInTurn, NEW c \in Rows, NEW s \in Slugs, s < c, ~ Taken(c, s)
    PROVE  [category EXCEPT ![c].slug = s] = category
  <1>1. c \in Cats /\ c \in 1 .. MaxCats /\ s \in 0 .. MaxCats
    BY LiveAreCats, TreeNats DEF Cats, Slugs
  <1>2. s = c - 1
    <2>1. ASSUME s # c - 1 PROVE FALSE
      <3>1. s + 1 \in Cats /\ s + 1 < c
        BY <1>1, <2>1, TreeNats DEF Cats
      <3>2. s + 1 \in Rows
        BY <3>1 DEF RowsInTurn
      <3>3. category[s + 1].slug = s
        BY <1>1, <3>2 DEF RowsInTurn
      <3> QED
        BY <3>1, <3>2, <3>3, <1>1 DEF Taken
    <2> QED
      BY <2>1
  <1>3. category[c].slug = s
    BY <1>2 DEF RowsInTurn
  <1>4. PICK r \in [state : {"never", "live", "deleted"}, slug : Slugs] : r = category[c]
    BY <1>1, TreeAre
  <1>5. [r EXCEPT !.slug = s] = r
    BY <1>3, <1>4
  <1>6. [category EXCEPT ![c] = r] = category
    BY <1>1, <1>4, TreeAre
  <1> QED
    BY <1>4, <1>5, <1>6

LEMMA EndKeeps ==
    ASSUME TreeInv, NEW e \in Editors, EndOrder(e), UNCHANGED <<category, under, orders, strays>>,
           slips' \in 0 .. MaxSlips
    PROVE  TreeInv'
  <1>1. order' = [order EXCEPT ![e] = NoOrder] /\ TreeTypes
    BY TheTreeParts DEF EndOrder
  <1>2. orders' \in 0 .. MaxOrders
    BY <1>1, TreeAre
  <1> QED
    BY <1>1, <1>2, QuietOrder

LEMMA UpdateFieldsKeeps ==
    ASSUME TreeInv, NEW e \in Editors, UpdateFields(e)
    PROVE  TreeInv'
  <1>1. TreeTypes /\ RowsInTurn /\ OrdersFit
    BY TheTreeParts
  <1>2. order[e] # NoOrder /\ order[e].op = "update"
    BY DEF UpdateFields
  <1>3. PICK o \in Orders : order[e] = o /\ OrderShape(o) /\ OrderFits(o)
    BY <1>1, <1>2, OrderIs
  <1>4. PICK c : c = o.moves[1].id
    OBVIOUS
  <1>5. PICK p : p = o.moves[1].parent
    OBVIOUS
  <1>6. PICK s : s = o.slug
    OBVIOUS
  <1>7. o.op = "update" /\ c \in Rows /\ c \in Cats /\ p \in Cats \cup {Root}
    BY <1>2, <1>3, <1>4, <1>5, OneMove, LiveAreCats DEF OrderFits
  <1>8. s \in Slugs \cup {Kept} /\ (s # Kept => s \in Slugs /\ s < c)
    BY <1>3, <1>4, <1>6, <1>7, OrderFields DEF OrderFits
  <1>9. CASE EndOrder(e) /\ UNCHANGED <<category, under, orders, slips, strays>>
    BY <1>1, <1>9, EndKeeps, TreeAre
  <1>10. CASE s # Kept /\ Taken(c, s) /\ Refuse(e)
    BY <1>1, <1>3, <1>6, <1>7, <1>10, TakenIsRow, RefuseKeeps
  <1>11. CASE /\ s = Kept \/ ~ Taken(c, s)
              /\ category' = IF s = Kept THEN category ELSE [category EXCEPT ![c].slug = s]
              /\ Place(c, p) /\ EndOrder(e) /\ UNCHANGED <<orders, slips>>
    <2>1. UNCHANGED category
      BY <1>1, <1>7, <1>8, <1>11, SlugStays
    <2>2. order' = [order EXCEPT ![e] = NoOrder]
      BY <1>11 DEF EndOrder
    <2> QED
      BY <1>7, <1>11, <2>1, <2>2, PlacingKeeps
  <1> QED
    BY <1>3, <1>4, <1>5, <1>6, <1>9, <1>10, <1>11 DEF UpdateFields

LEMMA ReorderKeeps ==
    ASSUME TreeInv, NEW e \in Editors, UpdateSortOrder(e)
    PROVE  TreeInv'
  <1>1. TreeTypes /\ RowsInTurn /\ OrdersFit
    BY TheTreeParts
  <1>2. order[e] # NoOrder /\ order[e].op = "reorder"
    BY DEF UpdateSortOrder
  <1>3. PICK o \in Orders : order[e] = o /\ OrderShape(o) /\ OrderFits(o)
    BY <1>1, <1>2, OrderIs
  <1>4. /\ o.op = "reorder" /\ o.step = "write"
        /\ o.moves \in [1 .. 1 -> Moves] \cup [1 .. 2 -> Moves]
    BY <1>2, <1>3, OrderFields DEF OrderShape
  <1>5. PICK m \in Moves : m = Head(o.moves)
    BY <1>4, LaterMoves
  <1>6. m.id \in Cats \cup {Root} /\ m.parent \in Cats \cup {Root}
    BY DEF Moves
  <1>7. \E w \in Orders \cup {NoOrder} :
           /\ order' = [order EXCEPT ![e] = w] /\ (w # NoOrder => OrderShape(w) /\ OrderFits(w))
           /\ w = NoOrder \/ w.op # "delete"
    <2>1. CASE Len(o.moves) = 1
      <3>1. order' = [order EXCEPT ![e] = NoOrder]
        BY <1>3, <2>1 DEF UpdateSortOrder, EndOrder
      <3> QED
        BY <3>1
    <2>2. CASE Len(o.moves) # 1
      <3> DEFINE w == [o EXCEPT !.moves = Tail(o.moves)]
      <3>1. Tail(o.moves) \in [1 .. 1 -> Moves] /\ Tail(o.moves) # <<>>
        BY <1>4, <2>2, LaterMoves
      <3>2. w \in Orders
        BY <3>1 DEF Orders
      <3>3. /\ w.op = "reorder" /\ w.step = "write" /\ w.slug = o.slug /\ w.moves # <<>>
            /\ w.holders = o.holders
        BY <1>4, <3>1 DEF Orders
      <3>4. order' = [order EXCEPT ![e] = w]
        BY <1>3, <2>2 DEF UpdateSortOrder
      <3> HIDE DEF w
      <3>5. OrderShape(w)
        BY <3>3 DEF OrderShape
      <3>6. OrderFits(w)
        BY <3>3 DEF OrderFits
      <3>7. w.op # "delete" /\ w \in Orders \cup {NoOrder}
        BY <3>2, <3>3
      <3> QED
        BY <3>4, <3>5, <3>6, <3>7
    <2> QED
      BY <2>1, <2>2
  <1>8. PICK w \in Orders \cup {NoOrder} :
           /\ order' = [order EXCEPT ![e] = w] /\ (w # NoOrder => OrderShape(w) /\ OrderFits(w))
           /\ w = NoOrder \/ w.op # "delete"
    BY <1>7
  <1>9. UNCHANGED <<category, orders, slips>>
    BY DEF UpdateSortOrder
  <1>10. CASE m.id \in Live /\ Place(m.id, m.parent)
    <2>1. PICK x \in Cats \cup Pieces : x = m.id
      BY <1>10, LiveAreCats
    <2>2. PICK p \in Cats \cup {Root} : p = m.parent
      BY <1>6
    <2>3. Place(x, p)
      BY <1>10, <2>1, <2>2
    <2> QED
      BY <1>8, <1>9, <2>3, PlacingKeeps
  <1>11. CASE UNCHANGED <<under, strays>>
    <2>1. orders' \in 0 .. MaxOrders /\ slips' \in 0 .. MaxSlips
      BY <1>1, <1>9, TreeAre
    <2> QED
      BY <1>8, <1>9, <1>11, <2>1, QuietOrder
  <1> QED
    BY <1>3, <1>5, <1>10, <1>11 DEF UpdateSortOrder

LEMMA SetCategoryKeeps ==
    ASSUME TreeInv, NEW a \in Pieces, NEW c \in Cats, SetCategory(a, c)
    PROVE  TreeInv'
  <1>1. TreeTypes /\ RowsInTurn /\ OrdersFit /\ WhereInv
    BY TheTreeParts
  <1>2. /\ orders < MaxOrders /\ orders' = orders + 1 /\ Place(a, c)
        /\ UNCHANGED <<category, order, slips>>
    BY DEF SetCategory
  <1>3. Live' = Live /\ Rows' = Rows /\ RowsInTurn'
    BY <1>1, <1>2, SameRows
  <1>4. \A q, y : DealtWith(q, y)' => DealtWith(q, y)
    BY <1>2 DEF DealtWith
  <1>5. WhereInv' /\ Placed' /\ strays' \subseteq Cats \cup Pieces
    BY <1>1, <1>2, <1>3, <1>4, PlaceKeeps
  <1>6. OrdersFit'
    BY <1>1, <1>2, <1>3 DEF OrdersFit, OrderFits
  <1>7. orders' \in 0 .. MaxOrders
    BY <1>1, <1>2, TreeAre, TreeNats
  <1>8. TreeTypes'
    BY <1>1, <1>2, <1>5, <1>7, TreeAre, TreeTypesFrom
  <1> QED
    BY <1>3, <1>5, <1>6, <1>8 DEF TreeInv, WhereInv

(* One of the two statements that take rows out of a category.               *)
LEMMA MoveOutKeeps ==
    ASSUME TreeInv, NEW e \in Editors, NEW o \in Orders, order[e] = o, OrderShape(o), OrderFits(o),
           o.op = "delete", NEW kind, NEW s,
           \/ o.step = "articles" /\ kind = Pieces /\ s = "children"
           \/ o.step = "children" /\ kind = Live /\ s = "row",
           TakeOut(o.moves[1].id, kind), Step(e, s), UNCHANGED <<category, orders>>
    PROVE  TreeInv'
  <1>1. TreeTypes /\ RowsInTurn /\ OrdersFit /\ WhereInv
    BY TheTreeParts
  <1>2. s \in {"children", "row"}
    OBVIOUS
  <1>3. PICK w \in Orders : /\ order' = [order EXCEPT ![e] = w]
                            /\ w.op = o.op /\ w.step = s /\ w.slug = o.slug
                            /\ w.holders = o.holders /\ w.moves = o.moves
    BY <1>1, <1>2, NextStep
  <1>4. Live' = Live /\ Rows' = Rows /\ RowsInTurn'
    BY <1>1, SameRows
  <1>5. OrderShape(w)
    BY <1>2, <1>3 DEF OrderShape
  <1>6. OrderFits(w)'
    <2>1. OrderFits(w)
      BY <1>2, <1>3 DEF OrderFits
    <2> QED
      BY <1>4, <2>1, FitsOn
  <1>7. /\ order' \in [Editors -> Orders \cup {NoOrder}] /\ OrdersFit'
        /\ \A f \in Editors : order'[f] # NoOrder => OrderShape(order'[f])
    BY <1>1, <1>3, <1>4, <1>5, <1>6, OneOrder
  <1>8. PICK c \in Cats : c = o.moves[1].id
    BY DEF OrderShape
  <1>9. ASSUME NEW q, NEW y, DealtWith(q, y)'
        PROVE  DealtWith(q, y) \/ (q = c /\ y \in kind) \/ y \notin Live \cup Pieces
    <2>1. DealtWith(q, y) \/ Deals(w, q, y)
      BY <1>1, <1>3, <1>9, DealtNext
    <2>2. Deals(w, q, y) => q = c
      BY <1>3, <1>8 DEF Deals
    <2>3. CASE o.step = "articles" /\ kind = Pieces /\ s = "children"
      <3>1. Deals(w, q, y) => y \in Pieces
        BY <1>3, <2>3 DEF Deals
      <3> QED
        BY <2>1, <2>2, <2>3, <3>1
    <2>4. CASE o.step = "children" /\ kind = Live /\ s = "row"
      <3>1. y \in Pieces /\ Deals(w, q, y) => Deals(o, q, y)
        BY <1>3, <2>4, OrderFields DEF Deals
      <3> QED
        BY <2>1, <2>2, <2>4, <3>1, DealtIs
    <2> QED
      BY <2>3, <2>4
  <1>10. WhereInv' /\ Placed' /\ strays' \subseteq Cats \cup Pieces /\ slips' \in 0 .. MaxSlips
    <2>1. kind \subseteq Cats \cup Pieces
      BY LiveAreCats
    <2>2. TakeOut(c, kind)
      BY <1>8
    <2> QED
      BY <1>1, <1>4, <1>9, <2>1, <2>2, TakeOutKeeps
  <1>11. TreeTypes'
    BY <1>1, <1>7, <1>10, TreeAre, TreeTypesFrom
  <1> QED
    BY <1>4, <1>7, <1>10, <1>11 DEF TreeInv, WhereInv

LEMMA DeletingOrder ==
    ASSUME TreeInv, NEW e \in Editors, order[e].step \in {"articles", "children", "row"}
    PROVE  \E o \in Orders : /\ order[e] = o /\ OrderShape(o) /\ OrderFits(o) /\ o.op = "delete"
  <1>1. TreeTypes /\ OrdersFit
    BY TheTreeParts
  <1>2. PICK o \in Orders : order[e] = o /\ OrderShape(o) /\ OrderFits(o)
    BY <1>1, OrderIs
  <1>3. o.op = "delete"
    BY <1>2, OrderFields DEF OrderShape
  <1> QED
    BY <1>2, <1>3

LEMMA MoveArticlesKeeps ==
    ASSUME TreeInv, NEW e \in Editors, MoveArticles(e)
    PROVE  TreeInv'
  <1>1. order[e].step = "articles"
    BY DEF MoveArticles
  <1>2. PICK o \in Orders : order[e] = o /\ OrderShape(o) /\ OrderFits(o) /\ o.op = "delete"
    BY <1>1, DeletingOrder
  <1>3. /\ TakeOut(o.moves[1].id, Pieces) /\ Step(e, "children") /\ UNCHANGED <<category, orders>>
        /\ o.step = "articles"
    BY <1>2 DEF MoveArticles
  <1> QED
    BY <1>2, <1>3, MoveOutKeeps

LEMMA MoveChildrenKeeps ==
    ASSUME TreeInv, NEW e \in Editors, MoveChildren(e)
    PROVE  TreeInv'
  <1>1. order[e].step = "children"
    BY DEF MoveChildren
  <1>2. PICK o \in Orders : order[e] = o /\ OrderShape(o) /\ OrderFits(o) /\ o.op = "delete"
    BY <1>1, DeletingOrder
  <1>3. /\ TakeOut(o.moves[1].id, Live) /\ Step(e, "row") /\ UNCHANGED <<category, orders>>
        /\ o.step = "children"
    BY <1>2 DEF MoveChildren
  <1> QED
    BY <1>2, <1>3, MoveOutKeeps

(* The row goes when nothing but strays is in it.                            *)
LEMMA DeleteCategoryKeeps ==
    ASSUME TreeInv, NEW e \in Editors, DeleteCategory(e)
    PROVE  TreeInv'
  <1>1. TreeTypes /\ RowsInTurn /\ OrdersFit /\ WhereInv
    BY TheTreeParts
  <1>2. order[e].step = "row"
    BY DEF DeleteCategory
  <1>3. PICK o \in Orders : order[e] = o /\ OrderShape(o) /\ OrderFits(o) /\ o.op = "delete"
    BY <1>2, DeletingOrder
  <1>4. PICK c \in Cats : c = o.moves[1].id /\ c \in Rows
    BY <1>3, LiveAreCats DEF OrderFits
  <1>5. /\ category' = [category EXCEPT ![c].state = "deleted"]
        /\ order' = [order EXCEPT ![e] = NoOrder]
        /\ UNCHANGED <<under, orders, slips, strays>>
    BY <1>3, <1>4 DEF DeleteCategory, EndOrder
  <1>6. PICK r \in [state : {"never", "live", "deleted"}, slug : Slugs] : r = category[c]
    BY <1>1, TreeAre
  <1> DEFINE g == [r EXCEPT !.state = "deleted"]
  <1>7. /\ g \in [state : {"never", "live", "deleted"}, slug : Slugs]
        /\ g.state = "deleted" /\ g.slug = r.slug
    OBVIOUS
  <1>8. category' = [category EXCEPT ![c] = g]
    BY <1>5, <1>6
  <1> HIDE DEF g
  <1>9. /\ category' \in [Cats -> [state : {"never", "live", "deleted"}, slug : Slugs]]
        /\ category'[c] = g /\ \A d \in Cats : d # c => category'[d] = category[d]
    BY <1>1, <1>7, <1>8, TreeAre
  <1>10. Live' = Live \ {c} /\ Rows' = Rows
    BY <1>4, <1>7, <1>9 DEF Live, Rows
  <1>11. RowsInTurn'
    <2>1. \A d \in Rows : category'[d].slug = category[d].slug
      BY <1>6, <1>7, <1>9, LiveAreCats
    <2> QED
      BY <1>1, <1>10, <2>1 DEF RowsInTurn
  <1>12. /\ order' \in [Editors -> Orders \cup {NoOrder}] /\ OrdersFit'
         /\ \A f \in Editors : order'[f] # NoOrder => OrderShape(order'[f])
    BY <1>1, <1>5, <1>10, OneOrder
  <1>13. \A q, y : DealtWith(q, y)' => DealtWith(q, y)
    BY <1>1, <1>5, DealtLess
  <1>14. WhereInv'
    <2>1. \A x \in Live \cup Pieces : under[x] \in Live \ Live' => x \in strays
      <3> SUFFICES ASSUME NEW x \in Live \cup Pieces, under[x] = c
                   PROVE  x \in strays
        BY <1>10
      <3>1. Deals(o, c, x)
        BY <1>2, <1>3, <1>4, OrderFields DEF Deals
      <3>2. DealtWith(under[x], x)
        BY <1>3, <3>1, DealtIs
      <3> QED
        BY <1>1, <3>2 DEF WhereInv, DealtAreStrays
    <2>2. \A x \in Live \cup Pieces : DealtWith(under[x], x)' => DealtWith(under[x], x)
      <3> SUFFICES ASSUME NEW x \in Live \cup Pieces, DealtWith(under[x], x)'
                   PROVE  DealtWith(under[x], x)
        OBVIOUS
      <3>1. PICK q : q = under[x]
        OBVIOUS
      <3>2. DealtWith(q, x)'
        BY <1>5, <3>1 DEF DealtWith
      <3> QED
        BY <1>13, <3>1, <3>2
    <2> QED
      BY <1>1, <1>5, <1>10, <2>1, <2>2, WhereStays
  <1>15. TreeTypes'
    <2>1. Placed'
      BY <1>1, <1>5, TreeAre DEF Placed
    <2> QED
      BY <1>1, <1>5, <1>9, <1>12, <2>1, TreeAre, TreeTypesFrom
  <1> QED
    BY <1>11, <1>12, <1>14, <1>15 DEF TreeInv, WhereInv

LEMMA StopKeeps ==
    ASSUME TreeInv, NEW e \in Editors, Stop(e)
    PROVE  TreeInv'
  <1>1. EndOrder(e) /\ UNCHANGED <<category, under, orders, strays>>
    BY DEF Stop
  <1>2. slips' \in 0 .. MaxSlips
    BY TheTreeParts, TreeAre, TreeNats DEF Stop
  <1> QED
    BY <1>1, <1>2, EndKeeps

LEMMA TreeStep ==
    ASSUME TreeInv, TreeNext
    PROVE  TreeInv'
  <1>1. ASSUME NEW e \in Editors,
               \/ \E p \in Cats \cup {Root} : StartCreate(e, p)
               \/ \E c \in Cats, p \in Cats \cup {Root} : StartUpdate(e, c, p)
               \/ \E c, d \in Rows, p, q \in Cats \cup {Root} : c # d /\ StartReorder(e, c, p, d, q)
               \/ \E c \in Cats : StartDeletion(e, c)
        PROVE  TreeInv'
    BY <1>1, StartKeeps
  <1>2. ASSUME NEW e \in Editors,
               \/ Create(e) \/ UpdateFields(e) \/ UpdateSortOrder(e)
               \/ MoveArticles(e) \/ MoveChildren(e) \/ DeleteCategory(e) \/ Stop(e)
        PROVE  TreeInv'
    BY <1>2, CreateKeeps, UpdateFieldsKeeps, ReorderKeeps, MoveArticlesKeeps, MoveChildrenKeeps,
       DeleteCategoryKeeps, StopKeeps
  <1>3. ASSUME NEW a \in Pieces, NEW c \in Cats, SetCategory(a, c)
        PROVE  TreeInv'
    BY <1>3, SetCategoryKeeps
  <1> QED
    BY <1>1, <1>2, <1>3 DEF TreeNext

LEMMA TreeStart ==
    ASSUME TreeInit
    PROVE  TreeInv
  <1>1. /\ category = [c \in Cats |-> [state |-> "never", slug |-> 0]]
        /\ under = [x \in Cats \cup Pieces |-> Root]
        /\ order = [e \in Editors |-> NoOrder] /\ orders = 0 /\ slips = 0 /\ strays = {}
    BY DEF TreeInit
  <1>2. Rows = {} /\ Live = {}
    BY <1>1 DEF Rows, Live
  <1>3. \A e \in Editors : order[e] = NoOrder
    BY <1>1
  <1>4. TreeTypes
    <2>1. 0 \in Slugs /\ orders \in 0 .. MaxOrders /\ slips \in 0 .. MaxSlips
      BY <1>1, TreeNats DEF Slugs
    <2>2. category \in [Cats -> [state : {"never", "live", "deleted"}, slug : Slugs]]
      BY <1>1, <2>1
    <2>3. under \in [Cats \cup Pieces -> Cats \cup {Root}]
      BY <1>1
    <2>4. order \in [Editors -> Orders \cup {NoOrder}]
      BY <1>1
    <2> QED
      BY <1>1, <1>3, <2>1, <2>2, <2>3, <2>4 DEF TreeTypes, TreeTypeOK
  <1>5. RowsInTurn /\ OrdersFit /\ ParentsAreLive
    BY <1>2, <1>3 DEF RowsInTurn, OrdersFit, ParentsAreLive
  <1>6. RefsAreLive
    BY <1>1 DEF RefsAreLive
  <1>7. DealtAreStrays
    BY <1>3 DEF DealtAreStrays, DealtWith
  <1>8. NoTrap
    BY <1>1, PiecesApart DEF NoTrap
  <1> QED
    BY <1>4, <1>5, <1>6, <1>7, <1>8 DEF TreeInv

LEMMA TreeRests ==
    ASSUME TreeInv, UNCHANGED treeVars
    PROVE  TreeInv'
  <1>1. UNCHANGED <<category, under, order, orders, slips, strays>>
    BY DEF treeVars
  <1>2. TreeTypes /\ RowsInTurn /\ OrdersFit /\ WhereInv
    BY TheTreeParts
  <1>3. Live' = Live /\ Rows' = Rows /\ RowsInTurn'
    BY <1>1, <1>2, SameRows
  <1>4. OrdersFit'
    BY <1>1, <1>2, <1>3 DEF OrdersFit, OrderFits
  <1>5. TreeTypes'
    BY <1>1, <1>2 DEF TreeTypes, TreeTypeOK
  <1>6. ParentsAreLive' /\ RefsAreLive' /\ NoTrap'
    BY <1>1, <1>2, <1>3 DEF WhereInv, ParentsAreLive, RefsAreLive, NoTrap
  <1>7. DealtAreStrays'
    BY <1>1, <1>2, <1>3 DEF WhereInv, DealtAreStrays, DealtWith
  <1> QED
    BY <1>3, <1>4, <1>5, <1>6, <1>7 DEF TreeInv

(* The live categories of a chain that are not in the tree would be a trap.   *)
LEMMA TreeShows ==
    ASSUME TreeInv
    PROVE  TreeShowsAll
  <1>1. TreeTypes /\ WhereInv /\ Placed
    BY TheTreeParts, TreeAre
  <1> SUFFICES ASSUME NEW c \in Live \ BuildCategoryTree, Chain(c) \cap strays = {}
               PROVE  FALSE
    BY DEF TreeShowsAll
  <1>2. /\ c \in Chain(c) /\ Chain(c) \subseteq Cats
        /\ \A y \in Chain(c) : under[y] \in Chain(c) \cup {Root}
    BY <1>1, ChainClosed, LiveAreCats
  <1>3. \A d \in Live : under[d] \in BuildCategoryTree \cup {Root} => d \in BuildCategoryTree
    BY <1>1, TreeClosed
  <1> DEFINE T == (Chain(c) \cap Live) \ BuildCategoryTree
  <1>4. T \in SUBSET (Cats \ strays) /\ T # {}
    BY <1>2
  <1>5. PICK d \in T : under[d] \notin T
    BY <1>1, <1>4 DEF WhereInv, NoTrap
  <1>6. under[d] \in Live /\ under[d] \in Chain(c)
    BY <1>1, <1>2, <1>3, <1>5, PiecesApart, LiveAreCats DEF WhereInv, ParentsAreLive
  <1> QED
    BY <1>3, <1>5, <1>6

LEMMA TreeForm ==
    ASSUME TreeInv
    PROVE  TreeTypeOK /\ TreeHolds
  <1>1. TreeTypes /\ RowsInTurn /\ OrdersFit /\ WhereInv
    BY TheTreeParts
  <1>2. SlugRefusalsExplained
    <2> SUFFICES ASSUME NEW e \in Editors, order[e].step = "refused"
                 PROVE  \E c \in Rows : /\ category[c].slug = order[e].slug
                                        /\ c \notin Live \cap order[e].holders
      BY DEF SlugRefusalsExplained
    <2>1. PICK o \in Orders : order[e] = o /\ OrderShape(o) /\ OrderFits(o)
      BY <1>1, OrderIs
    <2>2. o.op \in {"create", "update"} /\ o.slug # Kept /\ o.step = "refused"
      BY <2>1, OrderFields DEF OrderShape
    <2>3. o.holders = {} /\ o.slug + 1 \in Rows
      BY <2>1, <2>2 DEF OrderFits
    <2>4. o.slug \in Nat
      BY <2>2, OrderFields, KeptIsNone
    <2>5. category[o.slug + 1].slug = o.slug
      BY <1>1, <2>3, <2>4 DEF RowsInTurn
    <2> QED
      BY <2>1, <2>3, <2>5
  <1> QED
    BY <1>1, <1>2, TreeShows DEF TreeHolds, TreeTypes, WhereInv

---------------------------------------------------------------------------------
(* All three.                                                                *)

LEMMA AllStart ==
    ASSUME Init
    PROVE  BackupInv /\ TreeInv /\ TagInv
  BY BackupsStart, TreeStart, TagsStart DEF Init

LEMMA AllStep ==
    ASSUME BackupInv, TreeInv, TagInv, [Next]_operationsVars
    PROVE  (BackupInv /\ TreeInv /\ TagInv)'
  <1>1. CASE BackupsNext /\ UNCHANGED <<treeVars, tagVars>>
    BY <1>1, BackupStep, TreeRests, TagsRest
  <1>2. CASE TreeNext /\ UNCHANGED <<backupVars, tagVars>>
    BY <1>2, BackupRests, TreeStep, TagsRest
  <1>3. CASE TagsNext /\ UNCHANGED <<backupVars, treeVars>>
    BY <1>3, BackupRests, TreeRests, TagStep
  <1>4. CASE UNCHANGED operationsVars
    BY <1>4, BackupRests, TreeRests, TagsRest DEF operationsVars
  <1> QED
    BY <1>1, <1>2, <1>3, <1>4 DEF Next

(* The variables of the library, the tree and the tags keep their types, and  *)
(* what a request under way holds is what its step needs.                     *)
THEOREM OperationsTypeCorrect == Spec => []TypeOK
  <1>1. Init => BackupInv /\ TreeInv /\ TagInv
    BY AllStart
  <1>2. (BackupInv /\ TreeInv /\ TagInv) /\ [Next]_operationsVars
        => (BackupInv /\ TreeInv /\ TagInv)'
    BY AllStep
  <1>3. BackupInv /\ TreeInv /\ TagInv => TypeOK
    BY TheParts, TypesAre, TreeForm, TagsForm DEF TypeOK, BackupTypes
  <1> QED
    BY <1>1, <1>2, <1>3, PTL DEF Spec

(* Every live category is shown in the tree and every article's category is   *)
(* live, but for what a request put under a missing row, under itself or under *)
(* a category being deleted; a slug found free is refused only for a row       *)
(* deleted before or written since; the counts of tags match their links but    *)
(* for named drifts, and a merge answered as a success has carried each        *)
(* article over or left it with a source whose statement failed unseen         *)
(* (CategoryService, TagService.Merge).                                        *)
THEOREM TaxonomyAlwaysHolds == Spec => []TaxonomyHolds
  <1>1. Init => BackupInv /\ TreeInv /\ TagInv
    BY AllStart
  <1>2. (BackupInv /\ TreeInv /\ TagInv) /\ [Next]_operationsVars
        => (BackupInv /\ TreeInv /\ TagInv)'
    BY AllStep
  <1>3. BackupInv /\ TreeInv /\ TagInv => TaxonomyHolds
    BY TreeForm, TagsForm DEF TaxonomyHolds
  <1> QED
    BY <1>1, <1>2, <1>3, PTL DEF Spec
=================================================================================
