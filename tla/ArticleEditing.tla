----------------------------- MODULE ArticleEditing -----------------------------
(***************************************************************************)
(* Reading and editing the content of one article.  Reads by id and lists   *)
(* go through a cache, in Redis or in the memory of each process, with one  *)
(* database load for all concurrent misses of a process; edits commit, then *)
(* count up the generation that is part of the list keys of their process,  *)
(* then delete the detail entry.  A client updates with the version it has  *)
(* read (optimistic locking); restoring a revision, a status transition and *)
(* a delete ask for no version.  A bulk action is a delete, or a transition *)
(* whose reload succeeds.                                                   *)
(*                                                                          *)
(* "edition" counts the committed changes of the article, whatever they     *)
(* change, and "text" is the edition in which its content was written.      *)
(***************************************************************************)
EXTENDS Integers

CONSTANTS
    Instances,    \* server processes
    Shared,       \* TRUE: one Redis cache; FALSE: a MemoryDriver per process
    Clients,      \* editors and readers
    OfferedEdits, \* the edits clients ask for
    MaxReads,     \* bound: requests that read
    MaxEdits,     \* bound: requests that edit
    MaxRestarts   \* bound: processes restarted

EditOps == {"update", "annotate", "restore", "transition", "delete"}

ASSUME SharedAssumption == Shared \in BOOLEAN /\ "redis" \notin Instances
ASSUME OfferedAssumption == OfferedEdits \subseteq EditOps
ASSUME BoundsAssumption == MaxReads \in Nat /\ MaxEdits \in Nat /\ MaxRestarts \in Nat

VARIABLES
    article,      \* the row: content, version, edition
    live,         \* FALSE after the soft delete
    revisions,    \* texts kept in the revisions table
    store,        \* store[k]: entries of a cache
    cacheGen,     \* cacheGen[i]: list generation of process i
    read,         \* read[c]: the read request of client c
    edit,         \* edit[c]: the edit request of client c
    last,         \* last[c]: the last answer client c has read
    bumped,       \* history: latest edition process i has counted up for
    restoredAt,   \* history: edition of the last restore
    skipped,      \* history: an edit was committed and never invalidated
    reads,        \* read requests so far
    edits,        \* edit requests so far
    restarts      \* restarts so far

caching == <<store, cacheGen, bumped, skipped>>
bounds  == <<reads, edits, restarts>>
vars    == <<article, live, revisions, caching, read, edit, last, restoredAt, bounds>>

Article  == [text : Nat, version : Nat, edition : Nat]
Key      == [kind : {"detail", "list"}, gen : Nat]
Entry    == [key : Key, got : Article, overtaken : BOOLEAN]
Stores   == IF Shared THEN {"redis"} ELSE Instances
StoreOf(i) == IF Shared THEN "redis" ELSE i

Read == [phase : {"miss", "join", "load", "fill"}, at : Instances,
         key : Key, since : Nat, got : Article, overtaken : BOOLEAN]
Edit == [phase : {"commit", "reload", "bump", "invalidate"}, at : Instances,
         op : EditOps, base : Article, edition : Nat]
Answer == [got : Article, behind : BOOLEAN]

Unread == [text |-> 0, version |-> 0, edition |-> 0]
Idle   == [phase |-> "idle"]

DetailKey == [kind |-> "detail", gen |-> 0]

ListKeyBehind(i) == [kind |-> "list", gen |-> cacheGen[i] - 1]

ListKey(i) == [kind |-> "list", gen |-> cacheGen[i]]

TypeOK ==
    /\ article \in Article
    /\ live \in BOOLEAN
    /\ revisions \in SUBSET Nat
    /\ store \in [Stores -> SUBSET Entry]
    /\ cacheGen \in [Instances -> Nat]
    /\ read \in [Clients -> Read \cup {Idle}]
    /\ edit \in [Clients -> Edit \cup {Idle}]
    /\ last \in [Clients -> Answer]
    /\ bumped \in [Instances -> Nat]
    /\ restoredAt \in Nat
    /\ skipped \in BOOLEAN
    /\ reads \in 0 .. MaxReads
    /\ edits \in 0 .. MaxEdits
    /\ restarts \in 0 .. MaxRestarts

(* The article as Create leaves it, with its first revision.                *)
Init ==
    /\ article = [text |-> 1, version |-> 1, edition |-> 1]
    /\ live = TRUE
    /\ revisions = {1}
    /\ store = [k \in Stores |-> {}]
    /\ cacheGen = [i \in Instances |-> 0]
    /\ read = [c \in Clients |-> Idle]
    /\ edit = [c \in Clients |-> Idle]
    /\ last = [c \in Clients |-> [got |-> Unread, behind |-> FALSE]]
    /\ bumped = [i \in Instances |-> 0]
    /\ restoredAt = 0
    /\ skipped = FALSE
    /\ reads = 0
    /\ edits = 0
    /\ restarts = 0

---------------------------------------------------------------------------------
(* Reading: the key is built first, then the cache is asked, and a miss      *)
(* joins the load under way for its key in its process, or leads one.       *)

Cached(i, key) == {e \in store[StoreOf(i)] : e.key = key}

Reads(c, phase) == read[c].phase = phase

Sharing(c, phases) ==
    {d \in Clients : /\ read[d].phase \in phases
                     /\ read[d].at = read[c].at /\ read[d].key = read[c].key}

Outdated(key, got, since) == key.kind = "list" /\ got.edition < since

(* The clients C receive what the request of c obtained.                     *)
Receive(C, got) ==
    /\ last' = [d \in Clients |->
          IF d \in C
          THEN [got |-> got, behind |-> Outdated(read[d].key, got, read[d].since)]
          ELSE last[d]]
    /\ read' = [d \in Clients |-> IF d \in C THEN Idle ELSE read[d]]

(* A Redis that does not answer counts as a miss.                            *)
Misses(i, key) == Cached(i, key) = {} \/ Shared

Ask(c, i) ==
    /\ Reads(c, "idle")
    /\ reads < MaxReads
    /\ reads' = reads + 1
    /\ \E key \in {DetailKey, ListKey(i)} :
          \/ \E e \in Cached(i, key) :
                /\ last' = [last EXCEPT ![c] =
                      [got |-> e.got, behind |-> Outdated(key, e.got, bumped[i])]]
                /\ UNCHANGED read
          \/ /\ Misses(i, key)
             /\ read' = [read EXCEPT ![c] =
                   [phase |-> "miss", at |-> i, key |-> key, since |-> bumped[i],
                    got |-> Unread, overtaken |-> FALSE]]
             /\ UNCHANGED last
    /\ UNCHANGED <<article, live, revisions, caching, edit, restoredAt, edits, restarts>>

(* singleflight: join, or lead and look into the cache once more.            *)
Fly(c) ==
    /\ Reads(c, "miss")
    /\ IF Sharing(c, {"load", "fill"}) # {}
       THEN read' = [read EXCEPT ![c].phase = "join"] /\ UNCHANGED last
       ELSE \/ \E e \in Cached(read[c].at, read[c].key) : Receive({c}, e.got)
            \/ /\ Misses(read[c].at, read[c].key)
               /\ read' = [read EXCEPT ![c].phase = "load"]
               /\ UNCHANGED last
    /\ UNCHANGED <<article, live, revisions, caching, edit, restoredAt, bounds>>

(* A list is loaded without the deleted article, by id it is not found.      *)
Load(c) ==
    /\ Reads(c, "load")
    /\ live \/ read[c].key.kind = "list"
    /\ read' = [read EXCEPT ![c].phase = "fill", ![c].got = article]
    /\ UNCHANGED <<article, live, revisions, caching, edit, last, restoredAt, bounds>>

(* The query finds nothing or fails: all who share the load get the error.   *)
LoadFails(c) ==
    /\ Reads(c, "load")
    /\ read' = [d \in Clients |->
          IF d = c \/ d \in Sharing(c, {"join"}) THEN Idle ELSE read[d]]
    /\ UNCHANGED <<article, live, revisions, caching, edit, last, restoredAt, bounds>>

FilledKeyAnew(c) ==
    IF read[c].key.kind = "list" THEN ListKey(read[c].at) ELSE DetailKey

FilledKey(c) == read[c].key

Filled(c) ==
    {e \in store[StoreOf(read[c].at)] : e.key # FilledKey(c)}
    \cup {[key |-> FilledKey(c), got |-> read[c].got, overtaken |-> read[c].overtaken]}

(* The entry is set, which Redis may fail to do, and the load is shared.     *)
Fill(c) ==
    /\ Reads(c, "fill")
    /\ \/ store' = [store EXCEPT ![StoreOf(read[c].at)] = Filled(c)]
       \/ Shared /\ UNCHANGED store
    /\ Receive({c} \cup Sharing(c, {"join"}), read[c].got)
    /\ UNCHANGED <<article, live, revisions, cacheGen, bumped, skipped, edit, restoredAt,
                   bounds>>

(* The time to live of an entry ends, or it is evicted.                      *)
Expire(k) ==
    /\ \E e \in store[k] : store' = [store EXCEPT ![k] = @ \ {e}]
    /\ UNCHANGED <<article, live, revisions, cacheGen, bumped, skipped, read, edit, last,
                   restoredAt, bounds>>

---------------------------------------------------------------------------------
(* Editing: load and check, commit, then invalidate the cache.               *)

Edits(c, phase) == edit[c].phase = phase

(* Every edit begins with a query that must find the article.  An update     *)
(* carries the version the client has read last; a restore, the revision it  *)
(* names.                                                                    *)
Submit(c, i, op) ==
    /\ Edits(c, "idle")
    /\ edits < MaxEdits
    /\ edits' = edits + 1
    /\ live
    /\ \E base \in CASE op = "update"  -> {last[c].got} \ {Unread}
                     [] op = "restore" -> {[Unread EXCEPT !.text = t] : t \in revisions}
                     [] OTHER          -> {Unread} :
          edit' = [edit EXCEPT ![c] =
              [phase |-> "commit", at |-> i, op |-> op, base |-> base, edition |-> 0]]
    /\ UNCHANGED <<article, live, revisions, caching, read, last, restoredAt, reads, restarts>>

(* Now the change is stored: on to the invalidation, through a reload if     *)
(* the method has one.                                                       *)
Committed(c, phase) ==
    edit' = [edit EXCEPT ![c].phase = phase, ![c].edition = article'.edition]

AcceptedBlindly(base) == live

(* WHERE version = expected, in the scope of the soft delete.                *)
Accepted(base) == live /\ base.version = article.version

CommitUpdate(c) ==
    /\ Edits(c, "commit")
    /\ edit[c].op = "update"
    /\ IF Accepted(edit[c].base)
       THEN /\ article' = [text |-> article.edition + 1, version |-> article.version + 1,
                           edition |-> article.edition + 1]
            /\ revisions' = revisions \cup {article'.text}
            /\ Committed(c, "bump")
       ELSE edit' = [edit EXCEPT ![c] = Idle] /\ UNCHANGED <<article, revisions>>
    /\ UNCHANGED <<live, caching, read, last, restoredAt, bounds>>

(* An update of no field: no look at the version, but one more revision.     *)
CommitAnnotate(c) ==
    /\ Edits(c, "commit")
    /\ edit[c].op = "annotate"
    /\ IF live
       THEN revisions' = revisions \cup {article.text} /\ UNCHANGED article /\ Committed(c, "bump")
       ELSE edit' = [edit EXCEPT ![c] = Idle] /\ UNCHANGED <<article, revisions>>
    /\ UNCHANGED <<live, caching, read, last, restoredAt, bounds>>

(* RestoreRevision writes the old text and leaves the version as it is.      *)
CommitRestore(c) ==
    /\ Edits(c, "commit")
    /\ edit[c].op = "restore"
    /\ IF live
       THEN /\ article' = [article EXCEPT !.text = edit[c].base.text, !.edition = @ + 1]
            /\ restoredAt' = article.edition + 1
       ELSE UNCHANGED <<article, restoredAt>>
    /\ Committed(c, "bump")
    /\ UNCHANGED <<live, revisions, caching, read, last, bounds>>

(* A status changes; the reload that follows may end the method early.       *)
CommitTransition(c) ==
    /\ Edits(c, "commit")
    /\ edit[c].op = "transition"
    /\ article' = IF live THEN [article EXCEPT !.edition = @ + 1] ELSE article
    /\ Committed(c, "reload")
    /\ UNCHANGED <<live, revisions, caching, read, last, restoredAt, bounds>>

Reload(c) ==
    /\ Edits(c, "reload")
    /\ live
    /\ edit' = [edit EXCEPT ![c].phase = "bump"]
    /\ UNCHANGED <<article, live, revisions, caching, read, last, restoredAt, bounds>>

ReloadFails(c) ==
    /\ Edits(c, "reload")
    /\ edit' = [edit EXCEPT ![c] = Idle]
    /\ skipped' = TRUE
    /\ UNCHANGED <<article, live, revisions, store, cacheGen, bumped, read, last,
                   restoredAt, bounds>>

CommitDelete(c) ==
    /\ Edits(c, "commit")
    /\ edit[c].op = "delete"
    /\ live' = FALSE
    /\ article' = IF live THEN [article EXCEPT !.edition = @ + 1] ELSE article
    /\ Committed(c, "bump")
    /\ UNCHANGED <<revisions, caching, read, last, restoredAt, bounds>>

(* The scheduler's sweep publishes the article: its service has no cache to  *)
(* invalidate.                                                               *)
SweepPublishes ==
    /\ live
    /\ edits < MaxEdits
    /\ edits' = edits + 1
    /\ article' = [article EXCEPT !.edition = @ + 1]
    /\ skipped' = TRUE
    /\ UNCHANGED <<live, revisions, store, cacheGen, bumped, read, edit, last, restoredAt,
                   reads, restarts>>

(* A transaction fails and is rolled back.                                   *)
CommitFails(c) ==
    /\ Edits(c, "commit")
    /\ edit' = [edit EXCEPT ![c] = Idle]
    /\ UNCHANGED <<article, live, revisions, caching, read, last, restoredAt, bounds>>

---------------------------------------------------------------------------------
(* invalidateArticle: count up the generation, then delete the detail entry. *)

Later(m, n) == IF m < n THEN n ELSE m

Bump(c) ==
    /\ Edits(c, "bump")
    /\ LET i == edit[c].at IN
       /\ cacheGen' = [cacheGen EXCEPT ![i] = @ + 1]
       /\ bumped' = [bumped EXCEPT ![i] = Later(@, edit[c].edition)]
    /\ edit' = [edit EXCEPT ![c].phase = "invalidate"]
    /\ UNCHANGED <<article, live, revisions, store, skipped, read, last, restoredAt,
                   bounds>>

InvalidatedNothing(entries) == entries

Invalidated(entries) == {e \in entries : e.key # DetailKey}

(* A load of the detail that was read before and is not yet in the cache is  *)
(* overtaken by this.  Redis may fail to delete, and nobody is told.         *)
Invalidate(c) ==
    /\ Edits(c, "invalidate")
    /\ LET k == StoreOf(edit[c].at) IN
       \/ /\ store' = [store EXCEPT ![k] = Invalidated(@)]
          /\ read' = [d \in Clients |->
                IF Reads(d, "fill") /\ StoreOf(read[d].at) = k /\ read[d].key = DetailKey
                THEN [read[d] EXCEPT !.overtaken = TRUE]
                ELSE read[d]]
          /\ UNCHANGED skipped
       \/ /\ Shared
          /\ skipped' = TRUE
          /\ UNCHANGED <<store, read>>
    /\ edit' = [edit EXCEPT ![c] = Idle]
    /\ UNCHANGED <<article, live, revisions, cacheGen, bumped, last, restoredAt,
                   bounds>>

Of(request, i) == request # Idle /\ request.at = i

(* The process ends with its requests and its memory, and a new one begins   *)
(* to count its generations from zero.                                       *)
Restart(i) ==
    /\ restarts < MaxRestarts
    /\ restarts' = restarts + 1
    /\ cacheGen' = [cacheGen EXCEPT ![i] = 0]
    /\ store' = IF Shared THEN store ELSE [store EXCEPT ![i] = {}]
    /\ read' = [c \in Clients |-> IF Of(read[c], i) THEN Idle ELSE read[c]]
    /\ edit' = [c \in Clients |-> IF Of(edit[c], i) THEN Idle ELSE edit[c]]
    /\ skipped' = (skipped \/ \E c \in Clients : Of(edit[c], i) /\ edit[c].phase # "commit")
    /\ UNCHANGED <<article, live, revisions, bumped, last, restoredAt, reads, edits>>

Reading(c) ==
    \/ \E i \in Instances : Ask(c, i)
    \/ Fly(c) \/ Load(c) \/ LoadFails(c) \/ Fill(c)

Editing(c) ==
    \/ \E i \in Instances, op \in OfferedEdits : Submit(c, i, op)
    \/ CommitUpdate(c) \/ CommitAnnotate(c) \/ CommitRestore(c)
    \/ CommitTransition(c) \/ Reload(c) \/ ReloadFails(c)
    \/ CommitDelete(c) \/ CommitFails(c)
    \/ Bump(c) \/ Invalidate(c)

Next ==
    \/ \E c \in Clients : Reading(c) \/ Editing(c)
    \/ SweepPublishes
    \/ \E k \in Stores : Expire(k)
    \/ \E i \in Instances : Restart(i)

Spec == Init /\ [][Next]_vars

---------------------------------------------------------------------------------
(* Properties.                                                              *)

(* Read your writes for lists: a list answered by a process shows every edit *)
(* that this process had counted up for when the list was asked for, although*)
(* loads, joined loads and cached entries began earlier (listCacheKey: "all  *)
(* prior list keys become unreachable").                                     *)
ListsAreCurrent ==
    \A c \in Clients : ~last[c].behind

StaleDetails ==
    {e \in UNION {store[k] : k \in Stores} : e.key = DetailKey /\ e.got.edition # article.edition}

(* A cached article is out of date only while an edit is on its way to the   *)
(* invalidation, or because a load was overtaken by one, or because an edit  *)
(* (or the sweep) ended without it.                                          *)
StaleDetailIsExplained ==
    \A e \in StaleDetails :
        \/ e.overtaken
        \/ skipped
        \/ \E c \in Clients : edit[c].phase \in {"reload", "bump", "invalidate"}

(* The update of c is accepted in this step.                                 *)
AcceptsUpdate(c) ==
    /\ Edits(c, "commit")
    /\ edit[c].op = "update"
    /\ edit'[c].phase = "bump"

(* No lost update but by a restore: an accepted update was written by a      *)
(* client that had read the text it replaces, through whatever stale caches  *)
(* (repository Update, optimistic lock), unless a revision was restored since. *)
UpdatesSawLatest ==
    [][\A c \in Clients :
          AcceptsUpdate(c) /\ restoredAt <= edit[c].base.edition
          => edit[c].base.text = article.text]_vars

(* "If the row was modified by another writer, RowsAffected = 0 and we       *)
(* return ErrConcurrentModification": the same, with restores.               *)
NoLostUpdate ==
    [][\A c \in Clients : AcceptsUpdate(c) => edit[c].base.text = article.text]_vars
=================================================================================
