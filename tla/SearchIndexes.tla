------------------------------ MODULE SearchIndexes ------------------------------
(***************************************************************************)
(* The two search indexes of a server process: the full-text index in its    *)
(* memory, and the vectors in its memory with their rows in the database.    *)
(* Every request that writes an article brings both up to date afterwards,   *)
(* in steps that others come between; an administrator, or the start of the  *)
(* process, rebuilds one of them from the tables while requests go on.       *)
(*                                                                          *)
(* Both indexes hold the articles of all tenants.  The vectors are rebuilt    *)
(* for one tenant at a time; the full-text index is emptied of all tenants   *)
(* and filled with the articles of the default tenant.                       *)
(*                                                                          *)
(* An article is a text (the number of the write that made it) and whether   *)
(* it is published; all other statuses are "draft" here.  It is one chunk.   *)
(* A bulk action is on one article: with several it does the same for each   *)
(* in turn.                                                                  *)
(***************************************************************************)
EXTENDS Integers, Sequences, FiniteSets

CONSTANTS
    Docs,        \* ids of articles, in the order of their creation
    Pages,       \* those of post type "page"
    Tenants,     \* a tenant is the set of its articles
    DefaultTenant,
    Workers,     \* goroutines of requests and of reindexing
    BatchSize,   \* articles loaded at once (100)
    MaxActive,   \* bound: requests and rebuilds at a time
    MaxOps,      \* bound: requests, rebuilds, failures and restarts
    MaxBreaks,   \* bound: steps that fail
    MaxRestarts  \* bound: ends of the process

ASSUME DocAssumption == Docs \subseteq Nat \ {0} /\ IsFiniteSet(Docs) /\ Pages \subseteq Docs
ASSUME TenantAssumption ==
    /\ DefaultTenant \in Tenants /\ UNION Tenants = Docs
    /\ \A S, T \in Tenants : S # T => S \cap T = {}
ASSUME IndexBounds == {MaxActive, MaxOps, MaxBreaks, MaxRestarts} \subseteq Nat /\ BatchSize \in Nat \ {0}

VARIABLES
    piece,       \* piece[d]: the row of article d
    documents,   \* documents[d]: BuiltinIndexer.docs, in memory
    embeddings,  \* the rows of document_embeddings
    vectors,     \* memoryVectorStore.data
    worker,      \* worker[w]: the request or rebuild w is at
    ops, breaks, restarts,
    healed       \* history: healed[d]: the indexes that were last brought up to date
                 \* for d by a job that nothing met and that did not fail

indexVars == <<piece, documents, embeddings, vectors, worker, ops, breaks, restarts, healed>>

(* Besides the workers, the two goroutines that the start of a process begins. *)
Slots == Workers \cup {"indexer", "warmer"}
Texts == 0 .. MaxOps

Rows   == [life : {"absent", "live", "deleted"}, status : {"draft", "published"}, text : Texts]
Copies == [doc : Docs, status : {"draft", "published", "gone"}, text : Texts]
Vectors == [doc : Docs, text : Texts]

Unlisted == [doc |-> 0]
AtRest   == [step |-> "rest"]

Writes   == {"create", "update", "restore", "workflow", "bulkPublish", "bulkRemove", "delete"}
Rebuilds == {"reindex", "relist", "warm"}
Steps    == {"reload", "list", "unlist", "dropRows", "dropVectors", "insert", "upsert", "load",
             "pruneVectors", "pruneRows", "collect", "clear", "relist", "read", "fill"}
Parts    == {"listed", "stored", "found", "counted", "omitted"}

Jobs == [op : Writes \cup Rebuilds, step : Steps, on : Docs \cup {0}, of : SUBSET Docs,
         copy : Copies \cup {Unlisted}, batch : Seq(Copies), offset : Nat,
         more : BOOLEAN, keep : SUBSET Docs, saw : SUBSET Vectors, alone : BOOLEAN]

IndexTypeOK ==
    /\ piece \in [Docs -> Rows]
    /\ documents \in [Docs -> Copies \cup {Unlisted}]
    /\ embeddings \subseteq Vectors /\ vectors \subseteq Vectors
    /\ \A w \in Slots : worker[w] = AtRest \/ worker[w] \in Jobs
    /\ ops \in 0 .. MaxOps /\ breaks \in 0 .. MaxBreaks /\ restarts \in 0 .. MaxRestarts
    /\ healed \in [Docs -> SUBSET Parts]

IndexInit ==
    /\ piece = [d \in Docs |-> [life |-> "absent", status |-> "draft", text |-> 0]]
    /\ documents = [d \in Docs |-> Unlisted]
    /\ embeddings = {} /\ vectors = {}
    /\ worker = [w \in Slots |-> AtRest]
    /\ ops = 0 /\ breaks = 0 /\ restarts = 0
    /\ healed = [d \in Docs |-> {}]

---------------------------------------------------------------------------------
(* Articles.                                                                 *)

IsLive(d)    == piece[d].life = "live"
Published(d) == IsLive(d) /\ piece[d].status = "published"

CopyOf(d) == [doc |-> d, status |-> piece[d].status, text |-> piece[d].text]
Gone(d)   == [doc |-> d, status |-> "gone", text |-> 0]

(* One page of a listing by age, from offset on.                             *)
PageOf(D, offset) ==
    LET left == Cardinality(D) - offset IN
    [n \in 1 .. (IF left < BatchSize THEN left ELSE BatchSize) |->
        CopyOf(CHOOSE d \in D : Cardinality({e \in D : e <= d}) = offset + n)]

---------------------------------------------------------------------------------
(* Jobs.                                                                     *)

InStep(w, step) == worker[w] # AtRest /\ worker[w].step = step

(* The indexes and the articles a job writes to; rebuilds are on 0.           *)
Listing == {"listed", "omitted"}
PartsOf(j) == IF j.op = "relist" THEN Listing
              ELSE IF j.op \in Rebuilds THEN Parts \ Listing ELSE Parts

Concerns(j, d) == d \in j.of

Meets(j, k) == j.of \cap k.of # {} /\ PartsOf(j) \cap PartsOf(k) # {}

NewJob(op, step, d, D, copy) ==
    [op |-> op, step |-> step, on |-> d, of |-> D, copy |-> copy, batch |-> <<>>, offset |-> 0,
     more |-> FALSE, keep |-> {}, saw |-> {}, alone |-> TRUE]

Job(op, step, d, copy)  == NewJob(op, step, d, {d}, copy)
RebuildOf(op, step, D) == NewJob(op, step, 0, D, Unlisted)

(* What the job touches is in flux from now on.                              *)
Unhealed(j) == [d \in Docs |-> IF Concerns(j, d) THEN healed[d] \ PartsOf(j) ELSE healed[d]]

Start(w, job) ==
    /\ worker[w] = AtRest
    /\ Cardinality({v \in Slots : worker[v] # AtRest}) < MaxActive
    /\ ops < MaxOps /\ ops' = ops + 1
    /\ worker' = [v \in Slots |->
          IF v = w
          THEN [job EXCEPT !.alone =
                   \A u \in Slots : worker[u] = AtRest \/ ~ Meets(worker[u], job)]
          ELSE IF worker[v] # AtRest /\ Meets(worker[v], job)
          THEN [worker[v] EXCEPT !.alone = FALSE]
          ELSE worker[v]]
    /\ healed' = Unhealed(job)

Goto(w, step) == worker' = [worker EXCEPT ![w].step = step]

(* Which indexes of d the job leaves in order, if nothing met it; the warm-up *)
(* reads the rows and leaves them as they are.                               *)
Repairs(j, d) ==
    CASE j.op = "bulkRemove" -> {"stored", "found"} \cup (IF d \in Pages THEN {} ELSE {"listed"})
      [] j.op = "reindex"    -> (IF d \in Pages THEN {} ELSE {"stored", "found"})
                                 \cup (IF d \in j.keep THEN {"counted"} ELSE {})
      [] j.op = "relist"     -> IF d \in DefaultTenant THEN {"listed"} ELSE {"omitted"}
      [] j.op = "warm"       -> IF "stored" \in healed[d] THEN {"found"} ELSE {}
      [] OTHER               -> {"listed", "stored", "found"}

EndJob(w) ==
    /\ worker' = [worker EXCEPT ![w] = AtRest]
    /\ healed' = [d \in Docs |->
          IF worker[w].alone /\ Concerns(worker[w], d)
          THEN healed[d] \cup Repairs(worker[w], d) ELSE healed[d]]

---------------------------------------------------------------------------------
(* Requests: the statement that writes the article, with the copy it has.     *)

Put(d, row) == piece' = [piece EXCEPT ![d] = row]

CreateDoc(w, d) ==
    /\ piece[d].life = "absent" /\ \A e \in Docs : e < d => piece[e].life # "absent"
    /\ \E status \in {"draft", "published"} :
          LET row == [life |-> "live", status |-> status, text |-> ops + 1] IN
          /\ Put(d, row)
          /\ Start(w, Job("create", "list", d, [doc |-> d, status |-> status, text |-> row.text]))

UpdateDoc(w, d) ==
    /\ IsLive(d)
    /\ Put(d, [piece[d] EXCEPT !.text = ops + 1])
    /\ Start(w, Job("update", "list", d, [CopyOf(d) EXCEPT !.text = ops + 1]))

RestoreDoc(w, d) ==
    /\ IsLive(d)
    /\ Put(d, [piece[d] EXCEPT !.text = ops + 1])
    /\ Start(w, Job("restore", "reload", d, Unlisted))

(* A method of the workflow: publish, or any of those that withdraw.         *)
ChangeStatus(w, d) ==
    /\ IsLive(d)
    /\ \E status \in {"draft", "published"} : Put(d, [piece[d] EXCEPT !.status = status])
    /\ Start(w, Job("workflow", "reload", d, Unlisted))

DeleteDoc(w, d) ==
    /\ IsLive(d)
    /\ Put(d, [piece[d] EXCEPT !.life = "deleted"])
    /\ Start(w, Job("delete", "unlist", d, Gone(d)))

BulkPublish(w, d) ==
    /\ piece[d].life # "absent"
    /\ Put(d, IF IsLive(d) THEN [piece[d] EXCEPT !.status = "published"] ELSE piece[d])
    /\ Start(w, Job("bulkPublish", "reload", d, Unlisted))

(* Draft, trash and delete.                                                  *)
BulkRemove(w, d) ==
    /\ piece[d].life # "absent"
    /\ \/ Put(d, [piece[d] EXCEPT !.status = IF IsLive(d) THEN "draft" ELSE @])
       \/ Put(d, [piece[d] EXCEPT !.life = "deleted"])
    /\ Start(w, Job("bulkRemove", "unlist", d, Gone(d)))

(* The sweep of the scheduler publishes through a service without indexes.    *)
SweepPublishes(d) ==
    /\ IsLive(d) /\ ~ Published(d)
    /\ ops < MaxOps /\ ops' = ops + 1
    /\ Put(d, [piece[d] EXCEPT !.status = "published"])
    /\ LET sweep == Job("workflow", "reload", d, Unlisted) IN
          /\ worker' = [v \in Slots |->
                IF worker[v] # AtRest /\ Meets(worker[v], sweep)
                THEN [worker[v] EXCEPT !.alone = FALSE] ELSE worker[v]]
          /\ healed' = Unhealed(sweep)

Write(w, d) ==
    /\ \/ CreateDoc(w, d) \/ UpdateDoc(w, d) \/ RestoreDoc(w, d) \/ ChangeStatus(w, d)
       \/ DeleteDoc(w, d) \/ BulkPublish(w, d) \/ BulkRemove(w, d)
    /\ UNCHANGED <<documents, embeddings, vectors, breaks, restarts>>

---------------------------------------------------------------------------------
(* Bringing the indexes up to date.                                          *)

(* reindexByID: an article that is gone is left as it is in the indexes.     *)
reindexByID(w) ==
    /\ InStep(w, "reload")
    /\ LET d == worker[w].on IN
          worker' = IF IsLive(d)
                    THEN [worker EXCEPT ![w].step = "list", ![w].copy = CopyOf(d)]
                    ELSE [worker EXCEPT ![w] = AtRest]
    /\ UNCHANGED <<piece, documents, embeddings, vectors, ops, breaks, restarts, healed>>

Index(w) ==
    /\ InStep(w, "list")
    /\ documents' = [documents EXCEPT ![worker[w].on] = worker[w].copy]
    /\ Goto(w, "dropRows")
    /\ UNCHANGED <<piece, embeddings, vectors, ops, breaks, restarts, healed>>

(* A bulk action names every article a post.                                 *)
Unindex(w) ==
    /\ InStep(w, "unlist")
    /\ documents' = IF worker[w].op = "bulkRemove" /\ worker[w].on \in Pages THEN documents
                    ELSE [documents EXCEPT ![worker[w].on] = Unlisted]
    /\ Goto(w, "dropRows")
    /\ UNCHANGED <<piece, embeddings, vectors, ops, breaks, restarts, healed>>

Without(V, d) == {v \in V : v.doc # d}

(* The reindexing turns to the next article.                                 *)
NextCopy(w, kept) ==
    LET j == worker[w]
        n == Len(j.batch)
    IN  /\ worker' = [worker EXCEPT ![w].keep = @ \cup kept,
              ![w].alone = @ /\ (kept # {}),
              ![w].copy = IF n = 0 THEN Unlisted ELSE Head(j.batch),
              ![w].batch = IF n = 0 THEN <<>> ELSE Tail(j.batch),
              ![w].step = IF n > 0 THEN "dropRows" ELSE IF j.more THEN "load" ELSE "pruneVectors"]
        /\ UNCHANGED healed

(* DeleteArticle, alone or before the new vectors are inserted.              *)
DropRows(w) ==
    /\ InStep(w, "dropRows")
    /\ embeddings' = Without(embeddings, worker[w].copy.doc)
    /\ Goto(w, "dropVectors")
    /\ UNCHANGED <<piece, documents, vectors, ops, breaks, restarts, healed>>

(* Only what is published is indexed.                                        *)
Indexed(copy) == copy.status = "published"

DropVectors(w) ==
    /\ InStep(w, "dropVectors")
    /\ vectors' = Without(vectors, worker[w].copy.doc)
    /\ IF Indexed(worker[w].copy)
       THEN Goto(w, "insert") /\ UNCHANGED healed
       ELSE EndJob(w)
    /\ UNCHANGED <<piece, documents, embeddings, ops, breaks, restarts>>

InsertRows(w) ==
    /\ InStep(w, "insert")
    /\ LET copy == worker[w].copy IN
          embeddings' = embeddings \cup {[doc |-> copy.doc, text |-> copy.text]}
    /\ Goto(w, "upsert")
    /\ UNCHANGED <<piece, documents, vectors, ops, breaks, restarts, healed>>

Upsert(w) ==
    /\ InStep(w, "upsert")
    /\ LET copy == worker[w].copy IN
          /\ vectors' = Without(vectors, copy.doc) \cup {[doc |-> copy.doc, text |-> copy.text]}
          /\ IF worker[w].op = "reindex" THEN NextCopy(w, {copy.doc}) ELSE EndJob(w)
    /\ UNCHANGED <<piece, documents, embeddings, ops, breaks, restarts>>

(* The embedding or a statement fails: a request tries again from the start,  *)
(* or gives up after the last try; the reindexing passes to the next article. *)
(* A job whose reading fails ends there.                                     *)
StepFails(w) ==
    /\ breaks < MaxBreaks /\ breaks' = breaks + 1
    /\ ops < MaxOps /\ ops' = ops + 1
    /\ \/ /\ InStep(w, "dropRows") \/ InStep(w, "insert")
          /\ worker[w].op # "reindex"
          /\ Goto(w, "dropRows") \/ worker' = [worker EXCEPT ![w] = AtRest]
          /\ UNCHANGED healed
       \/ /\ InStep(w, "dropRows") \/ InStep(w, "insert")
          /\ worker[w].op = "reindex"
          /\ NextCopy(w, {})
       \/ /\ \E step \in {"reload", "load", "collect", "read"} : InStep(w, step)
          /\ worker' = [worker EXCEPT ![w] = AtRest]
          /\ UNCHANGED healed
    /\ UNCHANGED <<piece, documents, embeddings, vectors, restarts>>

---------------------------------------------------------------------------------
(* reindex: the vectors of one tenant, one tenant at a time.                 *)

StartReindex(w) ==
    /\ ~ \E v \in Slots : worker[v] # AtRest /\ worker[v].op = "reindex"
    /\ \E D \in Tenants : Start(w, RebuildOf("reindex", "load", D))
    /\ UNCHANGED <<piece, documents, embeddings, vectors, breaks, restarts>>

LoadBatch(w) ==
    /\ InStep(w, "load")
    /\ LET batch == PageOf({d \in worker[w].of : Published(d)}, worker[w].offset) IN
          worker' = IF batch = <<>> THEN [worker EXCEPT ![w].step = "pruneVectors"]
                    ELSE [worker EXCEPT ![w].step = "dropRows",
                             ![w].copy = Head(batch), ![w].batch = Tail(batch),
                             ![w].offset = @ + BatchSize,
                             ![w].more = (Len(batch) = BatchSize)]
    /\ UNCHANGED <<piece, documents, embeddings, vectors, ops, breaks, restarts, healed>>

(* For the mutants: what is not known to be gone stays.                      *)
PruneDeleted(w) == {v \in vectors : v.doc \notin worker[w].of \/ IsLive(v.doc)}

(* In the tenant's partition; the keys to keep are built as those of articles, *)
(* which pages do not have.                                                  *)
Prune(w) == {v \in vectors : v.doc \notin worker[w].of \/ v.doc \in worker[w].keep \ Pages}

PruneVectors(w) ==
    /\ InStep(w, "pruneVectors")
    /\ vectors' = Prune(w)
    /\ Goto(w, "pruneRows")
    /\ UNCHANGED <<piece, documents, embeddings, ops, breaks, restarts, healed>>

(* Rows of pages are not looked at.                                          *)
pruneArticleEmbeddingRows(w) ==
    /\ InStep(w, "pruneRows")
    /\ embeddings' = {v \in embeddings : \/ v.doc \notin worker[w].of
                                         \/ v.doc \in Pages \cup worker[w].keep}
    /\ EndJob(w)
    /\ UNCHANGED <<piece, documents, vectors, ops, breaks, restarts>>

---------------------------------------------------------------------------------
(* ReindexAll: the full-text index, after a start or for an administrator.    *)

StartRelist(w) ==
    /\ Start(w, RebuildOf("relist", "collect", Docs))
    /\ UNCHANGED <<piece, documents, embeddings, vectors, breaks, restarts>>

CollectPage(w) ==
    /\ InStep(w, "collect")
    /\ LET batch == PageOf({d \in DefaultTenant : IsLive(d)}, worker[w].offset) IN
          worker' = [worker EXCEPT ![w].batch = @ \o batch, ![w].offset = @ + BatchSize,
                        ![w].step = IF Len(batch) < BatchSize THEN "clear" ELSE @]
    /\ UNCHANGED <<piece, documents, embeddings, vectors, ops, breaks, restarts, healed>>

(* Of all tenants.                                                           *)
ClearIndex(w) ==
    /\ InStep(w, "clear")
    /\ documents' = [d \in Docs |-> Unlisted]
    /\ Goto(w, "relist")
    /\ UNCHANGED <<piece, embeddings, vectors, ops, breaks, restarts, healed>>

(* The lock is taken anew for every article.                                 *)
RelistNext(w) ==
    /\ InStep(w, "relist")
    /\ LET batch == worker[w].batch IN
          IF batch = <<>> THEN EndJob(w) /\ UNCHANGED documents
          ELSE /\ documents' = [documents EXCEPT ![Head(batch).doc] = Head(batch)]
               /\ worker' = [worker EXCEPT ![w].batch = Tail(batch)]
               /\ UNCHANGED healed
    /\ UNCHANGED <<piece, embeddings, vectors, ops, breaks, restarts>>

---------------------------------------------------------------------------------
(* The process ends; the next one starts empty, and fills its indexes in two  *)
(* goroutines while it already serves requests.                              *)
Restart ==
    /\ restarts < MaxRestarts /\ restarts' = restarts + 1
    /\ ops < MaxOps /\ ops' = ops + 1
    /\ documents' = [d \in Docs |-> Unlisted] /\ vectors' = {}
    /\ worker' = [w \in Slots |->
          CASE w = "indexer" -> RebuildOf("relist", "collect", Docs)
            [] w = "warmer"  -> RebuildOf("warm", "read", Docs)
            [] OTHER         -> AtRest]
    /\ healed' = [d \in Docs |-> healed[d] \cap {"stored"}]
    /\ UNCHANGED <<piece, embeddings, breaks>>

WarmUpReads(w) ==
    /\ InStep(w, "read")
    /\ worker' = [worker EXCEPT ![w].step = "fill", ![w].saw = embeddings]
    /\ UNCHANGED <<piece, documents, embeddings, vectors, ops, breaks, restarts, healed>>

LoadAll(w) == worker[w].saw

WarmUpFills(w) ==
    /\ InStep(w, "fill")
    /\ vectors' = LoadAll(w)
    /\ EndJob(w)
    /\ UNCHANGED <<piece, documents, embeddings, ops, breaks, restarts>>

IndexNext ==
    \/ Restart
    \/ \E d \in Docs : SweepPublishes(d) /\ UNCHANGED <<documents, embeddings, vectors,
                                                       breaks, restarts>>
    \/ \E w \in Workers :
          \/ \E d \in Docs : Write(w, d)
          \/ StartReindex(w) \/ StartRelist(w)
    \/ \E w \in Slots :
          \/ reindexByID(w) \/ Index(w) \/ Unindex(w)
          \/ DropRows(w) \/ DropVectors(w) \/ InsertRows(w) \/ Upsert(w) \/ StepFails(w)
          \/ LoadBatch(w) \/ PruneVectors(w) \/ pruneArticleEmbeddingRows(w)
          \/ CollectPage(w) \/ ClearIndex(w) \/ RelistNext(w)
          \/ WarmUpReads(w) \/ WarmUpFills(w)

IndexSpec == IndexInit /\ [][IndexNext]_indexVars

---------------------------------------------------------------------------------

(* Full text: what is published is found with its text, and nothing else is  *)
(* found as published.                                                       *)
ListAgrees(d) ==
    IF Published(d) THEN documents[d] = CopyOf(d)
    ELSE documents[d] = Unlisted \/ documents[d].status # "published"

TextsOf(V, d) == {v.text : v \in {v \in V : v.doc = d}}

Agrees(V, d) == TextsOf(V, d) = IF Published(d) THEN {piece[d].text} ELSE {}

(* Whatever races, failures, sweeps and restarts came before, a request that  *)
(* nothing meets leaves both indexes with exactly what is published of its    *)
(* article, whichever its tenant; a rebuilding of the vectors that nothing    *)
(* meets does so for every post of its tenant, one of the full-text index     *)
(* for every article of the default tenant; and a restart gives back the      *)
(* vectors that were stored (article_service.go:134: "the next full reindex   *)
(* (the convergence backstop)"; rag_service.go:594: "Cleanup-style rebuild"). *)
(* Of another tenant a rebuilding of the full-text index, and so a start,     *)
(* lists nothing, published or not, until the article is written again        *)
(* (article_service.go:372: "currently rebuilds the default tenant only").    *)
IndexesHeal ==
    \A d \in Docs :
        /\ "listed" \in healed[d] => ListAgrees(d)
        /\ "stored" \in healed[d] => Agrees(embeddings, d)
        /\ "found" \in healed[d]  => Agrees(vectors, d)
        /\ "omitted" \in healed[d] => documents[d] = Unlisted

---------------------------------------------------------------------------------
(* What comments say of the code and the code does not do.                  *)

(* An article that the reindexing has indexed, with nothing beside it, is    *)
(* found: only what is absent from the articles seen in the run "is an       *)
(* orphan" and pruned (rag_service.go:553).                                  *)
IndexedIsFound ==
    \A d \in Docs : "counted" \in healed[d] => Agrees(vectors, d)
=================================================================================
