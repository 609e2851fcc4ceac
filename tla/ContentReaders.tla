----------------------------- MODULE ContentReaders -----------------------------
(***************************************************************************)
(* One article and everything that shows it: REST, feed and sitemap,         *)
(* GraphQL, the MCP tools and resources, full-text and semantic search.      *)
(* They read from five places (the row, the cached detail, the cached        *)
(* lists, the search document, the vectors), which an editor's request       *)
(* brings up to date one after the other once its change is committed.       *)
(*                                                                           *)
(* One process, one tenant, a post.  An edit begins here with its commit;    *)
(* what it checked before is in ArticleWorkflow and ArticleEditing.          *)
(***************************************************************************)
EXTENDS Integers, FiniteSets

CONSTANTS
    Editors,     \* goroutines of requests that change the article
    Asked,       \* filters of the lists that are asked for
    MaxEdits,    \* bound: commits
    MaxReads,    \* bound: requests of readers that wait for a load, and failed index writes
    MaxIndexErrors  \* bound: index writes that fail in spite of their retries

ASSUME ReaderBounds == {MaxEdits, MaxReads, MaxIndexErrors} \subseteq Nat

VARIABLES
    theArticle,  \* the row: status, visibility, number of the edit that made it so
    detail,      \* the cached article: a copy, and whether it was filled late
    lists,       \* lists[k]: what the list cached under key k says of the article
    generation,  \* ArticleService.cacheGen
    flight,      \* flight[k]: the load under way for key k
    document, vector,  \* the search document, the chunks with their vectors
    editing,     \* editing[e]: the request of editor e after its commit
    reading,     \* the requests that wait: for which load, and what was promised before
    given,       \* history: the answers the last step gave, of which edit they know
    promised,    \* history: the newest edit whose request was answered
    drops,       \* history: deletions of the cached detail
    reads, indexErrors

readerVars == <<theArticle, detail, lists, generation, flight, document, vector, editing,
                reading, given, promised, drops, reads, indexErrors>>

Edits == 0 .. MaxEdits

Copy == [status : {"draft", "published", "deleted"}, visibility : {"public", "private"},
         edit : Edits]

(* What a surface asks for in a list.                                        *)
Filters == {"any", "published", "public"}
ASSUME AskedAssumption == Asked \subseteq Filters

ListKeys == Asked \X Edits
DetailKey == <<"detail", 0>>
CacheKeys == ListKeys \cup {DetailKey}

FromRow    == {"slug", "feed", "sitemap"}
FromDetail == {"get", "graphArticle", "getTool", "resource"}
FromList   == [list |-> "any", graphArticles |-> "public", listTool |-> "published"]
FromText   == {"search", "adminSearch", "graphSearch", "searchTool"}
FromVector == {"aiSearch", "aiAsk", "ragTool"}
Surfaces   == FromRow \cup FromDetail \cup FromText \cup FromVector
                \cup {s \in DOMAIN FromList : FromList[s] \in Asked}

New    == [status |-> "draft", visibility |-> "public", edit |-> 0]
Fresh(c) == [copy |-> c, sure |-> TRUE]
Uncached == [copy |-> New, sure |-> TRUE, held |-> FALSE]
NoFlight == [step |-> "none", copy |-> New, drops |-> 0]
NoEdit    == [step |-> "rest", edit |-> 0, copy |-> New, alone |-> TRUE]

ReadersTypeOK ==
    /\ theArticle \in Copy /\ generation \in Edits /\ promised \in Edits /\ drops \in Edits
    /\ detail \in [copy : Copy, sure : BOOLEAN, held : BOOLEAN]
    /\ lists \in [ListKeys -> [copy : Copy, sure : {TRUE}, held : BOOLEAN]]
    /\ flight \in [CacheKeys -> [step : {"none", "open", "loaded"}, copy : Copy, drops : Edits]]
    /\ {document, vector} \subseteq [copy : Copy, sure : BOOLEAN]
    /\ editing \in [Editors -> [step : {"rest", "reload", "text", "vector", "bump", "drop"},
                                edit : Edits, copy : Copy, alone : BOOLEAN]]
    /\ reading \subseteq [key : CacheKeys, since : Edits]
    /\ given \subseteq [edit : Edits, since : Edits, sure : BOOLEAN]
    /\ reads \in 0 .. MaxReads /\ indexErrors \in 0 .. MaxIndexErrors

ReadersInit ==
    /\ theArticle = New /\ generation = 0 /\ promised = 0 /\ drops = 0
    /\ detail = Uncached /\ lists = [k \in ListKeys |-> Uncached]
    /\ flight = [k \in CacheKeys |-> NoFlight]
    /\ document = Fresh(New) /\ vector = Fresh(New)
    /\ editing = [e \in Editors |-> NoEdit]
    /\ reading = {} /\ given = {}
    /\ reads = 0 /\ indexErrors = 0

---------------------------------------------------------------------------------
(* What each surface shows, of a copy of the article.                        *)

IsPublished(c) == c.status = "published"
IsPublic(c)    == IsPublished(c) /\ c.visibility = "public"

PublishedBySlug(c) == IsPublic(c)
InFeed(c)          == IsPublished(c)
InSitemap(c)       == IsPublished(c)

(* GET /articles and /articles/:id, for those who may read articles.         *)
InArticles(c)      == c.status # "deleted"
ArticleByID(c)     == c.status # "deleted"

GraphArticle(c)    == IsPublic(c)
GraphArticles(c)   == IsPublic(c)

(* The MCP tools and resources, over HTTP never with drafts.                 *)
ToolStatus(c)      == IsPublished(c)
GetTool(c)         == ToolStatus(c)
ListTool(c)        == ToolStatus(c)
ArticleResource(c) == ToolStatus(c)

(* The search of the public site, which asks for "published" unless told     *)
(* otherwise, the one of GraphQL and the tool look at a document's status.   *)
Searched(c)        == IsPublished(c)
SearchedByAdmin(c) == c.status # "deleted"

(* Semantic search and questions, over what was published when it was cut    *)
(* into chunks.                                                              *)
Retrieved(c)       == IsPublished(c)

Shows(s, c) ==
    CASE s = "slug" -> PublishedBySlug(c)
      [] s = "feed" -> InFeed(c)
      [] s = "sitemap" -> InSitemap(c)
      [] s = "get" -> ArticleByID(c)
      [] s = "list" -> InArticles(c)
      [] s = "graphArticle" -> GraphArticle(c)
      [] s = "graphArticles" -> GraphArticles(c)
      [] s = "getTool" -> GetTool(c)
      [] s = "listTool" -> ListTool(c)
      [] s = "resource" -> ArticleResource(c)
      [] s \in {"search", "graphSearch", "searchTool"} -> Searched(c)
      [] s = "adminSearch" -> SearchedByAdmin(c)
      [] s \in FromVector -> Retrieved(c)

---------------------------------------------------------------------------------
(* Edits.                                                                     *)

Working == {e \in Editors : editing[e].step # "rest"}

(* Edit e commits; it will give the indexes the copy "known" of the article,   *)
(* or read it anew.  Two edits at the same time leave the indexes unsure.     *)
Commit(e, made, step, known) ==
    /\ editing[e].step = "rest" /\ theArticle.edit < MaxEdits
    /\ theArticle' = made
    /\ editing' = [x \in Editors |->
            IF x = e
            THEN [step |-> step, edit |-> made.edit, copy |-> known, alone |-> Working = {}]
            ELSE [editing[x] EXCEPT !.alone = x \notin Working]]
    /\ document' = [document EXCEPT !.sure = @ /\ Working = {}]
    /\ vector' = [vector EXCEPT !.sure = @ /\ Working = {}]
    /\ given' = {}
    /\ UNCHANGED <<detail, lists, generation, flight, reading, promised, drops, reads,
                   indexErrors>>

Changed(status, visibility) ==
    [status |-> status, visibility |-> visibility, edit |-> theArticle.edit + 1]

(* A transition of the workflow, and a publication in bulk: the article is    *)
(* read anew for the indexes.                                                 *)
Transition(e, from, to) ==
    /\ theArticle.status = from
    /\ LET made == Changed(to, theArticle.visibility) IN Commit(e, made, "reload", made)

Publish(e)   == Transition(e, "draft", "published")
Unpublish(e) == Transition(e, "published", "draft")

(* An update: the indexes are given the article as it was committed.          *)
SetVisibility(e) ==
    /\ theArticle.status # "deleted"
    /\ \E v \in {"public", "private"} \ {theArticle.visibility} :
         LET made == Changed(theArticle.status, v) IN Commit(e, made, "text", made)

(* Deletions, and drafts in bulk: the document and the chunks are removed.    *)
Remove(e, status) ==
    LET seen == theArticle.visibility
    IN  Commit(e, Changed(status, seen), "text", Changed("deleted", seen))

DeleteArticle(e)    == theArticle.status # "deleted" /\ Remove(e, "deleted")
BulkDraft(e) == theArticle.status = "published" /\ Remove(e, "draft")

Goto(e, step) == editing' = [editing EXCEPT ![e].step = step]

ReindexReads(e) ==
    /\ editing[e].step = "reload"
    /\ editing' = [editing EXCEPT
            ![e].copy = theArticle,
            ![e].step = IF theArticle.status = "deleted" THEN "bump" ELSE "text"]
    /\ given' = {}
    /\ UNCHANGED <<theArticle, detail, lists, generation, flight, document, vector, reading,
                   promised, drops, reads, indexErrors>>

Written(e) == [copy |-> editing[e].copy, sure |-> editing[e].alone]

IndexText(e) ==
    /\ editing[e].step = "text" /\ Goto(e, "vector")
    /\ document' = Written(e)
    /\ given' = {}
    /\ UNCHANGED <<theArticle, detail, lists, generation, flight, vector, reading, promised,
                   drops, reads, indexErrors>>

IndexVector(e) ==
    /\ editing[e].step = "vector" /\ Goto(e, "bump")
    /\ vector' = Written(e)
    /\ given' = {}
    /\ UNCHANGED <<theArticle, detail, lists, generation, flight, document, reading, promised,
                   drops, reads, indexErrors>>

(* An index refuses a write three times; the request goes on without it.      *)
IndexFails(e) ==
    /\ indexErrors < MaxIndexErrors /\ reads + indexErrors < MaxReads
    /\ indexErrors' = indexErrors + 1
    /\ \/ editing[e].step = "text" /\ Goto(e, "vector")
          /\ document' = [document EXCEPT !.sure = FALSE] /\ UNCHANGED vector
       \/ editing[e].step = "vector" /\ Goto(e, "bump")
          /\ vector' = [vector EXCEPT !.sure = FALSE] /\ UNCHANGED document
    /\ given' = {}
    /\ UNCHANGED <<theArticle, detail, lists, generation, flight, reading, promised, drops,
                   reads>>

Bump(e) ==
    /\ editing[e].step = "bump" /\ Goto(e, "drop")
    /\ generation' = generation + 1
    /\ given' = {}
    /\ UNCHANGED <<theArticle, detail, lists, flight, document, vector, reading, promised,
                   drops, reads, indexErrors>>

Drop(e) ==
    /\ editing[e].step = "drop" /\ editing' = [editing EXCEPT ![e] = NoEdit]
    /\ detail' = Uncached /\ drops' = drops + 1
    /\ promised' = IF editing[e].edit > promised THEN editing[e].edit ELSE promised
    /\ given' = {}
    /\ UNCHANGED <<theArticle, lists, generation, flight, document, vector, reading, reads,
                   indexErrors>>

---------------------------------------------------------------------------------
(* Reads.                                                                     *)

Cached(k) == IF k = DetailKey THEN detail ELSE lists[k]

(* A request that finds its answer in the row, an index or the cache is        *)
(* answered at once and changes nothing (Held, below).  Another leads a load   *)
(* of the entry or joins the one under way.                                   *)
ReadThrough(k) ==
    /\ ~Cached(k).held
    /\ reads + indexErrors < MaxReads /\ reads' = reads + 1
    /\ reading' = reading \cup {[key |-> k, since |-> promised]}
    /\ flight' = [flight EXCEPT ![k].step = IF @ = "none" THEN "open" ELSE @]
    /\ given' = {}
    /\ UNCHANGED <<theArticle, detail, lists, generation, document, vector, editing, promised,
                   drops, indexErrors>>

ReadDetail == ReadThrough(DetailKey)
ReadList   == \E f \in Asked : ReadThrough(<<f, generation>>)

Load(k) ==
    /\ flight[k].step = "open"
    /\ flight' = [flight EXCEPT ![k] = [step |-> "loaded", copy |-> theArticle, drops |-> drops]]
    /\ given' = {}
    /\ UNCHANGED <<theArticle, detail, lists, generation, document, vector, editing, reading,
                   promised, drops, reads, indexErrors>>

(* The load of a deleted article fails and fills nothing; its readers are      *)
(* told that there is none.                                                   *)
Fill(k) ==
    /\ flight[k].step = "loaded" /\ flight' = [flight EXCEPT ![k] = NoFlight]
    /\ LET filled == [copy |-> flight[k].copy, held |-> TRUE,
                      sure |-> k \in ListKeys \/ flight[k].drops = drops]
           waiting == {r \in reading : r.key = k}
       IN  /\ detail' = IF k = DetailKey /\ filled.copy.status # "deleted" THEN filled ELSE detail
           /\ lists' = IF k = DetailKey THEN lists ELSE [lists EXCEPT ![k] = filled]
           /\ reading' = reading \ waiting
           /\ given' = {[edit |-> filled.copy.edit, since |-> r.since, sure |-> filled.sure]
                            : r \in waiting}
    /\ UNCHANGED <<theArticle, generation, document, vector, editing, promised, drops, reads,
                   indexErrors>>

(* An entry's time to live ends, or the cache makes room.                     *)
Lapse ==
    /\ detail.held /\ detail' = Uncached
    /\ given' = {}
    /\ UNCHANGED <<theArticle, lists, generation, flight, document, vector, editing, reading,
                   promised, drops, reads, indexErrors>>

ReadersNext ==
    \/ \E e \in Editors :
         \/ Publish(e) \/ Unpublish(e) \/ SetVisibility(e) \/ DeleteArticle(e) \/ BulkDraft(e)
         \/ ReindexReads(e) \/ IndexText(e) \/ IndexVector(e) \/ IndexFails(e)
         \/ Bump(e) \/ Drop(e)
    \/ ReadDetail \/ ReadList
    \/ \E k \in CacheKeys : Load(k) \/ Fill(k)
    \/ Lapse

---------------------------------------------------------------------------------
(* What a request to surface s that comes now is answered from, and whether    *)
(* one of the exceptions lies behind it.                                      *)
Held(s) ==
    CASE s \in FromRow -> Fresh(theArticle)
      [] s \in FromText -> document
      [] s \in FromVector -> vector
      [] OTHER ->
            LET k == IF s \in FromDetail THEN DetailKey ELSE <<FromList[s], generation>>
            IN  IF Cached(k).held THEN Cached(k) ELSE Fresh(theArticle)

(* Whatever place an answer is made from, it knows of every edit that had     *)
(* been answered when the reader asked: an article taken down is gone for     *)
(* whoever asks afterwards.  Excepted are a cached detail whose load began    *)
(* before the edit dropped the entry and ended after it, and the indexes      *)
(* after edits at the same time or a write that failed.                       *)
AnsweredEditsAreSeen ==
    /\ \A s \in Surfaces : Held(s).sure => Held(s).copy.edit >= promised
    /\ \A a \in given : a.sure => a.edit >= a.since

(* The surfaces that show the whole article to anybody.                       *)
ToAnybody == {"slug", "graphArticle", "graphArticles"}

(* When no edit is under way all surfaces tell of the same article.  What the  *)
(* feed, the sitemap, a search or a tool lists is there under its slug and by *)
(* GraphQL if it is public; what is not is whole in neither, and what is not  *)
(* published is nowhere but before the editors, whose search alone loses a    *)
(* draft that was made one in bulk.                                           *)
SurfacesAgree ==
    Working = {} =>
        \A s \in Surfaces : Held(s).sure =>
            /\ s # "adminSearch" => (Shows(s, Held(s).copy) <=> Shows(s, theArticle))
            /\ s \in ToAnybody \/ (s \notin {"get", "list", "adminSearch"} /\ theArticle.visibility = "public") =>
                    (Shows(s, Held(s).copy) <=> Shows("slug", theArticle))

ReadersHold == AnsweredEditsAreSeen /\ SurfacesAgree
=================================================================================
