----------------------------- MODULE ArticleWorkflow -----------------------------
(***************************************************************************)
(* The publication workflow of ArticleService.  Every method reads the      *)
(* article, decides, and writes in a later statement, so concurrent         *)
(* requests interleave between the read and the write; after the write the  *)
(* article is read again and pushed into the search index.  A sweep of the  *)
(* publish scheduler is one more writer: it uses an ArticleService of its   *)
(* own that has neither an audit logger nor a search indexer.               *)
(*                                                                          *)
(* Time is the field "at" of a row: no scheduled_at, a future or a past     *)
(* one.  The webhook event each method dispatches is an action of           *)
(* WebhookQueue and is left out here, as is the detail cache.  A bulk       *)
(* action is modelled for one of its articles: the effects on the others    *)
(* are the same and independent.                                            *)
(***************************************************************************)
EXTENDS Integers, Sequences, ArticleStates

CONSTANTS
    Articles,     \* primary keys
    PostTypeOf,   \* PostTypeOf[a]: the post type article a is created with
    Requests,     \* goroutines that serve requests or run a sweep
    Offered,      \* the operations requests may ask for
    MaxIssued,    \* bound: operations started
    MaxErrors     \* bound: database and index calls that fail

ASSUME PostTypeAssumption == PostTypeOf \in [Articles -> {"post", "page"}]
ASSUME BoundsAssumption == MaxIssued \in Nat /\ MaxErrors \in Nat

VARIABLES
    article,      \* article[a]: the row of articles
    trail,        \* trail[a]: audit rows of status transitions, oldest first
    indexed,      \* indexed[a]: status in the search document, or "none"
    request,      \* request[q]: what a goroutine is doing
    unaudited,    \* history: articles given a status without an audit row
    issued,       \* operations started so far
    errors        \* failed calls so far

vars == <<article, trail, indexed, request, unaudited, issued, errors>>

Target == [publish |-> "published", unpublish |-> "draft", submit |-> "pending",
           schedule |-> "scheduled", archive |-> "archived"]

BulkTarget == [bulkPublish |-> "published", bulkDraft |-> "draft",
               bulkTrash |-> "trash", sweep |-> "published"]

Ops == DOMAIN Target \cup DOMAIN BulkTarget \cup {"create", "update", "delete", "bulkDelete"}

ASSUME OfferedAssumption == Offered \subseteq Ops

Row     == [status : ArticleStatus, dated : BOOLEAN, at : {"none", "future", "past"},
            life : {"unborn", "live", "deleted"}]
Phases  == {"check", "commit", "reload", "reindex", "index", "unindex"}
Working == [op : Ops, on : Articles, phase : Phases, stamp : BOOLEAN,
            seen : ArticleStatus \cup {"none"}]
Idle    == [op |-> "idle"]
AuditRow == [from : ArticleStatus, to : ArticleStatus]

NewRow == [status |-> "draft", dated |-> FALSE, at |-> "none", life |-> "unborn"]

TypeOK ==
    /\ article \in [Articles -> Row]
    /\ trail \in [Articles -> Seq(AuditRow)]
    /\ indexed \in [Articles -> ArticleStatus \cup {"none"}]
    /\ request \in [Requests -> Working \cup {Idle}]
    /\ unaudited \in SUBSET Articles
    /\ issued \in 0 .. MaxIssued
    /\ errors \in 0 .. MaxErrors

Init ==
    /\ article = [a \in Articles |-> NewRow]
    /\ trail = [a \in Articles |-> <<>>]
    /\ indexed = [a \in Articles |-> "none"]
    /\ request = [q \in Requests |-> Idle]
    /\ unaudited = {}
    /\ issued = 0
    /\ errors = 0

---------------------------------------------------------------------------------
(* Rows.  The soft delete hides a row from every later query and update.     *)

StoredEvenIfDeleted(a) == article[a].life # "unborn"

Stored(a) == article[a].life = "live"

Found(a) == article[a].life = "live"

(* An UPDATE of one row: no row matches once the article is deleted.        *)
Write(a, row) == article' = IF Stored(a) THEN [article EXCEPT ![a] = row] ELSE article

---------------------------------------------------------------------------------
(* Starting an operation: its first read, or its only write.                *)

Begin(q, op) ==
    /\ request[q] = Idle
    /\ op \in Offered
    /\ issued < MaxIssued
    /\ issued' = issued + 1
    /\ UNCHANGED errors

Work(op, a, phase, stamp, seen) ==
    [op |-> op, on |-> a, phase |-> phase, stamp |-> stamp, seen |-> seen]

Create(q, a) ==
    /\ Begin(q, "create")
    /\ article[a].life = "unborn"
    /\ article' = [article EXCEPT ![a].life = "live"]
    /\ request' = [request EXCEPT ![q] = Work("create", a, "index", FALSE, "draft")]
    /\ UNCHANGED <<trail, indexed, unaudited>>

(* publish looks first whether the article has a publication date.          *)
NeedsDateInDraftOnly(a) == ~article[a].dated /\ article[a].status = "draft"

NeedsDate(a) == ~article[a].dated

LoadToPublish(q, a) ==
    /\ Begin(q, "publish")
    /\ Found(a)
    /\ request' = [request EXCEPT ![q] = Work("publish", a, "check", NeedsDate(a), "none")]
    /\ UNCHANGED <<article, trail, indexed, unaudited>>

LegalTargetOnly(a, op) == Target[op] \in ArticleStatus

Legal(a, op) == AllowedTransition(article[a].status, Target[op])

(* The other transitions begin with the check of transitionTo.              *)
LoadAndCheck(q, op, a) ==
    /\ Begin(q, op)
    /\ op \in DOMAIN Target \ {"publish"}
    /\ Found(a)
    /\ Legal(a, op)
    /\ request' = [request EXCEPT ![q] = Work(op, a, "commit", FALSE, article[a].status)]
    /\ UNCHANGED <<article, trail, indexed, unaudited>>

LoadToEdit(q, op, a) ==
    /\ Begin(q, op)
    /\ op \in {"update", "delete"}
    /\ Found(a)
    /\ request' = [request EXCEPT ![q] = Work(op, a, "commit", FALSE, "none")]
    /\ UNCHANGED <<article, trail, indexed, unaudited>>

(* PublishDueScheduled lists what is due, and publishes it in a later step. *)
Due(a) == Found(a) /\ article[a].status = "scheduled" /\ article[a].at = "past"

SweepList(q, a) ==
    /\ Begin(q, "sweep")
    /\ Due(a)
    /\ request' = [request EXCEPT ![q] = Work("sweep", a, "commit", FALSE, "none")]
    /\ UNCHANGED <<article, trail, indexed, unaudited>>

(* One UPDATE, with no look at the state machine and no audit row.          *)
BulkWrite(op, a) ==
    /\ Write(a, [article[a] EXCEPT !.status = BulkTarget[op],
                                   !.dated = @ \/ BulkTarget[op] = "published"])
    /\ unaudited' = IF Stored(a) THEN unaudited \cup {a} ELSE unaudited

BulkStatus(q, op, a) ==
    /\ Begin(q, op)
    /\ op \in {"bulkPublish", "bulkDraft", "bulkTrash"}
    /\ article[a].life # "unborn"
    /\ BulkWrite(op, a)
    /\ request' = [request EXCEPT ![q] =
          Work(op, a, IF op = "bulkPublish" THEN "reindex" ELSE "unindex", FALSE, "none")]
    /\ UNCHANGED <<trail, indexed>>

BulkDelete(q, a) ==
    /\ Begin(q, "bulkDelete")
    /\ article[a].life # "unborn"
    /\ Write(a, [article[a] EXCEPT !.life = "deleted"])
    /\ request' = [request EXCEPT ![q] = Work("bulkDelete", a, "unindex", FALSE, "none")]
    /\ UNCHANGED <<trail, indexed, unaudited>>

---------------------------------------------------------------------------------
(* Going on with an operation.                                              *)

At(q, phase) == request[q] # Idle /\ request[q].phase = phase

Goto(q, phase) == request' = [request EXCEPT ![q].phase = phase]
Done(q)        == request' = [request EXCEPT ![q] = Idle]

(* transitionTo loads the article a second time to check the transition.    *)
CheckPublish(q) ==
    /\ At(q, "check")
    /\ LET a == request[q].on IN
       IF Found(a) /\ Legal(a, "publish")
       THEN request' = [request EXCEPT ![q].phase = "commit", ![q].seen = article[a].status]
       ELSE Done(q)
    /\ UNCHANGED <<article, trail, indexed, unaudited, issued, errors>>

TransitionedToOp(r, row, at) == [row EXCEPT !.status = r.op, !.dated = @ \/ r.stamp]

Transitioned(r, row, at) ==
    [row EXCEPT !.status = Target[r.op],
                !.dated = @ \/ r.stamp,
                !.at = IF r.op = "schedule" THEN at ELSE @]

(* UpdateStatusWithAudit: the status and the audit row in one transaction.  *)
CommitTransition(q) ==
    /\ At(q, "commit")
    /\ request[q].op \in DOMAIN Target
    /\ LET r == request[q] IN
       /\ \E at \in {"future", "past"} : Write(r.on, Transitioned(r, article[r.on], at))
       /\ trail' = [trail EXCEPT ![r.on] =
                       Append(@, [from |-> r.seen, to |-> Target[r.op]])]
       /\ unaudited' = unaudited
    /\ Goto(q, "reload")
    /\ UNCHANGED <<indexed, issued, errors>>

(* The transaction of Update reads its own row back for the index.          *)
CommitUpdate(q) ==
    /\ At(q, "commit")
    /\ request[q].op = "update"
    /\ LET a == request[q].on IN
       IF Found(a)
       THEN request' = [request EXCEPT ![q].phase = "index", ![q].seen = article[a].status]
       ELSE Done(q)
    /\ UNCHANGED <<article, trail, indexed, unaudited, issued, errors>>

CommitDelete(q) ==
    /\ At(q, "commit")
    /\ request[q].op = "delete"
    /\ LET a == request[q].on IN Write(a, [article[a] EXCEPT !.life = "deleted"])
    /\ Goto(q, "unindex")
    /\ UNCHANGED <<trail, indexed, unaudited, issued, errors>>

(* BulkPublish of the listed ids, whatever became of them; the scheduler's   *)
(* service has no indexer, so its reindexByID returns at once.              *)
CommitSweep(q) ==
    /\ At(q, "commit")
    /\ request[q].op = "sweep"
    /\ BulkWrite("sweep", request[q].on)
    /\ Done(q)
    /\ UNCHANGED <<trail, indexed, issued, errors>>

ReloadOnly(q) ==
    /\ At(q, "reload")
    /\ Done(q)
    /\ UNCHANGED <<article, trail, indexed, unaudited, issued, errors>>

Reload(q) ==
    /\ At(q, "reload")
    /\ IF Found(request[q].on) THEN Goto(q, "reindex") ELSE Done(q)
    /\ UNCHANGED <<article, trail, indexed, unaudited, issued, errors>>

ReadForIndex(q) ==
    /\ At(q, "reindex")
    /\ LET a == request[q].on IN
       IF Found(a)
       THEN request' = [request EXCEPT ![q].phase = "index", ![q].seen = article[a].status]
       ELSE Done(q)
    /\ UNCHANGED <<article, trail, indexed, unaudited, issued, errors>>

WriteIndex(q) ==
    /\ At(q, "index")
    /\ indexed' = [indexed EXCEPT ![request[q].on] = request[q].seen]
    /\ Done(q)
    /\ UNCHANGED <<article, trail, unaudited, issued, errors>>

(* The key of a search document contains the post type.  Delete names that  *)
(* of the article it loaded, a bulk action names "post" whatever they are.  *)
KeyedType(r) == IF r.op = "delete" THEN PostTypeOf[r.on] ELSE "post"

Unindex(q) ==
    /\ At(q, "unindex")
    /\ LET r == request[q] IN
       indexed' = IF KeyedType(r) = PostTypeOf[r.on]
                  THEN [indexed EXCEPT ![r.on] = "none"]
                  ELSE indexed
    /\ Done(q)
    /\ UNCHANGED <<article, trail, unaudited, issued, errors>>

(* A call of the operation fails: a transaction is rolled back, a read or an *)
(* index write given up, and the handler ends.                              *)
FailsHalfCommitted(q) ==
    /\ request[q] # Idle
    /\ errors < MaxErrors
    /\ errors' = errors + 1
    /\ IF request[q].phase = "commit" /\ request[q].op \in DOMAIN Target
       THEN Write(request[q].on, Transitioned(request[q], article[request[q].on], "future"))
       ELSE UNCHANGED article
    /\ Done(q)
    /\ UNCHANGED <<trail, indexed, unaudited, issued>>

Fails(q) ==
    /\ request[q] # Idle
    /\ errors < MaxErrors
    /\ errors' = errors + 1
    /\ Done(q)
    /\ UNCHANGED <<article, trail, indexed, unaudited, issued>>

TimePasses(a) ==
    /\ article[a].at = "future"
    /\ article' = [article EXCEPT ![a].at = "past"]
    /\ UNCHANGED <<trail, indexed, request, unaudited, issued, errors>>

Starts(q, a) ==
    \/ Create(q, a)
    \/ LoadToPublish(q, a)
    \/ \E op \in Ops : \/ LoadAndCheck(q, op, a)
                       \/ LoadToEdit(q, op, a)
                       \/ BulkStatus(q, op, a)
    \/ BulkDelete(q, a)
    \/ SweepList(q, a)

Continues(q) ==
    \/ CheckPublish(q)
    \/ CommitTransition(q)
    \/ CommitUpdate(q)
    \/ CommitDelete(q)
    \/ CommitSweep(q)
    \/ Reload(q)
    \/ ReadForIndex(q)
    \/ WriteIndex(q)
    \/ Unindex(q)
    \/ Fails(q)

Next ==
    \/ \E q \in Requests : Continues(q) \/ \E a \in Articles : Starts(q, a)
    \/ \E a \in Articles : TimePasses(a)

Spec == Init /\ [][Next]_vars

---------------------------------------------------------------------------------
(* Properties under any interleaving.                                       *)

(* A published article has a publication date (the feed sorts and prints     *)
(* it) and a scheduled one a time at which the sweep can find it, although   *)
(* publish decides whether to set the date in a read of its own.             *)
DatesFollowStatus ==
    \A a \in Articles : article[a].life = "live" =>
        /\ article[a].status = "published" => article[a].dated
        /\ article[a].status = "scheduled" => article[a].at # "none"

(* A write decided before an article was deleted neither changes nor         *)
(* revives it (every UPDATE goes through the soft-delete scope).             *)
DeletedIsUntouched ==
    [][\A a \in Articles : article[a].life = "deleted" =>
          /\ article'[a].life = "deleted"
          /\ article'[a].status = article[a].status]_vars

LastStatus(a) == IF trail[a] = <<>> THEN "draft" ELSE trail[a][Len(trail[a])].to

(* Fail-closed audit: unless a bulk action or a sweep wrote it, the status   *)
(* of an article is the one its last audit row names, whatever transitions   *)
(* raced or failed (transitionTo: "a transition cannot land without its      *)
(* audit trail").                                                            *)
TrailExplainsStatus ==
    \A a \in Articles :
        article[a].life = "live" /\ a \notin unaudited => article[a].status = LastStatus(a)

---------------------------------------------------------------------------------
(* Properties of operations that run one after another.                     *)

Quiet == \A q \in Requests : request[q] = Idle

(* The transition made by a workflow method is legal for the status the row  *)
(* has when it is written, not only for the one that was read.               *)
LegalTransitions ==
    [][\A q \in Requests, a \in Articles :
          /\ request[q] # Idle /\ request[q].op \in DOMAIN Target /\ request'[q] # request[q]
          /\ article'[a].status # article[a].status
          => AllowedTransition(article[a].status, article'[a].status)]_vars

(* The audit trail of an article is a chain: every row starts where the one  *)
(* before it ended.                                                          *)
TrailIsChained ==
    \A a \in Articles \ unaudited : \A n \in 1 .. Len(trail[a]) :
        trail[a][n].from = IF n = 1 THEN "draft" ELSE trail[a][n - 1].to

InSync(a) ==
    (indexed[a] = "published") <=>
        (article[a].life = "live" /\ article[a].status = "published")

(* When nothing is in progress and nothing failed, the search index shows    *)
(* exactly the published posts as published (NewRoutes: "every               *)
(* create/update/delete/status-transition keeps the index in sync").         *)
SearchableIffPublished ==
    Quiet /\ errors = 0 =>
        \A a \in Articles : PostTypeOf[a] = "post" => InSync(a)

---------------------------------------------------------------------------------
(* What comments say of the code and the code does not do.                  *)

(* The same for pages: "keeps the index in sync".                            *)
PageSearchableIffPublished ==
    Quiet /\ errors = 0 =>
        \A a \in Articles : PostTypeOf[a] = "page" => InSync(a)

(* PublishDueScheduled: "Re-index auto-published articles so they become     *)
(* publicly searchable": what a sweep published can be found.                *)
SweptIsSearchable ==
    Quiet /\ errors = 0 =>
        \A a \in Articles :
            article[a].life = "live" /\ article[a].status = "published" =>
                indexed[a] = "published"
=================================================================================
