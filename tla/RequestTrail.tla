------------------------------ MODULE RequestTrail ------------------------------
(***************************************************************************)
(* What a request leaves behind on its way through the chain of handlers:    *)
(* the row of the activity log that the middleware writes for it, the row    *)
(* the service writes for what it changed, and its share in the metrics.     *)
(* Middleware does its work after the handlers it encloses have returned, so *)
(* a panic, which only the outermost one stops, passes it by.  The log is in *)
(* PostgreSQL, where a value longer than its column is refused.              *)
(***************************************************************************)
EXTENDS Integers, Sequences, FiniteSets, FiniteSetsExt, BagsExt

LOCAL INSTANCE SequencesExt

CONSTANTS
    Callers,       \* requests that one process serves at the same time
    MaxServed,     \* bound: requests
    MaxTroubles,   \* bound: failed writes and reads, slow answers, panics and deaths
    MaxStock       \* bound: changes to what the scraped gauge counts

ASSUME RequestAssumption == {MaxServed, MaxTroubles, MaxStock} \subseteq Nat

VARIABLES
    serving,       \* serving[c]: the request being served and how far it is
    served,        \* how many there have been; its number is a request's identifier
    troubles, life,
    trail,         \* the activity log
    counts,        \* http_requests_total: a bag of method, path and status
    totals, buckets, \* the histograms: observations, and those in each bucket
    lookups,       \* the counters of cache hits and misses
    stock,         \* how often the number of articles has changed, for that number
    gauge,         \* articles_total
    ended          \* history: the requests that have ended, and how

collector   == <<counts, totals, buckets, lookups, gauge>>
requestVars == <<serving, served, troubles, life, trail, collector, stock, ended>>

---------------------------------------------------------------------------------
(* One route of each kind, a path that is no route, and the question of a       *)
(* browser whether it may call one, which nothing else is done for.            *)
Gate ==
    [list    |-> "tenant",     \* GET  /articles
     create  |-> "tenant",     \* POST /articles
     restore |-> "tenant",     \* POST /articles/:id/revisions/:revision_id/restore
     member  |-> "user",       \* POST /admin/tenants/:id/members
     query   |-> "optional",   \* POST /graphql
     register |-> "none",      \* POST /auth/register
     metrics |-> "none",       \* GET  /metrics
     stray   |-> "none",       \* POST /api/...
     preflight |-> "none"]     \* OPTIONS, from a listed origin

Routes   == DOMAIN Gate
Mutation == Routes \ {"list", "metrics", "preflight"}
Changing == {"create", "restore", "member", "register"}

(* The path of the restoration, 51 characters, is longer than the column.     *)
Fits(r) == r # "restore"

(* What of the path gets into a label; no route, no path.                     *)
Method(r) == IF r \in Mutation THEN "POST" ELSE IF r = "preflight" THEN "OPTIONS" ELSE "GET"
Label(r)  == <<Method(r), IF r \in {"stray", "preflight"} THEN "/" ELSE r>>

(* What the context holds of a request's sender and of the tenant it is for.  *)
Contexts  == [user : BOOLEAN, tenant : {"none", "own", "other"}, override : BOOLEAN]
Anonymous == [user |-> FALSE, tenant |-> "none", override |-> FALSE]

(* The contexts that a route's middleware hands to its handler.  Where        *)
(* authentication is optional, an override that led nowhere is remembered.    *)
Passes(r) ==
    {x \in Contexts :
        /\ Gate[r] = "none" => x = Anonymous
        /\ Gate[r] \in {"user", "tenant"} => x.user
        /\ Gate[r] = "user" => x.tenant = "none" /\ ~x.override
        /\ Gate[r] \in {"optional", "tenant"} =>
               (x.tenant = "none" <=> ~x.user) /\ (x.tenant = "other" <=> x.user /\ x.override)}

(* The statuses and contexts with which middleware ends a request itself: the *)
(* limit of the API, an unknown or disabled user, a tenant that is not open   *)
(* to the user, a permission missing.                                         *)
Refusals(r) ==
    {v \in {401, 403, 429} \X Contexts :
        \/ v = <<429, Anonymous>> /\ r \notin {"metrics", "preflight"}
        \/ v[1] \in {401, 403} /\ v[2] = Anonymous /\ Gate[r] \in {"user", "tenant"}
        \/ v[1] = 403 /\ v[2].user /\ v[2].tenant = "none" /\ Gate[r] = "tenant"
        \/ v[1] = 403 /\ v[2] \in Passes(r) /\ Gate[r] \in {"user", "tenant"}}

---------------------------------------------------------------------------------
(* Errors as services return them: one with a status, a missing row, any       *)
(* other, one that wraps another, several joined.                             *)
Coded(s) == [kind |-> "app", status |-> s]
Missing  == [kind |-> "missing"]
Plain    == [kind |-> "plain"]
Wrap(e)  == [kind |-> "wrap", inner |-> e]
Join(es) == [kind |-> "join", parts |-> es]

Simple     == {Coded(403), Coded(409), Missing, Plain}
Composed   == {Wrap(e) : e \in Simple} \cup {Join(<<e, f>>) : e, f \in Simple}
ErrorTrees == Simple \cup Composed
              \cup {Wrap(e) : e \in Composed} \cup {Join(<<e, f>>) : e, f \in Simple \cup Composed}

(* errs.Is: the status of the first AppError it meets, 0 if there is none.    *)
Is[e \in ErrorTrees] ==
    CASE e.kind = "app"  -> e.status
      [] e.kind = "wrap" -> Is[e.inner]
      [] e.kind = "join" ->
            LET with == {n \in DOMAIN e.parts : Is[e.parts[n]] # 0}
            IN  IF with = {} THEN 0 ELSE Is[e.parts[CHOOSE n \in with : \A m \in with : n <= m]]
      [] OTHER           -> 0

(* A missing row is recognised only when nothing wraps it.                    *)
handleServiceError(e) == IF Is[e] # 0 THEN Is[e] ELSE IF e = Missing THEN 404 ELSE 500

(* What it should be: the leaves from left to right, the first that has one.   *)
Leaves[e \in ErrorTrees] ==
    CASE e.kind = "wrap" -> Leaves[e.inner]
      [] e.kind = "join" -> FlattenSeq([n \in DOMAIN e.parts |-> Leaves[e.parts[n]]])
      [] OTHER           -> <<e>>

StatusOfFirst(e) ==
    LET coded == SelectSeq(Leaves[e], LAMBDA f : f.kind = "app")
    IN  IF coded # <<>> THEN coded[1].status ELSE IF e = Missing THEN 404 ELSE 500

(* What services return: one of them forbids it, a row is missing unseen.  A     *)
(* body that cannot be read, or a conflict, is a failure like the latter.      *)
Returned == {handleServiceError(e) : e \in {Join(<<Plain, Wrap(Coded(403))>>), Wrap(Missing)}}
StatusCodes == {0, 200, 204, 401, 403, 404, 429, 500}

---------------------------------------------------------------------------------
NoRequest == [step |-> "quiet"]

Begun(n, r, context, low) ==
    [id |-> n, route |-> r, step |-> "work", context |-> context, status |-> 0, changed |-> FALSE,
     lost |-> {}, looked |-> FALSE, seen |-> 0, read |-> FALSE, low |-> low]

Steps == {"work", "note", "gauge", "render", "report", "count"}

ServedRequests ==
    [id : 1 .. MaxServed, route : Routes, step : Steps \cup {"end"},
     context : Contexts, status : StatusCodes, changed : BOOLEAN, lost : SUBSET {"service", "request"},
     looked : BOOLEAN, seen : 0 .. MaxStock, read : BOOLEAN, low : 0 .. MaxStock]

(* A row: who wrote it, for which request, what came of that, whether it      *)
(* names the user, and whose log it is in.                                    *)
Row(kind, id, outcome, user, tenant) ==
    [kind |-> kind, of |-> id, outcome |-> outcome, user |-> user, tenant |-> tenant]

RequestsTypeOK ==
    /\ \A c \in Callers : serving[c] = NoRequest \/ serving[c] \in ServedRequests
    /\ served \in 0 .. MaxServed /\ troubles \in 0 .. MaxTroubles /\ life \in 1 .. MaxTroubles + 1
    /\ trail \subseteq [kind : {"service", "request"}, of : 1 .. MaxServed,
                        outcome : {"success", "failed", "denied", "unsaid"}, user : BOOLEAN,
                        tenant : {"none", "own", "other"}]
    /\ IsABag(counts) /\ IsABag(totals) /\ IsABag(buckets) /\ IsABag(lookups)
    /\ {stock, gauge} \subseteq 0 .. MaxStock
    /\ \A e \in ended : e.request \in ServedRequests /\ e.fate \in {"answered", "panicked", "died"}

RequestsInit ==
    /\ serving = [c \in Callers |-> NoRequest] /\ served = 0
    /\ troubles = 0 /\ life = 1 /\ trail = {}
    /\ counts = EmptyBag /\ totals = EmptyBag /\ buckets = EmptyBag /\ lookups = EmptyBag
    /\ stock = 0 /\ gauge = 0 /\ ended = {}

Under(c, s)   == serving[c].step = s
Turn(c, q)    == serving' = [serving EXCEPT ![c] = q]
Step(c, s)    == Turn(c, [serving[c] EXCEPT !.step = s])
Answer(c, st) == Turn(c, [serving[c] EXCEPT !.step = "report", !.status = st])
InTrouble     == troubles < MaxTroubles /\ troubles' = troubles + 1

---------------------------------------------------------------------------------
Scraping == {c \in Callers : serving[c] # NoRequest /\ serving[c].route = "metrics"}

Enter(c, r, context) ==
    Begun(served', r, context, Min({stock} \cup {serving[d].low : d \in Scraping}))

Arrive(c) ==
    /\ serving[c] = NoRequest /\ served < MaxServed
    /\ served' = served + 1
    /\ \E r \in Routes : \E x \in Passes(r) : Turn(c, Enter(c, r, x))
    /\ UNCHANGED <<troubles, life, trail, collector, stock, ended>>

TurnAway(c) ==
    /\ serving[c] = NoRequest /\ served < MaxServed
    /\ served' = served + 1
    /\ \E r \in Routes : \E v \in Refusals(r) :
           Turn(c, [Enter(c, r, v[2]) EXCEPT !.step = "report", !.status = v[1]])
    /\ UNCHANGED <<troubles, life, trail, collector, stock, ended>>

(* The cache is asked first, and the metered driver counts what it says.      *)
Lookup(c) ==
    /\ Under(c, "work") /\ serving[c].route = "list" /\ ~serving[c].looked
    /\ Turn(c, [serving[c] EXCEPT !.looked = TRUE])
    /\ \E found \in {"hit", "miss"} : lookups' = BagAdd(lookups, found)
    /\ UNCHANGED <<served, troubles, life, trail, counts, totals, buckets, stock, gauge, ended>>

(* The handler is done and has changed nothing.                               *)
ChangeNothing(c) ==
    /\ Under(c, "work") /\ serving[c].route # "metrics"
    /\ serving[c].route = "list" => serving[c].looked
    /\ \E st \in CASE serving[c].route = "stray"            -> {404}
                   [] serving[c].route = "preflight"        -> {204}
                   [] serving[c].route \in {"list", "query"} -> {200} \cup Returned
                   [] OTHER                                 -> Returned :
           Answer(c, st)
    /\ UNCHANGED <<served, troubles, life, trail, collector, stock, ended>>

(* The transaction of the service commits.                                    *)
Change(c) ==
    /\ Under(c, "work") /\ serving[c].route \in Changing
    /\ Turn(c, [serving[c] EXCEPT !.changed = TRUE, !.step = "note"])
    /\ UNCHANGED <<served, troubles, life, trail, collector, stock, ended>>

(* An account has been created, but its tokens cannot be.                     *)
FailAfterCommit(c) ==
    /\ Under(c, "note") /\ serving[c].route = "register" /\ InTrouble
    /\ Answer(c, 500)
    /\ UNCHANGED <<served, life, trail, collector, stock, ended>>

(* The row of the service.  It does not say which request it belongs to, and   *)
(* that of a change of tenants does not say who made it.  The restoration of a *)
(* revision has none.                                                         *)
ServiceRow(c) ==
    LET q == serving[c]
    IN  Row("service", q.id, IF q.route = "member" THEN "success" ELSE "unsaid", q.route # "member",
            IF q.route = "register" THEN "none" ELSE IF q.route = "member" THEN "own" ELSE q.context.tenant)

Log(c) ==
    /\ Under(c, "note")
    /\ trail' = IF serving[c].route = "restore" THEN trail ELSE trail \cup {ServiceRow(c)}
    /\ Answer(c, 200)
    /\ UNCHANGED <<served, troubles, life, collector, stock, ended>>

(* The write fails.  Log goes on, LogReliable has tried three times and fails. *)
LogFails(c) ==
    /\ Under(c, "note") /\ serving[c].route # "restore" /\ InTrouble
    /\ Turn(c, [serving[c] EXCEPT !.lost = {"service"}, !.step = "report",
                                  !.status = IF serving[c].route = "member" THEN 500 ELSE 200])
    /\ UNCHANGED <<served, life, trail, collector, stock, ended>>

---------------------------------------------------------------------------------
(* A scrape counts the articles, sets the gauge, then writes all it has.       *)
CountArticles(c) ==
    /\ Under(c, "work") /\ serving[c].route = "metrics"
    /\ Turn(c, [serving[c] EXCEPT !.step = "gauge", !.seen = stock, !.read = TRUE])
    /\ UNCHANGED <<served, troubles, life, trail, collector, stock, ended>>

CountingFails(c) ==
    /\ Under(c, "work") /\ serving[c].route = "metrics" /\ InTrouble
    /\ Step(c, "render")
    /\ UNCHANGED <<served, life, trail, collector, stock, ended>>

SetGauge(c) ==
    /\ Under(c, "gauge")
    /\ gauge' = serving[c].seen
    /\ Step(c, "render")
    /\ UNCHANGED <<served, troubles, life, trail, counts, totals, buckets, lookups, stock, ended>>

Render(c) ==
    /\ Under(c, "render")
    /\ Turn(c, [serving[c] EXCEPT !.step = "report", !.status = 200, !.seen = gauge])
    /\ UNCHANGED <<served, troubles, life, trail, collector, stock, ended>>

(* Articles are created and published by other requests and other processes.   *)
StockChanges ==
    /\ stock < MaxStock /\ Scraping # {}
    /\ stock' = stock + 1
    /\ UNCHANGED <<serving, served, troubles, life, trail, collector, ended>>

---------------------------------------------------------------------------------
Failed(q) == q.status >= 400
Denied(q) == q.status \in {401, 403}

(* What ActivityLogger is for, save the success of nobody in particular.       *)
Reportable(q) ==
    /\ q.route \in Mutation \/ Denied(q) \/ q.context.override
    /\ q.context.user \/ Failed(q)

Outcome(q) == IF Denied(q) THEN "denied" ELSE IF Failed(q) THEN "failed" ELSE "success"

RequestRow(q) == Row("request", q.id, Outcome(q), q.context.user, q.context.tenant)

Report(c) ==
    /\ Under(c, "report")
    /\ trail' = IF Reportable(serving[c]) /\ Fits(serving[c].route)
                THEN trail \cup {RequestRow(serving[c])} ELSE trail
    /\ Step(c, "count")
    /\ UNCHANGED <<served, troubles, life, collector, stock, ended>>

ReportFails(c) ==
    /\ Under(c, "report") /\ Reportable(serving[c]) /\ InTrouble
    /\ Turn(c, [serving[c] EXCEPT !.step = "count", !.lost = @ \cup {"request"}])
    /\ UNCHANGED <<served, life, trail, collector, stock, ended>>

---------------------------------------------------------------------------------
End(q, fate) == [request |-> [q EXCEPT !.step = "end"], fate |-> fate, life |-> life]

(* Counter and histogram change under one lock.  The bucket is the first one    *)
(* that is wide enough, or the one beyond all bounds.                         *)
Count(c) ==
    /\ Under(c, "count")
    /\ counts' = BagAdd(counts, <<Label(serving[c].route), serving[c].status>>)
    /\ totals' = BagAdd(totals, Label(serving[c].route))
    /\ \E b \in {"within", "beyond"} :
          /\ buckets' = BagAdd(buckets, <<Label(serving[c].route), b>>)
          /\ IF b = "beyond" THEN InTrouble ELSE UNCHANGED troubles
    /\ ended' = ended \cup {End(serving[c], "answered")}
    /\ Turn(c, NoRequest)
    /\ UNCHANGED <<served, life, trail, lookups, stock, gauge>>

(* A panic in a handler unwinds to the outermost middleware.                   *)
Panic(c) ==
    /\ Under(c, "work") \/ Under(c, "note")
    /\ serving[c].route # "preflight"
    /\ InTrouble
    /\ ended' = ended \cup {End([serving[c] EXCEPT !.status = 500], "panicked")}
    /\ Turn(c, NoRequest)
    /\ UNCHANGED <<served, life, trail, collector, stock>>

(* The process dies and is started again.                                      *)
ServerDies ==
    /\ InTrouble
    /\ life' = life + 1
    /\ ended' = ended \cup {End(serving[c], "died") : c \in {d \in Callers : serving[d] # NoRequest}}
    /\ serving' = [c \in Callers |-> NoRequest]
    /\ counts' = EmptyBag /\ totals' = EmptyBag /\ buckets' = EmptyBag /\ lookups' = EmptyBag
    /\ gauge' = 0
    /\ UNCHANGED <<served, trail, stock>>

Handle(c) ==
    \/ Lookup(c) \/ ChangeNothing(c) \/ Change(c) \/ FailAfterCommit(c)
    \/ Log(c) \/ LogFails(c)

Scrape(c) == CountArticles(c) \/ CountingFails(c) \/ SetGauge(c) \/ Render(c)

RequestsNext ==
    \/ \E c \in Callers :
          \/ Arrive(c) \/ TurnAway(c) \/ Handle(c) \/ Scrape(c)
          \/ Report(c) \/ ReportFails(c) \/ Count(c) \/ Panic(c)
    \/ StockChanges \/ ServerDies

RequestsSpec == RequestsInit /\ [][RequestsNext]_requestVars

---------------------------------------------------------------------------------
Responses == {e \in ended : e.fate = "answered"}
RowsOf(q, kind) == {r \in trail : r.of = q.id /\ r.kind = kind}

(* "Failed writes and permission denials are not silently lost", as far as the  *)
(* middleware reaches: each that was answered has its one row, in the log of   *)
(* its tenant.  Those that panicked and those whose path is too long have      *)
(* none, those that died with the process may.  Nobody succeeds anonymously.   *)
AnsweredAreReported ==
    /\ \A e \in ended :
          LET q    == e.request
              rows == RowsOf(q, "request")
          IN  /\ rows \subseteq {RequestRow(q)}
              /\ e.fate = "panicked" => rows = {}
              /\ /\ e.fate = "answered" /\ "request" \notin q.lost /\ Fits(q.route)
                 /\ Denied(q) \/ (q.route \in Mutation /\ (Failed(q) \/ q.context.user))
                 => rows # {}
    /\ \A r \in trail : r.kind = "request" /\ ~r.user => r.outcome # "success"

(* Whoever changes the site is named in the log, by one row or the other; the  *)
(* restoration of a revision alone leaves neither.  A change that was          *)
(* answered with an error is on record as a failure, and none of tenants is    *)
(* answered otherwise unless its service has its row.                         *)
ChangesAreTraced ==
    \A e \in Responses :
        LET q    == e.request
            mine == {r \in trail : r.of = q.id}
        IN  /\ q.changed /\ q.lost = {} =>
                  IF ~Fits(q.route) THEN mine = {}
                  ELSE IF Failed(q) THEN \E r \in mine : r.outcome = "failed"
                  ELSE \E r \in mine : r.user
            /\ q.route = "member" /\ ~Failed(q) => RowsOf(q, "service") # {}

(* A service's row stands for a change that was made, and a request that got    *)
(* as far as that row is not answered with an error.                          *)
SuccessWasMade ==
    \A e \in ended : \A r \in trail :
        r.of = e.request.id /\ r.kind = "service" =>
            e.request.changed /\ (e.fate = "answered" => ~Failed(e.request))

(* repository.ListActivityLogs: a tenant's people see the rows of their tenant, *)
(* the platform's administrators all.  What was done in a tenant is in its     *)
(* list and in no other one.                                                  *)
ListActivityLogs(t) == {r \in trail : t = "all" \/ r.tenant = t}

TenantsSeeTheirs ==
    \A e \in Responses, t \in {"own", "other"} :
        LET q      == e.request
            listed == {r \in ListActivityLogs(t) : r.of = q.id}
        IN  /\ listed # {} => q.context.tenant = t \/ (q.route = "member" /\ t = "own")
            /\ q.context.tenant = t /\ Reportable(q) /\ Fits(q.route) /\ "request" \notin q.lost => listed # {}

(* How often x is counted; a label not seen yet has no count.                 *)
Copies(x, bag) == IF x \in DOMAIN bag THEN bag[x] ELSE 0

(* What a scrape shows: every answered request of this process is counted once,  *)
(* under its status and in one bucket; panics are not.                         *)
CountsAgree ==
    LET mine == {e \in Responses : e.life = life}
        Of(l) == {e \in mine : Label(e.request.route) = l}
    IN  /\ BagToSet(totals) = {Label(e.request.route) : e \in mine}
        /\ \A l \in BagToSet(totals) :
              /\ Copies(l, totals) = Cardinality(Of(l))
              /\ Copies(l, totals) = Copies(<<l, "within">>, buckets) + Copies(<<l, "beyond">>, buckets)
              /\ \A st \in StatusCodes :
                    Copies(<<l, st>>, counts) = Cardinality({e \in Of(l) : e.request.status = st})
        /\ BagCardinality(lookups) =
              Cardinality({e \in ended : e.life = life /\ e.request.looked})
              + Cardinality({c \in Callers : serving[c] # NoRequest /\ serving[c].looked})

(* A gauge is as new as the beginning of the oldest scrape that was under way    *)
(* when the scrape that shows it began, if its count did not fail.             *)
GaugesFollow ==
    \A e \in Responses : e.request.read => e.request.seen >= e.request.low

ErrorsAreMapped == \A e \in ErrorTrees : handleServiceError(e) = StatusOfFirst(e)

RequestsHold ==
    /\ ErrorsAreMapped
    /\ AnsweredAreReported /\ ChangesAreTraced /\ SuccessWasMade
    /\ TenantsSeeTheirs /\ CountsAgree /\ GaugesFollow
=================================================================================
