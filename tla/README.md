# ContentX in TLA+

ContentX (`src/`) is a headless content management system: a Go server
(`src/cmd/server`, `src/internal`) over a SQL database, with an optional Redis,
an HTTP, GraphQL and MCP interface, and web clients. This directory holds
TLA+ modules of the parts of the server whose correctness depends on the order
in which several actors do things, the TLC configurations that check them, and
TLAPS proofs about them. `PROJECT.json` lists the components, the runs, the
source lines every definition stands for, the mutations each property
detects, the hazards and the theorems. Paths below are relative to
`src/internal/`.

How to run, in this directory:

    tlc -workers 2 -config WebhookQueue_single.cfg MCWebhookQueue
    tlapm WebhookQueueProofs.tla

## 1. The system

| Component | Code | State | Hard behaviour | Correct when | Module |
|---|---|---|---|---|---|
| Webhook delivery queue | `services/webhook_service.go`, `services/webhook_worker.go`, `repository/webhook.go` | tables webhooks, webhook_deliveries, webhook_logs; goroutines of the worker | several instances, crash between claim and completion, stale copies of rows, retries | no two attempts at once, truthful and final outcomes, retries neither cut short nor unbounded, everything resolved | `WebhookQueue`, `DeliveryContract` |
| Article workflow | `services/article_service.go`, `repository/article.go`, `models/helpers.go` | articles, audit rows, search documents | check and write in separate statements, five steps per request, failures between them | dates and trail follow the status, the index is in step with it | `ArticleWorkflow`, `ArticleStates` |
| Publish scheduler, lock | `services/scheduler.go`, `cache/lock.go`, `cmd/server/main.go` | ticker loop, sweep, lock entry | instances ticking at once, death in a sweep, late release, editors between list and update | one sweep at a time, one announcement, scheduled articles do get published | `PublishScheduler`, `DistributedLock` |
| Article content and cache | `services/article_cache.go`, `repository/article.go` | versions, revisions, detail and list entries, generation counter, loads under way | a fill racing an invalidation, loads shared by concurrent misses, optimistic locking against versions from a stale cache | lists show what was counted up for, staleness has a known cause, no update overwrites what its writer has not read | `ArticleEditing` |
| Revisions, slugs, translations | `services/article_service.go`, `repository/article.go`, `models/models.go` | articles with slug, version and translation group, revisions | numbers read before they are written, updates of nothing without a lock, slugs checked before the insert, groups read before they are joined | the newest revision shows the text, numbers are whole, groups flat, unless a known overlap | `ArticleRevisions` |
| Reading surfaces | `handlers/article.go`, `handlers/search.go`, `graphql`, `mcp` | what each shows of one article | caches and indexes brought up to date one after the other | all agree once nobody is at work | `ContentReaders` |
| Content types and entries | `services/content_service.go`, `repository/content.go` | types, fields, entries, type cache | cached schema, read-modify-save of a whole row, cascade without transaction | entries satisfy a schema that existed, statuses are decided, double translations and stale types have known causes | `ContentEntries` |
| Search and RAG | `services/search_service.go`, `services/rag_service.go`, `services/vector_store.go` | full-text index, vectors in memory, embedding rows | two indexes written after the commit, rebuilt while requests go on | right again when nothing met them | `SearchIndexes` |
| Sessions | `services/auth_service.go`, `auth/*token_store.go`, `middleware` | revoked and consumed tokens (local and Redis), users | rotation of one token by two processes, Redis failing, rows read before a change | one successor per refresh token, a logout holds, grants rest on rows | `Sessions` |
| Login guard | `auth/login_guard.go`, `auth/redis_login_guard.go` | attempt records, local or in Redis | counting and expiry in a window, several guards over one Redis | a lock has its failures within a window, and a window without a right password holds few failures without one | `LoginGuard` |
| Second factor | `services/totp_service.go`, `models/totp.go` | one row per user | read, change and save of the whole row | the factor in force is the one confirmed, a backup code opens one login | `SecondFactor` |
| Tenants and members | `services/tenant_service.go`, `repository/tenant.go` | roster, audit rows | count-then-delete, audit after the change | a tenant keeps an admin, the trail explains the roster | `TenantRoster` |
| Users and roles | `services/user_service.go`, `handlers/user.go`, `repository/user.go` | users, roles, permissions | check-then-write, permissions replaced in two statements, role deletion in three | only admins change admins, nobody has a role that is gone, a role grants what was answered | `UserRoles` |
| Access rules | `permissions`, `middleware`, routes and tools | registry, grants, seats, tokens | rows read one by one while administrators change them | whoever is admitted was entitled by rows that were so | `AccessRules` |
| Media, backup and restore | `services/media_service.go`, `backup/*.go` | files, rows, backups, mutex | file and row in two steps, uploads during an archive, retention by name | a row has its file, newest backups kept, restores bring back what was saved | `MediaBackups` |
| Categories, tags, comments | `services/category_service.go`, `tag_service.go`, `comment_service.go` | rows, parents, links, counters | find-then-insert, merges and deletions of unchecked statements | tree, links, counters and threads right unless a known cause | `CategoryTree`, `TagLinks`, `CommentThreads` |
| Settings, menus, SEO, analytics | `services/settings_service.go`, `handlers/settings.go` and others | overrides, items, views | upserts that meet each other, defaults under overrides, reordering per item, two looks at the clock | saves are whole, lists agree with single reads, places unique, charts add up, unless a known cause | `SiteSettings`, `SiteMenus`, `SiteInsights` |
| Plugins and themes | `services/system_service.go`, `plugin/loader.go` | rows, mirrors per process | row then mirror, whole-row saves | enabled means enabled, one theme is active, unless a known cause | `Extensions` |
| Cache drivers, rate limits | `cache/memory.go`, `cache/redis.go`, `middleware` | entries with expiry, buckets | Get drops its lock before it deletes, refill and sweep | what was purged is gone, at most twice the limit in a minute | `CacheDrivers`, `RateLimits` |
| Migrations and seeds | `database`, `database/migrations` | schema, records, roles, admin | processes starting at once, DDL that commits by itself | whole whenever a server takes requests | `Bootstrap` |
| Audit log, metrics, errors | `middleware/middleware.go`, `middleware/prometheus.go`, `services/audit_logger.go`, `repository/system.go`, `errs/errs.go`, `handlers/errors.go` | log rows, counters, histograms, gauge | two rows per change written at different times, panics and deaths between them, scrapes during scrapes | denials and failures are on record, counts add up, errors keep their status | `RequestTrail` |
| Server | `cmd/server/main.go`, `config/config.go` | process, workers, fallbacks | start without Redis, shutdown order, restore under it | starts only as configured, ends in order | `ServerLifecycle` |
| Mail, web clients, SDK | the rest | none | - | - | - |

Interactions. Handlers call the services; the article service calls the
repository, then the search indexer, the vectors, the cache and
`WebhookService.Dispatch`, which only inserts rows: the worker of any instance
delivers them later. The scheduler runs on an `ArticleService` of its own,
which has a webhook service but no indexer (`cmd/server/main.go:345`).
Authorisation reads users, roles and memberships row by row for each request.
Instances share the database and, when configured, Redis; they exchange no
messages.

## 2. Modules

One module per component of the table. `PublishScheduler` EXTENDS
`DistributedLock`, `ArticleWorkflow` EXTENDS `ArticleStates`, `WebhookQueue`
instantiates `DeliveryContract` with a refinement mapping (`ImplementsContract`).
`MC*` give sets, functions and symmetry to TLC; `*Proofs` hold the theorems: of
one module (`WebhookQueueProofs`, `ArticleWorkflowProofs`,
`PublishSchedulerProofs`, `ArticleEditingProofs`), or of the modules of a
composite (`AccountsProofs` of `MCAccounts`, `ContentProofs` of `MCContent`,
`OperationsProofs` of `MCOperations`, `SiteProofs` of `MCSite`).

Every handler is split where the code lets others in: at each database
statement or transaction, HTTP request, cache call and index write; what one
lock or one transaction covers is one action. Its guard is the conjunction of
the code's conditions, its error paths are disjuncts, and failing statements
and ends of a process are actions of their own (`Fails`, `Crash`, `TaskFails`,
`VisitFails`, ...). The variable that holds a request under way (`request`,
`edit`, `call`, `order`, `visit`, `task`, `job`, ...) carries what the code has
read so far, which is how a stale copy gets into the models. Examples: publish
is `LoadToPublish`, `CheckPublish`, `CommitTransition`, `Reload`,
`ReadForIndex`, `WriteIndex`; a delivery is `ClaimRead`, `ClaimCommit`,
`LookupFinds`, `Attempt`, `Complete`, `WriteLog`; a cached read is `Ask`,
`Fly`, `Load`, `Fill`; a change of a role's permissions is `FindRole`,
`ListPermissionsByIDs`, `AddPermissions`, `TrimPermissions`.

Abstractions. Time is a flag where only its order matters (a row is due, an
entry lapses) and a small counter where windows do (`LoginGuard`,
`RateLimits`, `CacheDrivers`). Payloads, titles, bodies and secrets are names
or numbers of the write that made them. A random token is the name of its
process. Histories (`claims`, `acked`, `unaudited`, `announced`, `torn`,
`uses`, `muddled`, `blind`, `hasty`, ...) record what happened so that a
property can name the overlap that excuses a state; no action depends on
them, except that a job's claim number is its identity. One tenant, one
content type uid, one article of the kind the property is about, wherever
others do not interact; the search indexes, which one process keeps for all
tenants, have several (`Tenants`).

What the models say of particular code, beyond the table:

- Lifecycle: the fallbacks of cache and token store to the process's memory
  are chosen once, at start. In one behaviour a server runs jobs, or tokens, or
  reads with a restore (`Scenes`). The fallback of the login guard and a
  restore that fails are not modelled.
- Content: `Begin` of a type's deletion merges its two lookups; loading a
  type's row and fields is atomic; GORM's Save is an upsert; the column default
  TRUE replaces a `draft_publish` of false on insert; an update writes back the
  status it has loaded.
- Accounts: removed members cannot be added again (the unique index counts
  soft-deleted rows); a tenant's Update saves the whole row. A login
  reports to its guard twice when it has a second factor: `LetIn` is the right
  password, whose `RecordSuccess` clears the count, and leaves a code to be
  compared (`challenged`); `TakeCode` is the report of the wrong code.
- Users and roles: there are no foreign keys, Update assigns any role id
  unchecked, Create looks for the role in its transaction. A request is
  admitted by the role its author had when the middleware loaded him.
- Backups: names use local time, suffixes compare as numbers below ten; the
  legacy path on the local disk is modelled; the scheduler's distributed lock
  is the Manager's mutex here.
- Bootstrap: three migrations (a plain one, one with a preflight, one of data)
  stand for thirteen.
- Revisions: an update is tags alone, a text, or a text and a slug; a slug is
  the number of its suffix, all articles have one title; what a read committed
  transaction sees is what the steps before have committed, and the row lock of
  an UPDATE is held till the commit, so that requests wait for it, as an insert
  waits for a transaction that takes or leaves its slug (`Contested`).
- Requests: one route of each kind of guard stands for the others (`Gate`). The
  log is on PostgreSQL, where a path longer than its column is refused. A slow
  answer, which falls beyond the last bucket, counts as a trouble.
- MySQL's own upserts and locking are modelled only where a module names it
  (`Bootstrap`); `SiteSettings` and `TagLinks` have PostgreSQL and SQLite. In
  `SiteInsights` the dates of a chart are scanned as timestamps on PostgreSQL and
  MySQL (`stamped`); otherwise its databases are alike.

## 3. Runs

`CHECK_DEADLOCK FALSE` stands in every configuration because the inputs are
bounded: when all operations are issued and nothing is open, the system
legitimately rests. `accounts`, `content`, `operations` and `site` put models
that share no variable side by side with one of them at work (`focus`,
`subject`, `desk`, `part`; the others stay in one initial state), so their
state counts add; each property is that of a module, or the conjunction of
the named properties of several.

| Run | Bounds | Shows |
|---|---|---|
| `webhook_single` | 1 instance, 1 webhook, 2 events, 2 workers, 2 attempts, 1 stop or crash, 1 failing call; fair | a delivery never has two attempts at once, requests stay within the budget plus one per requeue, every delivery is resolved, deleted or stranded by a failed write |
| `webhook_multi` | 2 instances, 1 delivery, 2 workers, 2 attempts, 1 stop or crash, 1 failing call | instances that requeue and complete each other's row never record an unanswered success, give up early or exceed their workers; the queue implements `DeliveryContract` |
| `workflow` | a post; 2 requests and the sweep, 5 operations when they overlap, 6 when one follows another, 1 failure | dates follow the status, deleted articles stay so, the last audit row explains the status; one after another, the trail is a chain, and the index agrees with the status when nothing failed |
| `scheduler_shared` | 2 instances, 2 articles of 2 tenants, 2 schedules each, 1 crash, 1 failing call; fair | sweeps exclude each other, one announcement per schedule, every scheduled article is published or withdrawn |
| `editing_memory` | 1 process with its memory cache, 2 clients, 3 reads, 2 edits of any kind, 1 restart | a list shows every edit its process had counted up for; a stale cached article has one of three causes; an accepted update was based on the text it replaces, unless a revision was restored |
| `accounts` | `Sessions`: 2 processes with Redis, 2 callers, 2 tenants, 3 pairs of tokens, 2 calls, 1 change, 1 fault. `LoginGuard`: 2 guards, limit 2, windows of 2 in 4 ticks, up to 2 failures at a time, 1 failing call of Redis. `SecondFactor`: 2 devices, 2 backup codes, 5 requests. `TenantRoster`: 2 users, 2 managers, 3 operations, 1 mishap. `UserRoles`: 2 people, 1 role, 2 requests at once, 3 in all, 1 setback | the properties of section 5, and `LocksFollowFailures`: an account is locked only for a limit of failures in one window, and a window in which no password was right holds at most two counts of one less than the limit that did not lock it, and one failure more for each failed call of Redis. A right password begins the counting anew, also that of codes: `login_codes` |
| `content` | `ContentEntries`: 2 clients, 2 caches, 1 field, 2 locales, 2 types, 3 entries, 3 requests, 1 fault. `SearchIndexes`: 3 articles of 2 tenants (a post of another tenant, a page and a post of the default one), 2 workers, 2 jobs at a time, batches of 1, 4 operations, 1 failure, 1 restart | the properties of section 5, and `IndexesHeal`: what nothing meets heals. A request leaves both indexes right for its article, whichever its tenant; a rebuilding of the vectors those of its tenant's posts; one of the full-text index, or a start, the documents of the default tenant, and none of any other |
| `operations` | `MediaBackups`: 1 file, 2 users, 1 backup kept, 2 seconds, 3 jobs, 1 failure, both drivers. `CategoryTree`: 3 categories, 2 articles, 2 editors, 4 operations, 1 slip. `TagLinks`: 2 tags, 2 articles, 2 clerks, 3 writes, 1 loss (a statement that fails, of a merge also unseen, or a clerk that dies), both databases | the newest backups are kept and restores bring back what was saved; categories are shown, links and counters agree, unless an overlap or failure named by the property explains it |
| `site` | settings 2 keys, 2 savers, 4 saves; menus 3 items, 4 operations; comments 2 on 2 articles; dashboard and chart over 2 days, either form of date, 1 missed count; 2 editors and 2 reads or failed index writes of an article; 2 writers, 3 articles, 3 writes, 2 locales, 3 slugs; 2 processes and 2 themes, 3 switches; limit 2 in 8 ticks; cache of 2 entries; 2 processes that migrate and seed; 2 roles, a token, 2 changes, 1 start; 2 servers, 2 launches, 2 events; 2 requests of 9 kinds; one failure each | `SiteHolds`, `RuntimeHolds`, `StartHolds`: the conjunctions of what those thirteen modules promise |
| `login_codes`, `tenant_orphaned`, `pages_pruned` | 1 guard, limit 3, windows of 2, 3 failures, no failing call; 2 users, 2 operations; 1 page, 2 operations | violations, see section 4 |

Why the bounds suffice. Two actors of a kind are needed for every overlap a
property speaks of, a third adds nobody with another role: guards compare a
row, not the identity of who wrote it. Two attempts give a retry, its boundary
and an exhausted delivery. One more operation than there are actors gives a
complete one before or after an overlapping pair; six in sequence take an
article to every status and back. Two tenants give a sweep two batches, so that
it can be overtaken between them; two schedules an article that is put back
while it is being published. One crash or failing call occurs at every possible
point. Three entries, and three articles, are an
original and two translations. A third read or a second failed index write adds
nothing to the loads and indexes of one article, which is why they share a
bound; all who act in pairs in `site` are the same two model values, because
one symmetry is then enough for it. For the modules of
section 5 the theorems hold for every number of actors and operations.

Fairness. Only `webhook_single` and `scheduler_shared` check liveness. Of the
queue: the poll loop runs on a ticker, an HTTP attempt ends within the client's
timeout, waiting makes a row due, a process that stopped is started again.
Nothing forces crashes, failures or deletions. Of the scheduler: the ticker
fires, a sweep that has begun continues, an entry of the lock ends after its
time to live, a process is restarted, time passes. All of it is weak fairness:
each of these actions stays possible until it is taken or somebody makes it
pointless. A tick needs the lock to be free, and the other instance may keep
taking it; then that one sweeps, and the property does not care who does.

`EventuallyResolved` excuses a stranded row: when the write of an outcome, or
the requeue at start, fails, the row stays in delivering until the next start
although nobody works on it (`webhook_worker.go:301` only logs the error).
`SearchableWhenSerial` speaks of states at rest without failures, because
index writes are best-effort. `OneSweepAtATime` assumes that a sweep ends
within the time to live of the lock, `interval + 10s` (`SlowSweeps = FALSE`);
nothing in the code bounds it. `SingleUse` and `LogoutHolds` speak of a
deployment with Redis, as the code does.

## 4. Where code and words disagree

Three runs show a violation:

- `login_codes`: "Failed codes count as failed attempts to block TOTP brute force"
  (`services/auth_service.go:223`). They are counted, but every attempt at a code
  begins with the right password, whose `RecordSuccess` (line 218) has just deleted
  the count. So each wrong code is the first of its count: who has the password may
  try codes without end and is never locked out, unless a call of Redis fails
  (`WrongCodesLock`). What does hold of failures between two right passwords is
  `LocksFollowFailures`, and it is less than a lock after every limit of failures in
  a window: two counts, one begun when the other ended, may lie in one window.
- `tenant_orphaned`: "a tenant never becomes administratively orphaned"
  (`services/tenant_service.go:230`). `UpdateMemberRole` counts no admins, so the
  last one can be demoted; and two removals that count before either deletes
  remove both of two (`OrphanedOnlyByDemotionOrRace` says there is no third way).
- `pages_pruned`: a rebuilding of the vectors indexes a published page and then
  prunes it, because the key to keep is that of an article
  (`services/rag_service.go:583`, with the comment at line 554). The rows of
  pages, on the other hand, are never pruned.

Stated in the modules, or excused by name in a property, without a run:

- Queue: `ReclaimedRowUntouched`. `repository/webhook.go:164` says a row
  reclaimed meanwhile is left untouched; the status guard cannot tell the second
  claim from the first, and a starting instance requeues every delivering row.
- Workflow: `LegalTransitions` fails with two requests, since the check and the
  unconditional UPDATE are apart; `SweptIsSearchable`, since the scheduler's
  service has no indexer; `PageSearchableIffPublished`, since bulk actions remove
  the document under the type "post" (`services/article_service.go:871`).
- Editing: `NoLostUpdate` fails after a restored revision, which writes a text
  and leaves the version; with one Redis for two processes a list key built of
  one process's generation may name a list the other stored before.
- Users and roles: two replacements of a role's permissions at once can leave
  the intersection; a failed lookup leaves a role with nothing and is answered
  as a success; the check for admins is made before the write it protects; the
  last admin can be demoted.
- Second factor: a setup that began before the confirmation and saves after it
  turns the factor off; a login's save after a removal revives the row; two
  logins can spend one backup code at once.
- Access: a token with a slug nobody knows is refused as a whole until the next
  start drops the slug; built-in roles' edited permissions are reset at each
  start; two changes under one request may add up to an admission that no
  single state permits. `AuthMiddleware` ignores its user cache.
- Content: two translations in one locale, an entry saved over a newer row, a
  cached type that is deleted: each has the one overlap its property names.
- Backups: with `MaxBackups` of 1 a second backup in one second is removed at
  birth though answered as created; partial dumps stay, are listed and count
  for retention; a cut SQL dump passes the check that "catches truncated or
  partial backups" (`backup/backup.go:200`); an archive can catch an upload half
  way, and restoring it overwrites the whole file.
- Categories: the slug of a deleted row is chosen again and refused every
  time; parents are unchecked, so that cycles and orphans vanish from the tree;
  an update of a row deleted meanwhile is answered as a success. Tags: on
  PostgreSQL concurrent recounts drift; `UPDATE OR IGNORE` in the merge is
  SQLite's and fails elsewhere. `TagService.Merge` drops the errors of all its
  statements (`services/tag_service.go:124`, 132, 135), so on any database a merge is
  answered as a success although the links of a source were not carried over, a
  counter was not written, or the sources were not deleted; a source that was deleted
  all the same leaves its articles with a tag that is gone. `MergeCarries` says that
  this is the only loss: an article has the target, or still the source whose
  statement failed. On PostgreSQL and MySQL that is every source.
- Search: the index of documents is one for all tenants, and a rebuilding, or a
  start, empties it and lists the default tenant's articles alone
  (`services/search_builtin.go:394`, `services/article_service.go:372`), so the
  articles of other tenants are missing from full-text search until they are written
  again. `IndexesHeal` states this as it is (`omitted`). Vectors are rebuilt for one
  tenant at a time; `RAGService.ReindexAll`, over all, is called by nobody.
- Settings: under READ COMMITTED a save that misses the override in its UPDATE
  and finds one committed meanwhile drops its own value, answered as saved
  (`services/settings_service.go:224`).
- Revisions: an update of nothing writes a revision without lock or version
  check, so that two revisions get one number and the newest may show an older
  text; `RestoreRevision` ignores how many rows it changed, so that a deleted
  article gets a revision, and leaves the version as it is. The slug of a
  deleted article is found free by `EnsureUniqueSlug` and refused by the index
  on every insert; two translations into one locale can be made at once.
- Requests: `middleware/middleware.go:183` says that failed writes and denials
  are "not silently lost", but a panic passes `ActivityLogger`, the metrics and
  the access log by. The row of a restored revision names a path of 51
  characters for a column of 50 (`models/models.go:446`), and the service writes
  none, so that on PostgreSQL this change alone leaves no trace. Service rows
  carry no request identifier, those of tenants no user
  (`services/tenant_service.go:270`). A change of tenants can be committed and
  answered with 500 when `LogReliable` fails. The buckets of the histogram are
  not cumulative, as the exposition format named in `prometheus.go` wants them.
  A wrapped `gorm.ErrRecordNotFound` is answered with 500.
- Comments: `allow_comment` of false at creation is stored as TRUE; one level of
  replies is shown. Insights: redirect rules are stored and applied nowhere; no
  data gives an empty chart although gaps are to be filled. A count of the dashboard
  that fails is shown as 0 (`repository/settings.go:382`), so that today may exceed the
  week; `NumbersFit` excuses just the number that was missed. `DATE(created_at)` is
  scanned into a string, which on PostgreSQL and MySQL is a timestamp and never equals
  the date of a bar (`repository/settings.go:425`, `services/settings_service.go:729`):
  there every bar of the chart is 0, and `BarsAreWhole` says so. SQLite's dates are
  those of UTC and the bars those of the process; if it is behind, the first bar may
  be cut.
- Extensions: `UpdateConfig` saves the row as read and reverts a concurrent
  change; a failed Load means enabled; other processes' mirrors hear nothing;
  two activations at once leave two active themes.
- Caches: the comment says LRU-like, the eviction takes the earliest expiry,
  also on overwriting; a late reader removes a fresh entry.
- Lifecycle: the Redis client is closed before requests and workers finish, so
  running jobs cannot give back their locks and a logout answered meanwhile is
  only in the memory of the dying process; `PublishScheduler.Stop` "waits for it
  to drain" but sleeps 10 ms. A failed seeding is only a warning.
- Readers: the public search takes the status it is asked for although comments
  say it forces published; feed, sitemap, search, MCP and RAG look at the
  status only, the page of a slug and GraphQL at the visibility too.

## 5. Theorems

Each is proved by TLAPS for all values of the constants that satisfy the named
assumptions of the modules; the runs check the same definitions on the small
instances above. A theorem about a module that a composite run contains is
about the module's own specification (`SessionsSpec`, `RosterSpec`,
`FactorSpec`, `RolesSpec`, `GuardSpec`, `ContentSpec`, `IndexSpec`), those of `operations` and
`site` and the type invariants of the composites about the composite's `Spec`. The
assumptions are bounds in Nat, and what configuration and schema guarantee:
limits and budgets above zero, finite sets where cardinalities are taken
(`FiniteAssumption`, `UsersAssumption`), `DefaultLocale \in Locales`
(`LocaleAssumption`), one tenant per article, at least one backup code
(`FactorAssumption`), the two system roles not among the custom ones
(`RolesAssumption`), ids that are positive numbers of a finite table
(`DocAssumption`), a clock that shows one second at least (`BackupBounds`),
articles that are no categories (`TreeBounds`), no server called as a lock that
nobody holds (`LifecycleBounds`), finitely many processes that guard an account and a limit of two failures at
least (`GuardAssumption`).

`WebhookQueueProofs`. `TypeCorrect`. `FreshInv` says that a delivery not yet
inserted has no row, no requests, and no copy in a transaction or goroutine:
without it an insertion could reset a row that others are working on.
`BudgetInv` says of every copy of the attempt counter (row, claim transaction,
job) that it never exceeds the requests made, and of every job which answer it
carries; it is inductive with several instances because stale copies are
smaller, never larger, and requests only grow. From it: `SuccessIsAcknowledged`,
`ExhaustedIsSpent`, `TerminalStaysFinal`, and, with a case analysis of what one
step can do to one row (`RowSteps`), `QueueImplementsContract`: initial states
map to initial states and every step to a step or a stutter of
`DeliveryContract`. For a single instance, `SoloInv` ties each job to a row in
delivering, each claim to a pending row, and the counters to the requests:
`SoloAttemptsAlone`, `SoloRequestsBounded`; with a second instance both are
false. `CapacityInv` counts the jobs and the open claim of an instance, which
never exceed its workers, whoever else is at work: `WorkersAreBounded`.

`ArticleWorkflowProofs`. `SeenInv`: a transition about to be committed knows the
status it was checked for. `RowStep` enumerates what any step can do to one
row. `DateInv` has two parts: published rows are dated and scheduled ones have a
time (`RowsDated`), and a request that decided not to set the date did so
looking at a row that has one (`StampsKnown`), which stays true because dates
are never removed: `DatesAlwaysFollow`. `TrailInv` relates the last audit row and
the status: `TrailAlwaysExplains`. `DeletedStaysUntouched` follows from `RowStep`.
With one request at a time (`OneAtATime`) what a request has read is still so
when it writes: `TrailStaysChained`, and, without the sweep among the offered
operations, which indexes nothing, `SearchFollowsPublication`: whatever the
requests, at rest and without failures a post has a document exactly when it is
published.

`PublishSchedulerProofs`. `TypeCorrect` holds with either lock. `OwnerInv`, a
working sweep owns the entry, gives `SweepsExclude` under `Shared` and
`~SlowSweeps`. `DutyInv` says which phases of a sweep still have articles to
publish or to announce; `CreditInv`, that the announcements of an article, plus
one that is owed, plus one if it is scheduled or listed, never exceed its
schedules. It needs exclusion, since two sweeps could list the same article:
`AnnouncementsCounted`.

`ArticleEditingProofs`. `SnapshotInv` says of everything a client has read or may
still be given (answers, loads under way, cache entries, bases of updates) that
it is no newer than the row and, if it has the row's version, has its text,
unless a revision was restored later. It is inductive because a step hands on
what was seen or reads the row (`ReadOrigin`, `StoreOrigin`, `EditOrigin`) and
every change of the text either counts the version up or is a restore
(`ArticleSteps`): `UpdatesAlwaysSawLatest`, for any caches. `ListInv` says what a
process can answer under a list key: under the current generation nothing older
than the edits counted up for, under any nothing older than those expect who
wait for it. With a cache in every process (`~Shared`) it gives
`OwnListsCurrent`; with a shared one processes answer under each other's keys,
and it is false. `StaleInv` extends the causes of staleness to the loads about
to fill the cache: `StaleDetailsExplained`, for a single cache, because an edit
does not reach the memory of another process.

`AccountsProofs`, sessions. The history of an exchange is spread over Redis, the memories
of processes that may restart, and requests under way. `ClaimInv`: a refresh
token that somebody has claimed is gone everywhere a later request could look
(or has expired), and has one claimant; the claim outlives whoever holds it.
Hence `RefreshIsSingleUse`, which assumes `Shared`: without Redis a restart
forgets. `LogoutInv`: once a logout was answered its tokens are held in Redis,
or by the process that remembers; a request that began later is stopped before
it is admitted, unless Redis refused the write or the read: `LogoutIsLasting`,
also under `Shared`. `RowsInv`: each fact a request has relied on was so at some
time since it began, however the rows changed between its reads:
`GrantsAreFounded`. `BlockedInv` accounts for each mark on a refresh token by an
exchange, one under way, a logout or a refresh that failed:
`BlockedTokensAreExplained`. The last two hold with Redis or without.

`AccountsProofs`, roster. `CountInv`: a removal that has come past the count found no
admin to protect or more than one. With cardinalities of the finite roster
(`UsersAssumption`) it gives `OrphansAreExplained`, an action property: the step
that takes the last admin is a demotion or a removal whose count others have
made wrong. `AloneInv`: an operation that overlapped no other of its subject
finds the subject as it left it. `TrailInv`: the trail's last word on a member
or the status is so, or an operation under way owes the event, or one was
overlapped or failed before it: `TrailExplainsAll`.

`AccountsProofs`, second factor. `FactorTypeInv` also says how the copy a request
holds is related to the row it has read; `EnrolledInv`, that the factor in force
is the one last confirmed unless a copy was saved over a row it was not read
from; `BatchInv`, that the codes of a confirmation under way are known to
nobody, in no row and in no other copy, which keeps a later batch from
resurrecting used codes; `UsesInv`, that a used code was used once and is in the
row no more: `FactorIsHeld`, for any number of devices.

`AccountsProofs`, users and roles. `AdminInv`: a request that is about to change
an admin without the right to has passed its check before the change that made
him one, so he is in `hasty` (a change to admin counts the other requests that
are past their check). `GoingInv`: from the count of a role's users on, nobody
has the role but those who were given it unchecked, until and after it is
deleted. `TrimInv`: of the requests that have inserted permissions and not yet
deleted the others, any two on one role know of each other, and one that knows
of nobody finds what it inserted; so its deletion leaves exactly what it was
asked for. Together `RolesAreHeld`, for any number of requests, people and roles.
With the types of the sessions, the roster and the login guard:
`AccountsTypeCorrect`.

The login guard. `LocksFollowFailures` compares a record with sums of failures over
windows of time. A sum is defined by a recursive function; that one exists and is
unique is proved by the least moment at which it would not be (`SumsExist`,
`SumsAgree`), and from it how a sum grows with time and with a failure (`SumGrows`,
`SumWithOneMore`, `SumFromEarlier`). One direction is `BurstInv`: a count is at most
the failures since it began, so a lock finds its failures in the window before it;
of a count whose end was lost it says only that it has none. The other direction
needs more than the counts know, because a count begins anew: `LedgerInv` says that
there is a ledger with an entry for each failure admitted since the last right password
(who counted it, when, in which count, as which number), that no number of a count
is given twice, and that a count ends before the next of its counter begins, a
window later at least. So the entries of one counter within a window belong to two
counts at most and have at most `maxAttempts - 1` numbers each (`PlacesApart`): an
injection bounds them (`AdmittedAreFew`). With Redis, entries of the memory of a
process are paid for by calls that failed. `LocksFollow` holds for any finite
set of processes, any limit above one and any windows.

`ContentProofs`, entries. `TypeInv` ties every request to a step of its operation
and every number in use to something created. `FitInv` ranges over every copy of
a type (rows, caches, requests) and every version of an entry (rows, and what a
request is about to save): a version fits the type of its number as stored, which
never changes once created. `GroupInv`: the versions of an entry agree on type,
group and locale, and a group has one type. `TwinInv` tracks what each request
saw when it looked for a translation. The theorems: `EntriesFit`,
`TwinsMissedEachOther`, `DecisionsStand`, `StaleTypesExplained`, for any number
of clients, caches, fields and locales.

`ContentProofs`, search indexes. `IndexesHeal` speaks of pieces in step with an
index, or left out of it, since an operation ended that nothing met. `IndexInv` follows such an
operation through its steps (`OnTrack`): a request holds the row as it is and
has brought in step what lies behind it; a rebuilding that lists rows page by
page has every live row up to its offset in its batch, or already written, or in
the set it will keep, and what it keeps is stored and found, but for pages once
the pruning has dropped them. A rebuilding of the full-text index lists the rows of
the default tenant, and from its clearing on nothing of any other. The offset is compared with the rank of a row
among the live ones (`Rank`), so the argument is one of cardinalities.
`NoMeeting` and `HealedRests` say that an operation marked as alone is alone, and
that nobody touches what is marked as healed; so a step of one operation leaves
the others on track (`JobHeals`), and the last one ends with both indexes right:
`IndexesAlwaysHeal`, for any rows, tenants, batch size and number of operations, and
`ContentTypesCorrect`.

`OperationsProofs`, backups. `BackupInv`: a file new to the library is known to no
row, dump, deletion or job, and one upload at most is at work on it (`NewInv`,
`UploadInv`); a row has its whole file, or is being deleted, or has a named
reason (`RowsInv`); a complete dump holds what it meant to hold (`StoreInv`); a
full backup has archived the file of each of its rows or has yet to come to it,
unless the file was taken from it (`PairInv`); when retention has dropped
anything, it has kept `MaxBackups`, none older than what it dropped (`KeptInv`).
The last rests on the order of names: the place of a file in the sorted listing is
the number of names before it (`PlaceOf`), so the kept ones are exactly as many as
places. With it `BackupsAlwaysHold`, for any number of users, files and backups.

`OperationsProofs`, tags. `TagInv`: a count that a request is about to store is
that of the links, or the links were changed since (`CommitFits`, `StoreFits`); a
deletion has removed the links of its tag but those linked late (`RowFits`); a
merge has carried each article to the target, or still has a source linked to it,
which it has yet to come to or whose statement failed (`CarryFits`).

`OperationsProofs`, categories. `TreeInv`: slugs are given out in turn
(`RowsInTurn`), so a slug once found free tells which rows exist; the parents of
live rows are live but for strays; a deletion that is past the rows of a category
has left only strays in it (`DealtAreStrays`); and `NoTrap`: in no set of
categories without strays has everyone its parent in the set. `NoTrap` is what
lets the tree show all: the categories it does not reach would be such a set.
Moving a row keeps it because the code's walk up the parents (`Chain`) has not
met the row: of a trap that appears, what the walk has not passed was a trap
before. `Chain` and `BuildCategoryTree` are recursive functions, and
`ChainClosed` and `TreeClosed` say what they compute for every tree: iterates of a
growing step on a finite set exist, agree and settle after as many steps as it
has elements (`IteratesExist`, `IteratesAgree`, `IteratesSettle`, by the least
number that fails). With `TagInv` this gives `TaxonomyAlwaysHolds`, for any number
of categories, tags, articles and requests, and `OperationsTypeCorrect`.

`SiteProofs`, servers. `LifeInv` says what a server has at each step of its life
(`StageOf`: no job before it serves; its client of Redis is closed from the
beginning of a shutdown on; after the wait for a job it is over or named in
`late`), that a lock is in Redis under the name of the server that runs the job,
and stays there only when the release was missed or the server ended without one
(`LockOf`), that nobody reads a database older than the one at his start
(`ReadsInv`), and which servers know of a logout (`TokensInv`).

`SiteProofs`, migrations and seeds. `BootInv` ties the list a process has read to
the record: what it takes for applied is applied and without a gap (`KnowsOf`),
unless a rollback ran beside another process; before any rollback a process past
its migrations finds all of them recorded (`Whole`). That seeding converges,
whoever overtakes whom, rests on `Line`: for each thing that is sown, if some
process is past the step that sows it and the thing is not there, then somebody
has yet to pass that step (`Upto` lists the steps before it, the clearing of the
default role among them) or ended before it. The attempt to prove that a recorded
migration is made was not inductive as first stated: on MySQL a migration may be
rolled back, applied again and rolled back once more, and the second rollback
undoes parts of a recorded migration like the first. So the history `undoing` is
written by the steps that undo a part, and the property excuses just those.
Together: `StartAlwaysHolds`, for any set of servers and processes and any number
of launches, events, deaths and rollbacks.

Only model-checked, and why:

- `EventuallyResolved` and `ScheduledIsPublished`: liveness under fairness.
- `SiteHolds`, `RuntimeHolds`: the conjunctions of what eleven small modules
  promise, each with an invariant of its own to be found; what `RuntimeHolds`
  says of a minute of requests is a sum over a window, as in the login guard.

## 6. Plan

1. Done: the modules of section 2, with the theorems of section 5.
2. Next to prove: the other modules of `site`, those with the smallest state and
   the sharpest claims first (`SiteSettings`: answered is stored; `AccessRules`:
   admitted was allowed; `ContentReaders`: surfaces agree), then `RateLimits` with
   its sum over a window.
3. Next to model: the reindexing after a restore; the fallback of the login
   guard at start; the REST handlers over the services that only format.
4. A specification worth stating in addition: a token is consumed once, as an
   abstract register that `Sessions` implements under `Shared`.

Not planned: request parsing, rendering, image and SVG processing, scoring of
search results, embeddings and language models, highlighting, the text of
log lines, mail, plugin hooks, the generated API description (`src/docs/api`), the Redis, S3 and
SQL servers themselves (external; their atomic operations are the steps of the
modules), and the web clients. They are data processing or output without
interleaving.
