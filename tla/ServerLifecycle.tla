---------------------------- MODULE ServerLifecycle ----------------------------
(***************************************************************************)
(* The life of a server process, from main to its exit: the checks of the     *)
(* configuration, the choice between Redis and the process's own memory for   *)
(* the cache and the revoked tokens, the three workers, requests, and the      *)
(* shutdown in its order.  Several servers share a database and a Redis that   *)
(* may not answer; a restore from the command line replaces the database       *)
(* under them.                                                                *)
(*                                                                          *)
(* What the workers do is in PublishScheduler, WebhookQueue and MediaBackups,  *)
(* the migrations and seeds in Bootstrap, the token stores in Sessions.        *)
(***************************************************************************)
EXTENDS Integers, FiniteSets

CONSTANTS
    Servers,        \* the processes
    Deployments,    \* the configurations they may be started with
    Scenes,         \* bound: what may happen in one behaviour: "jobs", "tokens", "reads"
    MaxLaunches,    \* bound: starts of a process
    MaxEvents       \* bound: requests, jobs, outages, deaths, lapses, restores

Nobody == "nobody"

ASSUME LifecycleBounds == {MaxLaunches, MaxEvents} \subseteq Nat /\ Nobody \notin Servers

VARIABLES
    scene,        \* what happens in this behaviour
    deployment,   \* the environment all processes are started with
    server,       \* each process: what it has set up, does and remembers
    redis,        \* the shared store
    data,         \* how often the database has been replaced
    tool,         \* the restore from the command line
    token,        \* an access token: the key that signed it, or none
    logout,       \* history: where the token's revocation was recorded
    stale,        \* history: an old article was filled in after the restore
    launches, events,
    ends          \* history: how each process last ended

lifeVars == <<scene, deployment, server, redis, data, tool, token, logout, stale, launches, events, ends>>

Jobs       == {"publish", "deliver", "backup"}
LockedJobs == {"publish", "backup"}     \* run under a distributed lock
None       == -1

---------------------------------------------------------------------------------
(* The environment: the mode, the token secret, and the credentials a release  *)
(* demands.  "weak" is a value that is short, known or a placeholder.          *)

HasSecret(d)  == d.secret # "none" \/ d.mode # "release"
Validate(d)   == d.secret # "weak" /\ (d.mode = "release" => d.credentials = "good")
KeyOf(d, n)   == IF d.secret = "none" THEN n ELSE 0

DownServer ==
    [step |-> "down", cache |-> "none", store |-> "none", closed |-> FALSE, key |-> None,
     workers |-> {}, running |-> {}, holds |-> {}, request |-> "none", saw |-> None,
     revoked |-> FALSE, entry |-> None, born |-> 0]

NoEnd == [how |-> "none", owed |-> {}, late |-> {}, cut |-> {}, unanswered |-> FALSE]

Alive(s) == server[s].step # "down"

LifeInit ==
    /\ scene \in Scenes /\ deployment \in Deployments
    /\ server = [s \in Servers |-> DownServer]
    /\ redis = [up |-> TRUE, locks |-> [j \in LockedJobs |-> Nobody], revoked |-> FALSE, entry |-> None]
    /\ data = 0 /\ tool = "idle"
    /\ token = None /\ logout = "none" /\ stale = FALSE
    /\ launches = 0 /\ events = 0
    /\ ends = [s \in Servers |-> NoEnd]

LifeTypeOK ==
    /\ scene \in Scenes /\ deployment \in Deployments /\ data \in 0 .. 1
    /\ \A s \in Servers :
        /\ server[s].step \in {"down", "prepared", "cached", "stored", "serving",
                               "draining", "backup", "deliver", "publish"}
        /\ {server[s].cache, server[s].store} \subseteq {"none", "redis", "memory"}
        /\ server[s].running \subseteq Jobs /\ server[s].holds \subseteq LockedJobs
        /\ server[s].workers \subseteq Jobs
        /\ server[s].request \in {"none", "login", "logout", "read"}
        /\ ends[s].how \in {"none", "refused", "died", "forced", "graceful"}
    /\ \A j \in LockedJobs : redis.locks[j] \in Servers \cup {Nobody}
    /\ tool \in {"idle", "restored", "connected", "done", "failed"}
    /\ logout \in {"none", "shared", "local"}
    /\ launches \in 0 .. MaxLaunches /\ events \in 0 .. MaxEvents

Event == events < MaxEvents /\ events' = events + 1

(* A process reaches Redis over the client of its cache.                      *)
Reaches(s) == redis.up /\ ~server[s].closed

(* The process ends: what it was still doing is cut.                          *)
Exits(s, how) ==
    /\ server' = [server EXCEPT ![s] = DownServer]
    /\ ends' = [ends EXCEPT ![s].how = how, ![s].cut = server[s].running,
                            ![s].unanswered = (server[s].request # "none")]

---------------------------------------------------------------------------------
(* main, up to ListenAndServe.                                                *)

(* Configuration, database, migrations and seed: refused, or set up.           *)
Launch(s) ==
    /\ ~Alive(s) /\ launches < MaxLaunches /\ launches' = launches + 1
    /\ \/ /\ HasSecret(deployment) /\ Validate(deployment)
          /\ server' = [server EXCEPT ![s] = [DownServer EXCEPT !.step = "prepared", !.born = data,
                                                         !.key = KeyOf(deployment, launches + 1)]]
          /\ ends' = [ends EXCEPT ![s] = [NoEnd EXCEPT !.owed = {j \in LockedJobs : redis.locks[j] = s}]]
       \/ Exits(s, "refused")
    /\ UNCHANGED <<scene, deployment, redis, data, tool, token, logout, stale, events>>

Boots(s) == UNCHANGED <<scene, deployment, redis, data, tool, token, logout, stale, launches, events, ends>>

newCacheDriver(s) ==
    /\ server[s].step = "prepared"
    /\ server' = [server EXCEPT ![s].step = "cached",
                                ![s].cache = IF redis.up THEN "redis" ELSE "memory"]
    /\ Boots(s)

Shared(s) == IF server[s].cache = "redis" /\ redis.up THEN "redis" ELSE "memory"

initTokenStore(s) ==
    /\ server[s].step = "cached"
    /\ server' = [server EXCEPT ![s].step = "stored", ![s].store = Shared(s)]
    /\ Boots(s)

(* The workers, then the listener; backups may be switched off.                *)
Serve(s) ==
    /\ server[s].step = "stored"
    /\ \E w \in {Jobs, Jobs \ {"backup"}} :
         server' = [server EXCEPT ![s].step = "serving", ![s].workers = w]
    /\ Boots(s)

---------------------------------------------------------------------------------
(* The workers.                                                               *)

JobLeaves == UNCHANGED <<scene, deployment, data, tool, token, logout, stale, launches>>

StartJob(s, j) ==
    /\ scene = "jobs" /\ Alive(s) /\ j \in server[s].workers \ server[s].running /\ Event
    /\ IF j \in LockedJobs /\ server[s].cache = "redis"
       THEN /\ Reaches(s) /\ redis.locks[j] = Nobody
            /\ redis' = [redis EXCEPT !.locks[j] = s]
            /\ server' = [server EXCEPT ![s].running = @ \cup {j}, ![s].holds = @ \cup {j}]
       ELSE server' = [server EXCEPT ![s].running = @ \cup {j}] /\ UNCHANGED redis
    /\ UNCHANGED ends /\ JobLeaves

(* A lock is released by the one that holds it, if it reaches Redis.           *)
FinishJob(s, j) ==
    /\ j \in server[s].running
    /\ server' = [server EXCEPT ![s].running = @ \ {j}, ![s].holds = @ \ {j}]
    /\ redis' = IF j \in server[s].holds /\ Reaches(s) /\ redis.locks[j] = s
                THEN [redis EXCEPT !.locks[j] = Nobody] ELSE redis
    /\ ends' = [ends EXCEPT ![s].owed = @ \cup ({j} \cap IF redis.up THEN {} ELSE server[s].holds)]
    /\ UNCHANGED events /\ JobLeaves

---------------------------------------------------------------------------------
(* Requests.                                                                  *)

(* Taken until the listener is closed, after the cache's client was.          *)
Accept(s, kind) ==
    /\ server[s].step \in {"serving", "draining"} /\ server[s].request = "none"
    /\ scene = IF kind = "read" THEN "reads" ELSE "tokens"
    /\ IF kind = "login" THEN token = None /\ UNCHANGED events ELSE Event
    /\ kind = "logout" => token # None /\ logout = "none"
    /\ server' = [server EXCEPT ![s].request = kind]
    /\ UNCHANGED <<redis, ends>> /\ JobLeaves

Revoked(s) == server[s].revoked \/ (server[s].store = "redis" /\ Reaches(s) /\ redis.revoked)
Allowed(s) == token = server[s].key /\ ~Revoked(s)

Answered(s) == [server EXCEPT ![s].request = "none", ![s].saw = None]

Login(s) ==
    /\ server[s].request = "login"
    /\ token' = server[s].key /\ server' = Answered(s)
    /\ UNCHANGED <<scene, deployment, redis, data, tool, logout, stale, launches, events, ends>>

(* ResilientTokenStore.Revoke: in memory, then in Redis; the answer does not   *)
(* say whether Redis has it.                                                  *)
Logout(s) ==
    /\ server[s].request = "logout"
    /\ IF Allowed(s)
       THEN LET shares == server[s].store = "redis" /\ Reaches(s)
            IN  /\ server' = [Answered(s) EXCEPT ![s].revoked = TRUE]
                /\ redis' = IF shares THEN [redis EXCEPT !.revoked = TRUE] ELSE redis
                /\ logout' = IF shares THEN "shared" ELSE "local"
       ELSE server' = Answered(s) /\ UNCHANGED <<redis, logout>>
    /\ UNCHANGED <<scene, deployment, data, tool, token, stale, launches, events, ends>>

CachedArticle(s) == IF server[s].cache = "memory" THEN server[s].entry
             ELSE IF Reaches(s) THEN redis.entry ELSE None

(* A read is answered from the cache, or loads from the database, then fills. *)
Read(s) ==
    /\ server[s].request = "read" /\ server[s].saw = None
    /\ server' = IF CachedArticle(s) = None THEN [server EXCEPT ![s].saw = data] ELSE Answered(s)
    /\ UNCHANGED <<redis, events, ends>> /\ JobLeaves

FillArticle(s) ==
    /\ server[s].request = "read" /\ server[s].saw # None
    /\ server' = IF server[s].cache = "memory" THEN [Answered(s) EXCEPT ![s].entry = server[s].saw]
                 ELSE Answered(s)
    /\ redis' = IF server[s].cache = "redis" /\ Reaches(s) THEN [redis EXCEPT !.entry = server[s].saw]
                ELSE redis
    /\ stale' = (stale \/ (tool = "done" /\ server[s].saw < data))
    /\ UNCHANGED <<scene, deployment, data, tool, token, logout, launches, events, ends>>

---------------------------------------------------------------------------------
(* The shutdown: limiters, guard and cache first, then the listener, then the  *)
(* deferred stops of the workers in the reverse order of their starts.         *)

CloseCache(s) ==
    /\ server[s].step = "serving"
    /\ server' = [server EXCEPT ![s].step = "draining", ![s].closed = (server[s].cache = "redis")]
    /\ ends' = [ends EXCEPT ![s].owed = @ \cup server[s].holds]
    /\ UNCHANGED <<scene, deployment, redis, data, tool, token, logout, stale, launches, events>>

Shutdown(s) ==
    /\ server[s].step = "draining"
    /\ \/ /\ server[s].request = "none"
          /\ server' = [server EXCEPT ![s].step = "backup", ![s].workers = @ \ {"backup"}]
          /\ UNCHANGED ends
       \/ server[s].request # "none" /\ Exits(s, "forced")    \* ten seconds are over
    /\ UNCHANGED <<scene, deployment, redis, data, tool, token, logout, stale, launches, events>>

(* A stop waits for its job, and gives up after a while.                       *)
Waited(s, job, next) ==
    /\ server[s].step = job
    /\ server' = [server EXCEPT ![s].step = next, ![s].workers = @ \ {next}]
    /\ ends' = [ends EXCEPT ![s].late = @ \cup ({job} \cap server[s].running)]
    /\ UNCHANGED <<scene, deployment, redis, data, tool, token, logout, stale, launches, events>>

StopBackups(s)  == Waited(s, "backup", "deliver")
StopWebhooks(s) == Waited(s, "deliver", "publish")

(* The publisher's stop does not wait: a sweep under way is cut by the exit.   *)
StopPublisher(s) ==
    /\ server[s].step = "publish" /\ Exits(s, "graceful")
    /\ UNCHANGED <<scene, deployment, redis, data, tool, token, logout, stale, launches, events>>

---------------------------------------------------------------------------------
(* The surroundings.                                                          *)

Die(s) ==
    /\ Alive(s) /\ Event /\ Exits(s, "died")
    /\ UNCHANGED <<scene, deployment, redis, data, tool, token, logout, stale, launches>>

Outage ==
    /\ \/ redis.up /\ Event
       \/ ~redis.up /\ UNCHANGED events
    /\ redis' = [redis EXCEPT !.up = ~@]
    /\ UNCHANGED <<scene, deployment, server, data, tool, token, logout, stale, launches, ends>>

(* The lock of a job that no longer runs expires.                              *)
LockLapses(j) ==
    /\ redis.locks[j] # Nobody /\ j \notin server[redis.locks[j]].holds
    /\ redis' = [redis EXCEPT !.locks[j] = Nobody]
    /\ UNCHANGED <<scene, deployment, server, data, tool, token, logout, stale, launches, events, ends>>

(* The restore from the command line; its own cache is of no use to others if  *)
(* it is the memory of the tool.                                              *)
Restore ==
    /\ scene = "reads" /\ tool = "idle" /\ Event
    /\ data' = data + 1 /\ tool' = "restored"
    /\ UNCHANGED <<scene, deployment, server, redis, token, logout, stale, launches, ends>>

ConnectCache ==
    /\ tool = "restored" /\ tool' = IF redis.up THEN "connected" ELSE "failed"
    /\ UNCHANGED <<scene, deployment, server, redis, data, token, logout, stale, launches, events, ends>>

InvalidateRestoredDataCache ==
    /\ tool = "connected" /\ tool' = IF redis.up THEN "done" ELSE "failed"
    /\ redis' = IF redis.up THEN [redis EXCEPT !.entry = None] ELSE redis
    /\ UNCHANGED <<scene, deployment, server, data, token, logout, stale, launches, events, ends>>

LifeNext ==
    \/ \E s \in Servers :
        \/ Launch(s) \/ newCacheDriver(s) \/ initTokenStore(s) \/ Serve(s)
        \/ \E j \in Jobs : StartJob(s, j) \/ FinishJob(s, j)
        \/ \E kind \in {"login", "logout", "read"} : Accept(s, kind)
        \/ Login(s) \/ Logout(s) \/ Read(s) \/ FillArticle(s)
        \/ CloseCache(s) \/ Shutdown(s) \/ StopBackups(s) \/ StopWebhooks(s) \/ StopPublisher(s)
        \/ Die(s)
    \/ Outage \/ \E j \in LockedJobs : LockLapses(j)
    \/ Restore \/ ConnectCache \/ InvalidateRestoredDataCache

---------------------------------------------------------------------------------
(* A graceful exit cuts no request, no delivery and no backup it has not       *)
(* waited for in vain; the sweep is the only job it may cut otherwise.          *)
GracefulExitsFinish ==
    \A s \in Servers : ends[s].how = "graceful" =>
        ~ends[s].unanswered /\ ends[s].cut \subseteq {"publish"} \cup ends[s].late

(* Two servers run one job only if one of them fell back to its own memory.     *)
OneServerRunsAJob ==
    \A s, t \in Servers, j \in LockedJobs :
        s # t /\ j \in server[s].running \cap server[t].running =>
            "memory" \in {server[s].cache, server[t].cache}

(* A server that ends gracefully leaves a lock behind only for a job that was   *)
(* at work when the shutdown closed its client, or whose release Redis missed.  *)
LocksAreLeftByOrder ==
    \A s \in Servers, j \in LockedJobs :
        ends[s].how = "graceful" /\ ~Alive(s) /\ redis.locks[j] = s => j \in ends[s].owed

(* A logout that is recorded in Redis holds on every server that uses it, also  *)
(* after restarts and after a restore; a restore leaves revocations alone.      *)
LogoutReachesAll ==
    logout = "shared" => \A s \in Servers :
        server[s].store = "redis" /\ Reaches(s) => ~Allowed(s)

(* After a restore that ended well Redis holds only the restored articles, but  *)
(* for what a read of the old database filled in later; the memory of a server  *)
(* that started since never holds others.                                      *)
RestoredIsRead ==
    /\ tool = "done" /\ redis.entry # None => redis.entry = data \/ stale
    /\ \A s \in Servers : server[s].entry # None => server[s].entry >= server[s].born

(* Servers that take requests were configured for it, and servers of one        *)
(* secret take each other's tokens.                                            *)
ServedIsConfigured ==
    \A s \in Servers : Alive(s) =>
        /\ Validate(deployment) /\ HasSecret(deployment)
        /\ deployment.mode = "release" => server[s].key = 0 /\ (token # None => token = server[s].key)

LifeHolds ==
    /\ GracefulExitsFinish /\ OneServerRunsAJob /\ LocksAreLeftByOrder
    /\ LogoutReachesAll /\ RestoredIsRead /\ ServedIsConfigured
=================================================================================
