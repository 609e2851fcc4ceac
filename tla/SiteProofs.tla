------------------------------- MODULE SiteProofs --------------------------------
(***************************************************************************)
(* Proofs about the start of the system and the life of its servers: what    *)
(* the run of MCSite checks of ServerLifecycle and of Bootstrap, for any      *)
(* finite set of servers, any set of processes and any number of launches,    *)
(* events, deaths and rollbacks.                                             *)
(*                                                                         *)
(* LifeInv is inductive for the servers, BootInv for migrations and seeding.  *)
(***************************************************************************)
EXTENDS MCSite, FiniteSetTheorems, TLAPS

(***************************************************************************)
(* The life of the servers.                                                *)
(***************************************************************************)
(* Before the workers start, and once the shutdown has begun.                 *)
EarlySteps == {"down", "prepared", "cached", "stored"}
LateSteps  == {"draining", "backup", "deliver", "publish"}

ServerStates ==
    [step : EarlySteps \cup LateSteps \cup {"serving"},
     cache : {"none", "redis", "memory"}, store : {"none", "redis", "memory"},
     closed : BOOLEAN, key : Int, workers : SUBSET Jobs, running : SUBSET Jobs,
     holds : SUBSET LockedJobs, request : {"none", "login", "logout", "read"},
     saw : -1 .. 1, revoked : BOOLEAN, entry : -1 .. 1, born : 0 .. 1]

EndStates ==
    [how : {"none", "refused", "died", "forced", "graceful"}, owed : SUBSET LockedJobs,
     late : SUBSET Jobs, cut : SUBSET Jobs, unanswered : BOOLEAN]

RedisStates ==
    [up : BOOLEAN, locks : [LockedJobs -> Servers \cup {Nobody}], revoked : BOOLEAN, entry : -1 .. 1]

LifeTypes ==
    /\ scene \in Scenes /\ deployment \in Deployments /\ data \in 0 .. 1
    /\ server \in [Servers -> ServerStates] /\ ends \in [Servers -> EndStates]
    /\ redis \in RedisStates
    /\ tool \in {"idle", "restored", "connected", "done", "failed"}
    /\ token \in Int /\ logout \in {"none", "shared", "local"} /\ stale \in BOOLEAN
    /\ launches \in 0 .. MaxLaunches /\ events \in 0 .. MaxEvents

(* What a server has at each step of its life.                                 *)
StageOf(s) ==
    /\ server[s].step = "down" => server[s] = DownServer
    /\ server[s].step # "down" => ends[s].how = "none"
    /\ server[s].step \in EarlySteps =>
          server[s].workers = {} /\ server[s].running = {} /\ server[s].request = "none"
    /\ server[s].step \notin {"down", "prepared"} => server[s].cache \in {"redis", "memory"}
    /\ server[s].closed <=> (server[s].step \in LateSteps /\ server[s].cache = "redis")
    /\ server[s].step \in {"backup", "deliver", "publish"} =>
          server[s].request = "none" /\ "backup" \notin server[s].workers
    /\ server[s].step \in {"deliver", "publish"} =>
          /\ "deliver" \notin server[s].workers
          /\ "backup" \in server[s].running => "backup" \in ends[s].late
    /\ server[s].step = "publish" /\ "deliver" \in server[s].running => "deliver" \in ends[s].late

FinishOf(s) ==
    ends[s].how = "graceful" =>
        ~ends[s].unanswered /\ ends[s].cut \subseteq {"publish"} \cup ends[s].late

(* A lock that is held is in Redis; one that is there is held, or owed.        *)
LockOf(s, j) ==
    /\ j \in server[s].holds =>
          redis.locks[j] = s /\ j \in server[s].running /\ server[s].cache = "redis"
    /\ j \in server[s].running /\ server[s].cache = "redis" => j \in server[s].holds
    /\ redis.locks[j] = s /\ (server[s].step # "down" \/ ends[s].how = "graceful") =>
          j \in ends[s].owed \/ (j \in server[s].holds /\ server[s].step = "serving")

(* What is read or cached is of the database as it was since the server began.  *)
ReadOf(s) ==
    /\ server[s].born <= data
    /\ server[s].saw # None => server[s].born <= server[s].saw /\ server[s].saw <= data
    /\ server[s].entry # None => server[s].born <= server[s].entry /\ server[s].entry <= data

ReadsInv ==
    /\ \A s \in Servers : ReadOf(s)
    /\ (tool = "idle") <=> (data = 0)
    /\ redis.entry <= data
    /\ tool = "done" /\ redis.entry # None => redis.entry = data \/ stale

TokensInv ==
    /\ logout = "shared" => redis.revoked
    /\ deployment.mode = "release" => token \in {None, 0}
    /\ \A s \in Servers : server[s].step # "down" =>
          /\ Validate(deployment) /\ HasSecret(deployment)
          /\ deployment.mode = "release" => server[s].key = 0

LifeInv ==
    /\ LifeTypes
    /\ \A s \in Servers : StageOf(s) /\ FinishOf(s)
    /\ \A s \in Servers, j \in LockedJobs : LockOf(s, j)
    /\ ReadsInv /\ TokensInv

LEMMA NoneType == None \in -1 .. 1
<1>1. -1 \in -1 .. 1
  BY SMT
<1>. QED  BY <1>1 DEF None

(* A process that ends leaves nothing but what is recorded of its end.        *)
LEMMA ExitKeeps ==
    ASSUME LifeInv, NEW s \in Servers, NEW how \in {"refused", "died", "forced", "graceful"},
           Exits(s, how), how = "graceful" => server[s].step = "publish",
           UNCHANGED <<scene, deployment, redis, data, tool, token, logout, stale>>,
           launches' \in 0 .. MaxLaunches, events' \in 0 .. MaxEvents
    PROVE  LifeInv'
<1>. DEFINE Ending == [ends[s] EXCEPT !.how = how, !.cut = server[s].running,
                                   !.unanswered = (server[s].request # "none")]
<1>1. server' = [server EXCEPT ![s] = DownServer] /\ ends' = [ends EXCEPT ![s] = Ending]
  BY DEF Exits
<1>2. server \in [Servers -> ServerStates] /\ ends \in [Servers -> EndStates]
      /\ server[s] \in ServerStates /\ ends[s] \in EndStates
  BY DEF LifeInv, LifeTypes
<1>3. Ending \in EndStates
  BY <1>2 DEF EndStates, ServerStates
<1>4. Ending.how = how /\ Ending.cut = server[s].running /\ Ending.owed = ends[s].owed
      /\ Ending.late = ends[s].late /\ Ending.unanswered = (server[s].request # "none")
  BY <1>2 DEF EndStates
<1>5. DownServer \in ServerStates
  BY NoneType DEF DownServer, ServerStates, EarlySteps, None
<1>. HIDE DEF Ending
<1>6. \A t \in Servers : server'[t] = (IF t = s THEN DownServer ELSE server[t])
                         /\ ends'[t] = (IF t = s THEN Ending ELSE ends[t])
  BY <1>1, <1>2
<1>7. LifeTypes'
  BY <1>1, <1>2, <1>3, <1>5 DEF LifeInv, LifeTypes
<1>8. ASSUME NEW t \in Servers PROVE StageOf(t)' /\ FinishOf(t)'
  <2>1. CASE t = s
    <3>1. StageOf(t)'
      <4>1. /\ DownServer.step = "down" /\ DownServer.closed = FALSE /\ DownServer.workers = {}
            /\ DownServer.running = {} /\ DownServer.request = "none"
        BY DEF DownServer
      <4>2. server'[t] = DownServer
        BY <2>1, <1>6
      <4>. QED  BY <4>1, <4>2 DEF StageOf, EarlySteps, LateSteps
    <3>2. FinishOf(t)'
      <4>1. ends'[t] = Ending
        BY <2>1, <1>6
      <4>2. how = "graceful" => server[s].request = "none" /\ server[s].running \subseteq {"publish"} \cup ends[s].late
        <5>1. StageOf(s) /\ server[s].running \subseteq Jobs
          BY <1>2 DEF LifeInv, ServerStates
        <5>. QED  BY <5>1 DEF StageOf, Jobs
      <4>. QED  BY <1>4, <4>1, <4>2 DEF FinishOf
    <3>. QED  BY <3>1, <3>2
  <2>2. CASE t # s
    BY <2>2, <1>6 DEF LifeInv, StageOf, FinishOf
  <2>. QED  BY <2>1, <2>2
<1>9. ASSUME NEW t \in Servers, NEW j \in LockedJobs PROVE LockOf(t, j)'
  <2>1. CASE t = s
    BY <2>1, <1>4, <1>6 DEF LockOf, DownServer, LifeInv
  <2>2. CASE t # s
    BY <2>2, <1>6 DEF LifeInv, LockOf
  <2>. QED  BY <2>1, <2>2
<1>10. ReadsInv'
  BY <1>6 DEF LifeInv, LifeTypes, ReadsInv, ReadOf, DownServer, None
<1>11. TokensInv'
  BY <1>6 DEF LifeInv, TokensInv, DownServer
<1>. QED  BY <1>7, <1>8, <1>9, <1>10, <1>11 DEF LifeInv

LEMMA LaunchKeeps ==
    ASSUME LifeInv, NEW s \in Servers, Launch(s)
    PROVE  LifeInv'
<1>1. launches' \in 0 .. MaxLaunches /\ events' \in 0 .. MaxEvents
  BY LifecycleBounds DEF LifeInv, LifeTypes, Launch
<1>2. CASE Exits(s, "refused")
  BY <1>1, <1>2, ExitKeeps DEF Launch
<1>3. CASE ~Exits(s, "refused")
  <2>. DEFINE Launched == [DownServer EXCEPT !.step = "prepared", !.born = data,
                                        !.key = KeyOf(deployment, launches + 1)]
              Owing == [NoEnd EXCEPT !.owed = {j \in LockedJobs : redis.locks[j] = s}]
  <2>1. /\ HasSecret(deployment) /\ Validate(deployment)
        /\ server' = [server EXCEPT ![s] = Launched] /\ ends' = [ends EXCEPT ![s] = Owing]
        /\ UNCHANGED <<scene, deployment, redis, data, tool, token, logout, stale, events>>
    BY <1>3 DEF Launch
  <2>2. server \in [Servers -> ServerStates] /\ ends \in [Servers -> EndStates]
        /\ data \in 0 .. 1 /\ KeyOf(deployment, launches + 1) \in Int
    BY DEF LifeInv, LifeTypes, KeyOf
  <2>3. DownServer \in ServerStates /\ NoEnd \in EndStates
    BY NoneType DEF DownServer, NoEnd, ServerStates, EndStates, EarlySteps, None
  <2>4. /\ Launched.step = "prepared" /\ Launched.closed = FALSE /\ Launched.workers = {} /\ Launched.running = {}
        /\ Launched.holds = {} /\ Launched.request = "none" /\ Launched.saw = None /\ Launched.entry = None
        /\ Launched.born = data /\ Launched.key = KeyOf(deployment, launches + 1)
        /\ Owing.how = "none" /\ Owing.owed = {j \in LockedJobs : redis.locks[j] = s}
    <3>1. /\ DownServer.closed = FALSE /\ DownServer.workers = {} /\ DownServer.running = {}
          /\ DownServer.holds = {} /\ DownServer.request = "none" /\ DownServer.saw = None
          /\ DownServer.entry = None /\ NoEnd.how = "none"
      BY DEF DownServer, NoEnd
    <3>. QED  BY <2>3, <3>1 DEF ServerStates, EndStates
  <2>5. Launched \in ServerStates /\ Owing \in EndStates
    BY <2>2, <2>3 DEF ServerStates, EndStates, EarlySteps
  <2>. HIDE DEF Launched, Owing
  <2>6. \A t \in Servers : server'[t] = (IF t = s THEN Launched ELSE server[t])
                           /\ ends'[t] = (IF t = s THEN Owing ELSE ends[t])
    BY <2>1, <2>2
  <2>7. LifeTypes'
    BY <1>1, <2>1, <2>2, <2>5 DEF LifeInv, LifeTypes
  <2>8. ASSUME NEW t \in Servers PROVE StageOf(t)' /\ FinishOf(t)'
    <3>1. CASE t = s
      BY <3>1, <2>4, <2>6 DEF StageOf, FinishOf, EarlySteps, LateSteps
    <3>2. CASE t # s
      BY <3>2, <2>6 DEF LifeInv, StageOf, FinishOf
    <3>. QED  BY <3>1, <3>2
  <2>9. ASSUME NEW t \in Servers, NEW j \in LockedJobs PROVE LockOf(t, j)'
    <3>1. CASE t = s
      BY <3>1, <2>1, <2>4, <2>6 DEF LockOf
    <3>2. CASE t # s
      BY <3>2, <2>1, <2>6 DEF LifeInv, LockOf
    <3>. QED  BY <3>1, <3>2
  <2>10. ReadsInv'
    BY <2>1, <2>2, <2>4, <2>6 DEF LifeInv, LifeTypes, ReadsInv, ReadOf, None
  <2>11. TokensInv'
    BY <2>1, <2>4, <2>6 DEF LifeInv, TokensInv, KeyOf, HasSecret
  <2>. QED  BY <2>7, <2>8, <2>9, <2>10, <2>11 DEF LifeInv
<1>. QED  BY <1>2, <1>3

LEMMA ShutdownKeeps ==
    ASSUME LifeInv, NEW s \in Servers, Shutdown(s)
    PROVE  LifeInv'
<1>1. launches' \in 0 .. MaxLaunches /\ events' \in 0 .. MaxEvents
  BY DEF LifeInv, LifeTypes, Shutdown
<1>2. CASE Exits(s, "forced")
  BY <1>1, <1>2, ExitKeeps DEF Shutdown
<1>3. CASE ~Exits(s, "forced")
  <2>. DEFINE Launched == [server[s] EXCEPT !.step = "backup", !.workers = @ \ {"backup"}]
  <2>1. /\ server[s].step = "draining" /\ server[s].request = "none"
        /\ server' = [server EXCEPT ![s] = Launched]
        /\ UNCHANGED <<scene, deployment, redis, data, tool, token, logout, stale, launches, events, ends>>
    BY <1>3 DEF Shutdown
  <2>2. server \in [Servers -> ServerStates] /\ server[s] \in ServerStates
    BY DEF LifeInv, LifeTypes
  <2>3. Launched \in ServerStates
    BY <2>2 DEF ServerStates, LateSteps
  <2>4. LifeTypes'
    BY <2>1, <2>2, <2>3 DEF LifeInv, LifeTypes
  <2>5. ASSUME NEW t \in Servers PROVE StageOf(t)' /\ FinishOf(t)'
    BY <2>1, <2>2 DEF LifeInv, StageOf, FinishOf, EarlySteps, LateSteps, ServerStates
  <2>6. ASSUME NEW t \in Servers, NEW j \in LockedJobs PROVE LockOf(t, j)'
    BY <2>1, <2>2 DEF LifeInv, LockOf, ServerStates
  <2>7. ReadsInv'
    BY <2>1, <2>2 DEF LifeInv, ReadsInv, ReadOf, ServerStates
  <2>8. TokensInv'
    BY <2>1, <2>2 DEF LifeInv, TokensInv, ServerStates
  <2>. QED  BY <2>4, <2>5, <2>6, <2>7, <2>8 DEF LifeInv
<1>. QED  BY <1>2, <1>3

LEMMA StopPublisherKeeps ==
    ASSUME LifeInv, NEW s \in Servers, StopPublisher(s)
    PROVE  LifeInv'
<1>1. launches' \in 0 .. MaxLaunches /\ events' \in 0 .. MaxEvents
  BY DEF LifeInv, LifeTypes, StopPublisher
<1>. QED  BY <1>1, ExitKeeps DEF StopPublisher

LEMMA DieKeeps ==
    ASSUME LifeInv, NEW s \in Servers, Die(s)
    PROVE  LifeInv'
<1>1. launches' \in 0 .. MaxLaunches /\ events' \in 0 .. MaxEvents
  BY LifecycleBounds DEF LifeInv, LifeTypes, Die, Event
<1>. QED  BY <1>1, ExitKeeps DEF Die

LEMMA NewCacheDriverKeeps ==
    ASSUME LifeInv, NEW s \in Servers, newCacheDriver(s)
    PROVE  LifeInv'
<1>1. LifeTypes'
  <2>1. server' \in [Servers -> ServerStates]
    <3>1. server \in [Servers -> ServerStates] /\ server[s] \in ServerStates
      BY DEF LifeInv, LifeTypes
    <3>2. [server[s] EXCEPT !.step = "cached", !.cache = IF redis.up THEN "redis" ELSE "memory"] \in ServerStates
      BY <3>1, NoneType DEF ServerStates, EarlySteps, LateSteps, Jobs, LockedJobs
    <3>3. server' = [server EXCEPT ![s] = [server[s] EXCEPT !.step = "cached", !.cache = IF redis.up THEN "redis" ELSE "memory"]]
      BY DEF newCacheDriver, Boots
    <3>. QED  BY <3>1, <3>2, <3>3
  <2>2. ends' \in [Servers -> EndStates]
    BY DEF LifeInv, LifeTypes, newCacheDriver, Boots
  <2>3. redis' \in RedisStates
    BY DEF LifeInv, LifeTypes, newCacheDriver, Boots
  <2>. QED  BY <2>1, <2>2, <2>3, LifecycleBounds DEF LifeInv, LifeTypes, newCacheDriver, Boots, ReadsInv
<1>2. ASSUME NEW t \in Servers PROVE StageOf(t)' /\ FinishOf(t)'
  BY DEF LifeInv, StageOf, FinishOf, LifeTypes, ServerStates, EndStates, RedisStates, EarlySteps, LateSteps, Jobs, LockedJobs, None, Nobody, newCacheDriver, Boots
<1>3. ASSUME NEW t \in Servers, NEW j \in LockedJobs PROVE LockOf(t, j)'
  BY LifecycleBounds DEF LifeInv, StageOf, LockOf, LifeTypes, ServerStates, EndStates, RedisStates, EarlySteps, LateSteps, Jobs, LockedJobs, None, Nobody, newCacheDriver, Boots
<1>4. ReadsInv'
  BY DEF LifeInv, ReadsInv, ReadOf, StageOf, LifeTypes, ServerStates, EndStates, RedisStates, EarlySteps, LateSteps, Jobs, LockedJobs, None, Nobody, newCacheDriver, Boots
<1>5. TokensInv'
  BY DEF LifeInv, TokensInv, StageOf, LifeTypes, ServerStates, EndStates, RedisStates, EarlySteps, LateSteps, Jobs, LockedJobs, None, Nobody, newCacheDriver, Boots
<1>. QED  BY <1>1, <1>2, <1>3, <1>4, <1>5 DEF LifeInv

LEMMA InitTokenStoreKeeps ==
    ASSUME LifeInv, NEW s \in Servers, initTokenStore(s)
    PROVE  LifeInv'
<1>1. LifeTypes'
  <2>1. server' \in [Servers -> ServerStates]
    <3>1. server \in [Servers -> ServerStates] /\ server[s] \in ServerStates
      BY DEF LifeInv, LifeTypes
    <3>2. [server[s] EXCEPT !.step = "stored", !.store = IF server[s].cache = "redis" /\ redis.up THEN "redis" ELSE "memory"] \in ServerStates
      BY <3>1, NoneType DEF ServerStates, EarlySteps, LateSteps, Jobs, LockedJobs
    <3>3. server' = [server EXCEPT ![s] = [server[s] EXCEPT !.step = "stored", !.store = IF server[s].cache = "redis" /\ redis.up THEN "redis" ELSE "memory"]]
      BY DEF initTokenStore, Boots, Shared
    <3>. QED  BY <3>1, <3>2, <3>3
  <2>2. ends' \in [Servers -> EndStates]
    BY DEF LifeInv, LifeTypes, initTokenStore, Boots, Shared
  <2>3. redis' \in RedisStates
    BY DEF LifeInv, LifeTypes, initTokenStore, Boots, Shared
  <2>. QED  BY <2>1, <2>2, <2>3, LifecycleBounds DEF LifeInv, LifeTypes, initTokenStore, Boots, Shared, ReadsInv
<1>2. ASSUME NEW t \in Servers PROVE StageOf(t)' /\ FinishOf(t)'
  BY DEF LifeInv, StageOf, FinishOf, LifeTypes, ServerStates, EndStates, RedisStates, EarlySteps, LateSteps, Jobs, LockedJobs, None, Nobody, initTokenStore, Boots, Shared
<1>3. ASSUME NEW t \in Servers, NEW j \in LockedJobs PROVE LockOf(t, j)'
  BY LifecycleBounds DEF LifeInv, StageOf, LockOf, LifeTypes, ServerStates, EndStates, RedisStates, EarlySteps, LateSteps, Jobs, LockedJobs, None, Nobody, initTokenStore, Boots, Shared
<1>4. ReadsInv'
  BY DEF LifeInv, ReadsInv, ReadOf, StageOf, LifeTypes, ServerStates, EndStates, RedisStates, EarlySteps, LateSteps, Jobs, LockedJobs, None, Nobody, initTokenStore, Boots, Shared
<1>5. TokensInv'
  BY DEF LifeInv, TokensInv, StageOf, LifeTypes, ServerStates, EndStates, RedisStates, EarlySteps, LateSteps, Jobs, LockedJobs, None, Nobody, initTokenStore, Boots, Shared
<1>. QED  BY <1>1, <1>2, <1>3, <1>4, <1>5 DEF LifeInv

LEMMA ServeKeeps ==
    ASSUME LifeInv, NEW s \in Servers, Serve(s)
    PROVE  LifeInv'
<1>1. LifeTypes'
  <2>1. server' \in [Servers -> ServerStates]
    <3>1. PICK w \in {Jobs, Jobs \ {"backup"}} : server' = [server EXCEPT ![s].step = "serving", ![s].workers = w]
      BY DEF Serve, Boots
    <3>2. server' = [server EXCEPT ![s] = [server[s] EXCEPT !.step = "serving", !.workers = w]]
      BY <3>1
    <3>3. server[s] \in ServerStates /\ w \in SUBSET Jobs
      BY DEF LifeInv, LifeTypes
    <3>4. [server[s] EXCEPT !.step = "serving", !.workers = w] \in ServerStates
      BY <3>3 DEF ServerStates
    <3>. QED  BY <3>2, <3>4 DEF LifeInv, LifeTypes
  <2>2. ends' \in [Servers -> EndStates]
    BY DEF LifeInv, LifeTypes, Serve, Boots
  <2>3. redis' \in RedisStates
    BY DEF LifeInv, LifeTypes, Serve, Boots
  <2>. QED  BY <2>1, <2>2, <2>3, LifecycleBounds DEF LifeInv, LifeTypes, Serve, Boots, ReadsInv
<1>2. ASSUME NEW t \in Servers PROVE StageOf(t)' /\ FinishOf(t)'
  BY DEF LifeInv, StageOf, FinishOf, LifeTypes, ServerStates, EndStates, RedisStates, EarlySteps, LateSteps, Jobs, LockedJobs, None, Nobody, Serve, Boots
<1>3. ASSUME NEW t \in Servers, NEW j \in LockedJobs PROVE LockOf(t, j)'
  BY LifecycleBounds DEF LifeInv, StageOf, LockOf, LifeTypes, ServerStates, EndStates, RedisStates, EarlySteps, LateSteps, Jobs, LockedJobs, None, Nobody, Serve, Boots
<1>4. ReadsInv'
  BY DEF LifeInv, ReadsInv, ReadOf, StageOf, LifeTypes, ServerStates, EndStates, RedisStates, EarlySteps, LateSteps, Jobs, LockedJobs, None, Nobody, Serve, Boots
<1>5. TokensInv'
  BY DEF LifeInv, TokensInv, StageOf, LifeTypes, ServerStates, EndStates, RedisStates, EarlySteps, LateSteps, Jobs, LockedJobs, None, Nobody, Serve, Boots
<1>. QED  BY <1>1, <1>2, <1>3, <1>4, <1>5 DEF LifeInv

LEMMA StartJobKeeps ==
    ASSUME LifeInv, NEW s \in Servers, NEW i \in Jobs, StartJob(s, i)
    PROVE  LifeInv'
<1>1. LifeTypes'
  <2>1. server' \in [Servers -> ServerStates]
    <3>1. server \in [Servers -> ServerStates] /\ server[s] \in ServerStates /\ i \in Jobs
      BY DEF LifeInv, LifeTypes
    <3>2. server[s].running \cup {i} \in SUBSET Jobs
      BY <3>1 DEF ServerStates
    <3>3. [server[s] EXCEPT !.running = server[s].running \cup {i}] \in ServerStates
      BY <3>1, <3>2 DEF ServerStates
    <3>4. CASE i \in LockedJobs /\ server[s].cache = "redis"
      <4>1. server[s].holds \cup {i} \in SUBSET LockedJobs
        BY <3>1, <3>4 DEF ServerStates
      <4>2. [server[s] EXCEPT !.running = server[s].running \cup {i},
                              !.holds = server[s].holds \cup {i}] \in ServerStates
        BY <3>1, <3>2, <4>1 DEF ServerStates
      <4>3. server' = [server EXCEPT ![s] = [server[s] EXCEPT !.running = server[s].running \cup {i},
                                                              !.holds = server[s].holds \cup {i}]]
        BY <3>1, <3>4 DEF StartJob
      <4>. QED  BY <3>1, <4>2, <4>3
    <3>5. CASE ~(i \in LockedJobs /\ server[s].cache = "redis")
      <4>1. server' = [server EXCEPT ![s] = [server[s] EXCEPT !.running = server[s].running \cup {i}]]
        BY <3>1, <3>5 DEF StartJob
      <4>. QED  BY <3>1, <3>3, <4>1
    <3>. QED  BY <3>4, <3>5
  <2>2. ends' \in [Servers -> EndStates]
    BY DEF LifeInv, LifeTypes, StartJob, JobLeaves, Event, Alive, Reaches
  <2>3. redis' \in RedisStates
    BY DEF LifeInv, LifeTypes, ServerStates, EndStates, RedisStates, EarlySteps, LateSteps, Jobs, LockedJobs, None, Nobody, StartJob, JobLeaves, Event, Alive, Reaches
  <2>. QED  BY <2>1, <2>2, <2>3, LifecycleBounds DEF LifeInv, LifeTypes, StartJob, JobLeaves, Event, Alive, Reaches, ReadsInv
<1>2. ASSUME NEW t \in Servers PROVE StageOf(t)' /\ FinishOf(t)'
  BY DEF LifeInv, StageOf, FinishOf, LifeTypes, ServerStates, EndStates, RedisStates, EarlySteps, LateSteps, Jobs, LockedJobs, None, Nobody, StartJob, JobLeaves, Event, Alive, Reaches
<1>3. ASSUME NEW t \in Servers, NEW j \in LockedJobs PROVE LockOf(t, j)'
  BY LifecycleBounds DEF LifeInv, StageOf, LockOf, LifeTypes, ServerStates, EndStates, RedisStates, EarlySteps, LateSteps, Jobs, LockedJobs, None, Nobody, StartJob, JobLeaves, Event, Alive, Reaches
<1>4. ReadsInv'
  <2>1. ASSUME NEW t \in Servers
        PROVE  /\ server'[t].born = server[t].born /\ server'[t].saw = server[t].saw
               /\ server'[t].entry = server[t].entry
    BY DEF LifeInv, LifeTypes, ServerStates, StartJob
  <2>2. redis'.entry = redis.entry
    BY DEF LifeInv, LifeTypes, RedisStates, StartJob
  <2>. QED  BY <2>1, <2>2 DEF LifeInv, ReadsInv, ReadOf, StartJob, JobLeaves
<1>5. TokensInv'
  BY DEF LifeInv, TokensInv, StageOf, LifeTypes, ServerStates, EndStates, RedisStates, EarlySteps, LateSteps, Jobs, LockedJobs, None, Nobody, StartJob, JobLeaves, Event, Alive, Reaches
<1>. QED  BY <1>1, <1>2, <1>3, <1>4, <1>5 DEF LifeInv

LEMMA FinishJobKeeps ==
    ASSUME LifeInv, NEW s \in Servers, NEW i \in Jobs, FinishJob(s, i)
    PROVE  LifeInv'
<1>1. LifeTypes'
  <2>1. server' \in [Servers -> ServerStates]
    <3>1. server \in [Servers -> ServerStates] /\ server[s] \in ServerStates
      BY DEF LifeInv, LifeTypes
    <3>2. [server[s] EXCEPT !.running = @ \ {i}, !.holds = @ \ {i}] \in ServerStates
      BY <3>1, NoneType DEF ServerStates, EarlySteps, LateSteps, Jobs, LockedJobs
    <3>3. server' = [server EXCEPT ![s] = [server[s] EXCEPT !.running = @ \ {i}, !.holds = @ \ {i}]]
      BY DEF FinishJob, JobLeaves, Reaches
    <3>. QED  BY <3>1, <3>2, <3>3
  <2>2. ends' \in [Servers -> EndStates]
    <3>1. ends \in [Servers -> EndStates] /\ ends[s] \in EndStates /\ server[s] \in ServerStates
      BY DEF LifeInv, LifeTypes
    <3>2. [ends[s] EXCEPT !.owed = @ \cup ({i} \cap IF redis.up THEN {} ELSE server[s].holds)] \in EndStates
      BY <3>1 DEF ServerStates, EndStates, Jobs, LockedJobs
    <3>3. ends' = [ends EXCEPT ![s] = [ends[s] EXCEPT !.owed = @ \cup ({i} \cap IF redis.up THEN {} ELSE server[s].holds)]]
      BY DEF FinishJob, JobLeaves, Reaches
    <3>. QED  BY <3>1, <3>2, <3>3
  <2>3. redis' \in RedisStates
    BY DEF LifeInv, LifeTypes, ServerStates, EndStates, RedisStates, EarlySteps, LateSteps, Jobs, LockedJobs, None, Nobody, FinishJob, JobLeaves, Reaches
  <2>. QED  BY <2>1, <2>2, <2>3, LifecycleBounds DEF LifeInv, LifeTypes, FinishJob, JobLeaves, Reaches, ReadsInv
<1>2. ASSUME NEW t \in Servers PROVE StageOf(t)' /\ FinishOf(t)'
  BY DEF LifeInv, StageOf, FinishOf, LifeTypes, ServerStates, EndStates, RedisStates, EarlySteps, LateSteps, Jobs, LockedJobs, None, Nobody, FinishJob, JobLeaves, Reaches
<1>3. ASSUME NEW t \in Servers, NEW j \in LockedJobs PROVE LockOf(t, j)'
  BY LifecycleBounds DEF LifeInv, StageOf, LockOf, LifeTypes, ServerStates, EndStates, RedisStates, EarlySteps, LateSteps, Jobs, LockedJobs, None, Nobody, FinishJob, JobLeaves, Reaches
<1>4. ReadsInv'
  BY DEF LifeInv, ReadsInv, ReadOf, StageOf, LifeTypes, ServerStates, EndStates, RedisStates, EarlySteps, LateSteps, Jobs, LockedJobs, None, Nobody, FinishJob, JobLeaves, Reaches
<1>5. TokensInv'
  BY DEF LifeInv, TokensInv, StageOf, LifeTypes, ServerStates, EndStates, RedisStates, EarlySteps, LateSteps, Jobs, LockedJobs, None, Nobody, FinishJob, JobLeaves, Reaches
<1>. QED  BY <1>1, <1>2, <1>3, <1>4, <1>5 DEF LifeInv

LEMMA AcceptKeeps ==
    ASSUME LifeInv, NEW s \in Servers, NEW kind \in {"login", "logout", "read"}, Accept(s, kind)
    PROVE  LifeInv'
<1>1. LifeTypes'
  <2>1. server' \in [Servers -> ServerStates]
    <3>1. server \in [Servers -> ServerStates] /\ server[s] \in ServerStates
      BY DEF LifeInv, LifeTypes
    <3>2. [server[s] EXCEPT !.request = kind] \in ServerStates
      BY <3>1, NoneType DEF ServerStates, EarlySteps, LateSteps, Jobs, LockedJobs
    <3>3. server' = [server EXCEPT ![s] = [server[s] EXCEPT !.request = kind]]
      BY DEF Accept, JobLeaves, Event
    <3>. QED  BY <3>1, <3>2, <3>3
  <2>2. ends' \in [Servers -> EndStates]
    BY DEF LifeInv, LifeTypes, Accept, JobLeaves, Event
  <2>3. redis' \in RedisStates
    BY DEF LifeInv, LifeTypes, Accept, JobLeaves, Event
  <2>. QED  BY <2>1, <2>2, <2>3, LifecycleBounds DEF LifeInv, LifeTypes, Accept, JobLeaves, Event, ReadsInv
<1>2. ASSUME NEW t \in Servers PROVE StageOf(t)' /\ FinishOf(t)'
  BY DEF LifeInv, StageOf, FinishOf, LifeTypes, ServerStates, EndStates, RedisStates, EarlySteps, LateSteps, Jobs, LockedJobs, None, Nobody, Accept, JobLeaves, Event
<1>3. ASSUME NEW t \in Servers, NEW j \in LockedJobs PROVE LockOf(t, j)'
  BY LifecycleBounds DEF LifeInv, StageOf, LockOf, LifeTypes, ServerStates, EndStates, RedisStates, EarlySteps, LateSteps, Jobs, LockedJobs, None, Nobody, Accept, JobLeaves, Event
<1>4. ReadsInv'
  BY DEF LifeInv, ReadsInv, ReadOf, StageOf, LifeTypes, ServerStates, EndStates, RedisStates, EarlySteps, LateSteps, Jobs, LockedJobs, None, Nobody, Accept, JobLeaves, Event
<1>5. TokensInv'
  BY DEF LifeInv, TokensInv, StageOf, LifeTypes, ServerStates, EndStates, RedisStates, EarlySteps, LateSteps, Jobs, LockedJobs, None, Nobody, Accept, JobLeaves, Event
<1>. QED  BY <1>1, <1>2, <1>3, <1>4, <1>5 DEF LifeInv

LEMMA LoginKeeps ==
    ASSUME LifeInv, NEW s \in Servers, Login(s)
    PROVE  LifeInv'
<1>1. LifeTypes'
  <2>1. server' \in [Servers -> ServerStates]
    <3>1. server \in [Servers -> ServerStates] /\ server[s] \in ServerStates
      BY DEF LifeInv, LifeTypes
    <3>2. [server[s] EXCEPT !.request = "none", !.saw = None] \in ServerStates
      BY <3>1, NoneType DEF ServerStates, EarlySteps, LateSteps, Jobs, LockedJobs
    <3>3. server' = [server EXCEPT ![s] = [server[s] EXCEPT !.request = "none", !.saw = None]]
      BY DEF Login, Answered
    <3>. QED  BY <3>1, <3>2, <3>3
  <2>2. ends' \in [Servers -> EndStates]
    BY DEF LifeInv, LifeTypes, Login, Answered
  <2>3. redis' \in RedisStates
    BY DEF LifeInv, LifeTypes, Login, Answered
  <2>4. token' \in Int
    BY DEF LifeInv, LifeTypes, ServerStates, Login
  <2>. QED  BY <2>1, <2>2, <2>3, <2>4, LifecycleBounds DEF LifeInv, LifeTypes, Login, Answered, ReadsInv
<1>2. ASSUME NEW t \in Servers PROVE StageOf(t)' /\ FinishOf(t)'
  BY DEF LifeInv, StageOf, FinishOf, LifeTypes, ServerStates, EndStates, RedisStates, EarlySteps, LateSteps, Jobs, LockedJobs, None, Nobody, Login, Answered
<1>3. ASSUME NEW t \in Servers, NEW j \in LockedJobs PROVE LockOf(t, j)'
  BY LifecycleBounds DEF LifeInv, StageOf, LockOf, LifeTypes, ServerStates, EndStates, RedisStates, EarlySteps, LateSteps, Jobs, LockedJobs, None, Nobody, Login, Answered
<1>4. ReadsInv'
  BY DEF LifeInv, ReadsInv, ReadOf, StageOf, LifeTypes, ServerStates, EndStates, RedisStates, EarlySteps, LateSteps, Jobs, LockedJobs, None, Nobody, Login, Answered
<1>5. TokensInv'
  BY DEF LifeInv, TokensInv, StageOf, LifeTypes, ServerStates, EndStates, RedisStates, EarlySteps, LateSteps, Jobs, LockedJobs, None, Nobody, Login, Answered
<1>. QED  BY <1>1, <1>2, <1>3, <1>4, <1>5 DEF LifeInv

(* A logout leaves a trace in the memory of its server and, perhaps, in Redis.  *)
LEMMA LogoutKeeps ==
    ASSUME LifeInv, NEW s \in Servers, Logout(s)
    PROVE  LifeInv'
<1>1. server \in [Servers -> ServerStates] /\ server[s] \in ServerStates /\ redis \in RedisStates
  BY DEF LifeInv, LifeTypes
<1>2. PICK q \in ServerStates :
        /\ server' = [server EXCEPT ![s] = q]
        /\ q.step = server[s].step /\ q.cache = server[s].cache /\ q.closed = server[s].closed
        /\ q.key = server[s].key /\ q.workers = server[s].workers /\ q.running = server[s].running
        /\ q.holds = server[s].holds /\ q.born = server[s].born /\ q.entry = server[s].entry
        /\ q.request = "none" /\ q.saw = None
  <2>1. CASE Allowed(s)
    <3>. DEFINE q == [server[s] EXCEPT !.request = "none", !.saw = None, !.revoked = TRUE]
    <3>1. server' = [server EXCEPT ![s] = q]
      BY <2>1 DEF Logout, Answered
    <3>2. q \in ServerStates
      BY <1>1, NoneType DEF ServerStates
    <3>. QED  BY <1>1, <3>1, <3>2 DEF ServerStates
  <2>2. CASE ~Allowed(s)
    <3>. DEFINE q == [server[s] EXCEPT !.request = "none", !.saw = None]
    <3>1. server' = [server EXCEPT ![s] = q]
      BY <2>2 DEF Logout, Answered
    <3>2. q \in ServerStates
      BY <1>1, NoneType DEF ServerStates
    <3>. QED  BY <1>1, <3>1, <3>2 DEF ServerStates
  <2>. QED  BY <2>1, <2>2
<1>3. /\ redis' \in RedisStates /\ redis'.locks = redis.locks /\ redis'.entry = redis.entry
      /\ redis.revoked => redis'.revoked
  <2>1. redis' = redis \/ redis' = [redis EXCEPT !.revoked = TRUE]
    BY DEF Logout
  <2>. QED  BY <1>1, <2>1 DEF RedisStates
<1>4. logout' \in {"none", "shared", "local"} /\ (logout' = "shared" => redis'.revoked \/ logout = "shared")
  BY <1>1 DEF LifeInv, LifeTypes, Logout, RedisStates
<1>5. server[s].request = "logout"
      /\ UNCHANGED <<scene, deployment, data, tool, token, stale, launches, events, ends>>
  BY DEF Logout
<1>6. LifeTypes'
  BY <1>1, <1>2, <1>3, <1>4, <1>5 DEF LifeInv, LifeTypes
<1>7. ASSUME NEW t \in Servers PROVE StageOf(t)' /\ FinishOf(t)'
  <2>1. CASE t # s
    BY <2>1, <1>1, <1>2, <1>5 DEF LifeInv, StageOf, FinishOf
  <2>2. CASE t = s
    <3>1. server'[t] = q /\ server[s].step # "down"
      BY <2>2, <1>1, <1>2, <1>5 DEF LifeInv, StageOf, EarlySteps
    <3>2. StageOf(t)'
      BY <2>2, <3>1, <1>2, <1>5 DEF LifeInv, StageOf
    <3>3. FinishOf(t)'
      BY <1>5 DEF LifeInv, FinishOf
    <3>. QED  BY <3>2, <3>3
  <2>. QED  BY <2>1, <2>2
<1>8. ASSUME NEW t \in Servers, NEW j \in LockedJobs PROVE LockOf(t, j)'
  BY <1>1, <1>2, <1>3, <1>5 DEF LifeInv, LockOf
<1>9. ReadsInv'
  BY <1>1, <1>2, <1>3, <1>5 DEF LifeInv, ReadsInv, ReadOf
<1>10. TokensInv'
  BY <1>1, <1>2, <1>3, <1>4, <1>5 DEF LifeInv, TokensInv
<1>. QED  BY <1>6, <1>7, <1>8, <1>9, <1>10 DEF LifeInv

LEMMA ReadKeeps ==
    ASSUME LifeInv, NEW s \in Servers, Read(s)
    PROVE  LifeInv'
<1>1. LifeTypes'
  <2>1. server' \in [Servers -> ServerStates]
    <3>1. server \in [Servers -> ServerStates] /\ server[s] \in ServerStates /\ data \in 0 .. 1
      BY DEF LifeInv, LifeTypes
    <3>2. [server[s] EXCEPT !.saw = data] \in ServerStates
      BY <3>1, NoneType DEF ServerStates, EarlySteps, LateSteps, Jobs, LockedJobs
    <3>3. [server[s] EXCEPT !.request = "none", !.saw = None] \in ServerStates
      BY <3>1, NoneType DEF ServerStates, EarlySteps, LateSteps, Jobs, LockedJobs
    <3>4. \/ server' = [server EXCEPT ![s] = [server[s] EXCEPT !.saw = data]]
          \/ server' = [server EXCEPT ![s] = [server[s] EXCEPT !.request = "none", !.saw = None]]
      BY DEF Read, Answered, JobLeaves
    <3>. QED  BY <3>1, <3>2, <3>3, <3>4
  <2>2. ends' \in [Servers -> EndStates]
    BY DEF LifeInv, LifeTypes, Read, Answered, JobLeaves
  <2>3. redis' \in RedisStates
    BY DEF LifeInv, LifeTypes, Read, Answered, JobLeaves
  <2>. QED  BY <2>1, <2>2, <2>3, LifecycleBounds DEF LifeInv, LifeTypes, Read, Answered, JobLeaves, ReadsInv
<1>2. ASSUME NEW t \in Servers PROVE StageOf(t)' /\ FinishOf(t)'
  BY DEF LifeInv, StageOf, FinishOf, LifeTypes, ServerStates, EndStates, RedisStates, EarlySteps, LateSteps, Jobs, LockedJobs, None, Nobody, Read, Answered, JobLeaves
<1>3. ASSUME NEW t \in Servers, NEW j \in LockedJobs PROVE LockOf(t, j)'
  BY LifecycleBounds DEF LifeInv, StageOf, LockOf, LifeTypes, ServerStates, EndStates, RedisStates, EarlySteps, LateSteps, Jobs, LockedJobs, None, Nobody, Read, Answered, JobLeaves
<1>4. ReadsInv'
  BY DEF LifeInv, ReadsInv, ReadOf, StageOf, LifeTypes, ServerStates, EndStates, RedisStates, EarlySteps, LateSteps, Jobs, LockedJobs, None, Nobody, Read, Answered, JobLeaves
<1>5. TokensInv'
  BY DEF LifeInv, TokensInv, StageOf, LifeTypes, ServerStates, EndStates, RedisStates, EarlySteps, LateSteps, Jobs, LockedJobs, None, Nobody, Read, Answered, JobLeaves
<1>. QED  BY <1>1, <1>2, <1>3, <1>4, <1>5 DEF LifeInv

LEMMA FillArticleKeeps ==
    ASSUME LifeInv, NEW s \in Servers, FillArticle(s)
    PROVE  LifeInv'
<1>1. LifeTypes'
  <2>1. server' \in [Servers -> ServerStates]
    <3>1. server \in [Servers -> ServerStates] /\ server[s] \in ServerStates
      BY DEF LifeInv, LifeTypes
    <3>2. [server[s] EXCEPT !.request = "none", !.saw = None, !.entry = server[s].saw] \in ServerStates
      BY <3>1, NoneType DEF ServerStates, EarlySteps, LateSteps, Jobs, LockedJobs
    <3>3. [server[s] EXCEPT !.request = "none", !.saw = None] \in ServerStates
      BY <3>1, NoneType DEF ServerStates, EarlySteps, LateSteps, Jobs, LockedJobs
    <3>4. \/ server' = [server EXCEPT ![s] = [server[s] EXCEPT !.request = "none", !.saw = None, !.entry = server[s].saw]]
          \/ server' = [server EXCEPT ![s] = [server[s] EXCEPT !.request = "none", !.saw = None]]
      BY DEF FillArticle, Answered, Reaches
    <3>. QED  BY <3>1, <3>2, <3>3, <3>4
  <2>2. ends' \in [Servers -> EndStates]
    BY DEF LifeInv, LifeTypes, FillArticle, Answered, Reaches
  <2>3. redis' \in RedisStates
    BY DEF LifeInv, LifeTypes, ServerStates, EndStates, RedisStates, EarlySteps, LateSteps, Jobs, LockedJobs, None, Nobody, FillArticle, Answered, Reaches
  <2>. QED  BY <2>1, <2>2, <2>3, LifecycleBounds DEF LifeInv, LifeTypes, FillArticle, Answered, Reaches, ReadsInv
<1>2. ASSUME NEW t \in Servers PROVE StageOf(t)' /\ FinishOf(t)'
  BY DEF LifeInv, StageOf, FinishOf, LifeTypes, ServerStates, EndStates, RedisStates, EarlySteps, LateSteps, Jobs, LockedJobs, None, Nobody, FillArticle, Answered, Reaches
<1>3. ASSUME NEW t \in Servers, NEW j \in LockedJobs PROVE LockOf(t, j)'
  BY LifecycleBounds DEF LifeInv, StageOf, LockOf, LifeTypes, ServerStates, EndStates, RedisStates, EarlySteps, LateSteps, Jobs, LockedJobs, None, Nobody, FillArticle, Answered, Reaches
<1>4. ReadsInv'
  BY DEF LifeInv, ReadsInv, ReadOf, StageOf, LifeTypes, ServerStates, EndStates, RedisStates, EarlySteps, LateSteps, Jobs, LockedJobs, None, Nobody, FillArticle, Answered, Reaches
<1>5. TokensInv'
  BY DEF LifeInv, TokensInv, StageOf, LifeTypes, ServerStates, EndStates, RedisStates, EarlySteps, LateSteps, Jobs, LockedJobs, None, Nobody, FillArticle, Answered, Reaches
<1>. QED  BY <1>1, <1>2, <1>3, <1>4, <1>5 DEF LifeInv

LEMMA CloseCacheKeeps ==
    ASSUME LifeInv, NEW s \in Servers, CloseCache(s)
    PROVE  LifeInv'
<1>1. LifeTypes'
  <2>1. server' \in [Servers -> ServerStates]
    <3>1. server \in [Servers -> ServerStates] /\ server[s] \in ServerStates
      BY DEF LifeInv, LifeTypes
    <3>2. [server[s] EXCEPT !.step = "draining", !.closed = (server[s].cache = "redis")] \in ServerStates
      BY <3>1, NoneType DEF ServerStates, EarlySteps, LateSteps, Jobs, LockedJobs
    <3>3. server' = [server EXCEPT ![s] = [server[s] EXCEPT !.step = "draining", !.closed = (server[s].cache = "redis")]]
      BY DEF CloseCache
    <3>. QED  BY <3>1, <3>2, <3>3
  <2>2. ends' \in [Servers -> EndStates]
    <3>1. ends \in [Servers -> EndStates] /\ ends[s] \in EndStates /\ server[s] \in ServerStates
      BY DEF LifeInv, LifeTypes
    <3>2. [ends[s] EXCEPT !.owed = @ \cup server[s].holds] \in EndStates
      BY <3>1 DEF ServerStates, EndStates, Jobs, LockedJobs
    <3>3. ends' = [ends EXCEPT ![s] = [ends[s] EXCEPT !.owed = @ \cup server[s].holds]]
      BY DEF CloseCache
    <3>. QED  BY <3>1, <3>2, <3>3
  <2>3. redis' \in RedisStates
    BY DEF LifeInv, LifeTypes, CloseCache
  <2>. QED  BY <2>1, <2>2, <2>3, LifecycleBounds DEF LifeInv, LifeTypes, CloseCache, ReadsInv
<1>2. ASSUME NEW t \in Servers PROVE StageOf(t)' /\ FinishOf(t)'
  BY DEF LifeInv, StageOf, FinishOf, LifeTypes, ServerStates, EndStates, RedisStates, EarlySteps, LateSteps, Jobs, LockedJobs, None, Nobody, CloseCache
<1>3. ASSUME NEW t \in Servers, NEW j \in LockedJobs PROVE LockOf(t, j)'
  BY LifecycleBounds DEF LifeInv, StageOf, LockOf, LifeTypes, ServerStates, EndStates, RedisStates, EarlySteps, LateSteps, Jobs, LockedJobs, None, Nobody, CloseCache
<1>4. ReadsInv'
  BY DEF LifeInv, ReadsInv, ReadOf, StageOf, LifeTypes, ServerStates, EndStates, RedisStates, EarlySteps, LateSteps, Jobs, LockedJobs, None, Nobody, CloseCache
<1>5. TokensInv'
  BY DEF LifeInv, TokensInv, StageOf, LifeTypes, ServerStates, EndStates, RedisStates, EarlySteps, LateSteps, Jobs, LockedJobs, None, Nobody, CloseCache
<1>. QED  BY <1>1, <1>2, <1>3, <1>4, <1>5 DEF LifeInv

LEMMA StopBackupsKeeps ==
    ASSUME LifeInv, NEW s \in Servers, StopBackups(s)
    PROVE  LifeInv'
<1>1. LifeTypes'
  <2>1. server' \in [Servers -> ServerStates]
    <3>1. server \in [Servers -> ServerStates] /\ server[s] \in ServerStates
      BY DEF LifeInv, LifeTypes
    <3>2. [server[s] EXCEPT !.step = "deliver", !.workers = @ \ {"deliver"}] \in ServerStates
      BY <3>1, NoneType DEF ServerStates, EarlySteps, LateSteps, Jobs, LockedJobs
    <3>3. server' = [server EXCEPT ![s] = [server[s] EXCEPT !.step = "deliver", !.workers = @ \ {"deliver"}]]
      BY DEF StopBackups, Waited
    <3>. QED  BY <3>1, <3>2, <3>3
  <2>2. ends' \in [Servers -> EndStates]
    <3>1. ends \in [Servers -> EndStates] /\ ends[s] \in EndStates /\ server[s] \in ServerStates
      BY DEF LifeInv, LifeTypes
    <3>2. [ends[s] EXCEPT !.late = @ \cup ({"backup"} \cap server[s].running)] \in EndStates
      BY <3>1 DEF ServerStates, EndStates, Jobs, LockedJobs
    <3>3. ends' = [ends EXCEPT ![s] = [ends[s] EXCEPT !.late = @ \cup ({"backup"} \cap server[s].running)]]
      BY DEF StopBackups, Waited
    <3>. QED  BY <3>1, <3>2, <3>3
  <2>3. redis' \in RedisStates
    BY DEF LifeInv, LifeTypes, StopBackups, Waited
  <2>. QED  BY <2>1, <2>2, <2>3, LifecycleBounds DEF LifeInv, LifeTypes, StopBackups, Waited, ReadsInv
<1>2. ASSUME NEW t \in Servers PROVE StageOf(t)' /\ FinishOf(t)'
  BY DEF LifeInv, StageOf, FinishOf, LifeTypes, ServerStates, EndStates, RedisStates, EarlySteps, LateSteps, Jobs, LockedJobs, None, Nobody, StopBackups, Waited
<1>3. ASSUME NEW t \in Servers, NEW j \in LockedJobs PROVE LockOf(t, j)'
  BY LifecycleBounds DEF LifeInv, StageOf, LockOf, LifeTypes, ServerStates, EndStates, RedisStates, EarlySteps, LateSteps, Jobs, LockedJobs, None, Nobody, StopBackups, Waited
<1>4. ReadsInv'
  BY DEF LifeInv, ReadsInv, ReadOf, StageOf, LifeTypes, ServerStates, EndStates, RedisStates, EarlySteps, LateSteps, Jobs, LockedJobs, None, Nobody, StopBackups, Waited
<1>5. TokensInv'
  BY DEF LifeInv, TokensInv, StageOf, LifeTypes, ServerStates, EndStates, RedisStates, EarlySteps, LateSteps, Jobs, LockedJobs, None, Nobody, StopBackups, Waited
<1>. QED  BY <1>1, <1>2, <1>3, <1>4, <1>5 DEF LifeInv

LEMMA StopWebhooksKeeps ==
    ASSUME LifeInv, NEW s \in Servers, StopWebhooks(s)
    PROVE  LifeInv'
<1>1. LifeTypes'
  <2>1. server' \in [Servers -> ServerStates]
    <3>1. server \in [Servers -> ServerStates] /\ server[s] \in ServerStates
      BY DEF LifeInv, LifeTypes
    <3>2. [server[s] EXCEPT !.step = "publish", !.workers = @ \ {"publish"}] \in ServerStates
      BY <3>1, NoneType DEF ServerStates, EarlySteps, LateSteps, Jobs, LockedJobs
    <3>3. server' = [server EXCEPT ![s] = [server[s] EXCEPT !.step = "publish", !.workers = @ \ {"publish"}]]
      BY DEF StopWebhooks, Waited
    <3>. QED  BY <3>1, <3>2, <3>3
  <2>2. ends' \in [Servers -> EndStates]
    <3>1. ends \in [Servers -> EndStates] /\ ends[s] \in EndStates /\ server[s] \in ServerStates
      BY DEF LifeInv, LifeTypes
    <3>2. [ends[s] EXCEPT !.late = @ \cup ({"deliver"} \cap server[s].running)] \in EndStates
      BY <3>1 DEF ServerStates, EndStates, Jobs, LockedJobs
    <3>3. ends' = [ends EXCEPT ![s] = [ends[s] EXCEPT !.late = @ \cup ({"deliver"} \cap server[s].running)]]
      BY DEF StopWebhooks, Waited
    <3>. QED  BY <3>1, <3>2, <3>3
  <2>3. redis' \in RedisStates
    BY DEF LifeInv, LifeTypes, StopWebhooks, Waited
  <2>. QED  BY <2>1, <2>2, <2>3, LifecycleBounds DEF LifeInv, LifeTypes, StopWebhooks, Waited, ReadsInv
<1>2. ASSUME NEW t \in Servers PROVE StageOf(t)' /\ FinishOf(t)'
  BY DEF LifeInv, StageOf, FinishOf, LifeTypes, ServerStates, EndStates, RedisStates, EarlySteps, LateSteps, Jobs, LockedJobs, None, Nobody, StopWebhooks, Waited
<1>3. ASSUME NEW t \in Servers, NEW j \in LockedJobs PROVE LockOf(t, j)'
  BY LifecycleBounds DEF LifeInv, StageOf, LockOf, LifeTypes, ServerStates, EndStates, RedisStates, EarlySteps, LateSteps, Jobs, LockedJobs, None, Nobody, StopWebhooks, Waited
<1>4. ReadsInv'
  BY DEF LifeInv, ReadsInv, ReadOf, StageOf, LifeTypes, ServerStates, EndStates, RedisStates, EarlySteps, LateSteps, Jobs, LockedJobs, None, Nobody, StopWebhooks, Waited
<1>5. TokensInv'
  BY DEF LifeInv, TokensInv, StageOf, LifeTypes, ServerStates, EndStates, RedisStates, EarlySteps, LateSteps, Jobs, LockedJobs, None, Nobody, StopWebhooks, Waited
<1>. QED  BY <1>1, <1>2, <1>3, <1>4, <1>5 DEF LifeInv

LEMMA OutageKeeps ==
    ASSUME LifeInv, Outage
    PROVE  LifeInv'
<1>1. LifeTypes'
  <2>1. server' \in [Servers -> ServerStates]
    BY DEF LifeInv, LifeTypes, Outage, Event
  <2>2. ends' \in [Servers -> EndStates]
    BY DEF LifeInv, LifeTypes, Outage, Event
  <2>3. redis' \in RedisStates
    BY DEF LifeInv, LifeTypes, ServerStates, EndStates, RedisStates, EarlySteps, LateSteps, Jobs, LockedJobs, None, Nobody, Outage, Event
  <2>. QED  BY <2>1, <2>2, <2>3, LifecycleBounds DEF LifeInv, LifeTypes, Outage, Event, ReadsInv
<1>2. ASSUME NEW t \in Servers PROVE StageOf(t)' /\ FinishOf(t)'
  BY DEF LifeInv, StageOf, FinishOf, LifeTypes, ServerStates, EndStates, RedisStates, EarlySteps, LateSteps, Jobs, LockedJobs, None, Nobody, Outage, Event
<1>3. ASSUME NEW t \in Servers, NEW j \in LockedJobs PROVE LockOf(t, j)'
  BY LifecycleBounds DEF LifeInv, StageOf, LockOf, LifeTypes, ServerStates, EndStates, RedisStates, EarlySteps, LateSteps, Jobs, LockedJobs, None, Nobody, Outage, Event
<1>4. ReadsInv'
  BY DEF LifeInv, ReadsInv, ReadOf, StageOf, LifeTypes, ServerStates, EndStates, RedisStates, EarlySteps, LateSteps, Jobs, LockedJobs, None, Nobody, Outage, Event
<1>5. TokensInv'
  BY DEF LifeInv, TokensInv, StageOf, LifeTypes, ServerStates, EndStates, RedisStates, EarlySteps, LateSteps, Jobs, LockedJobs, None, Nobody, Outage, Event
<1>. QED  BY <1>1, <1>2, <1>3, <1>4, <1>5 DEF LifeInv

LEMMA LockLapsesKeeps ==
    ASSUME LifeInv, NEW i \in LockedJobs, LockLapses(i)
    PROVE  LifeInv'
<1>1. LifeTypes'
  <2>1. server' \in [Servers -> ServerStates]
    BY DEF LifeInv, LifeTypes, LockLapses
  <2>2. ends' \in [Servers -> EndStates]
    BY DEF LifeInv, LifeTypes, LockLapses
  <2>3. redis' \in RedisStates
    BY DEF LifeInv, LifeTypes, ServerStates, EndStates, RedisStates, EarlySteps, LateSteps, Jobs, LockedJobs, None, Nobody, LockLapses
  <2>. QED  BY <2>1, <2>2, <2>3, LifecycleBounds DEF LifeInv, LifeTypes, LockLapses, ReadsInv
<1>2. ASSUME NEW t \in Servers PROVE StageOf(t)' /\ FinishOf(t)'
  BY DEF LifeInv, StageOf, FinishOf, LifeTypes, ServerStates, EndStates, RedisStates, EarlySteps, LateSteps, Jobs, LockedJobs, None, Nobody, LockLapses
<1>3. ASSUME NEW t \in Servers, NEW j \in LockedJobs PROVE LockOf(t, j)'
  BY LifecycleBounds DEF LifeInv, StageOf, LockOf, LifeTypes, ServerStates, EndStates, RedisStates, EarlySteps, LateSteps, Jobs, LockedJobs, None, Nobody, LockLapses
<1>4. ReadsInv'
  BY DEF LifeInv, ReadsInv, ReadOf, StageOf, LifeTypes, ServerStates, EndStates, RedisStates, EarlySteps, LateSteps, Jobs, LockedJobs, None, Nobody, LockLapses
<1>5. TokensInv'
  BY DEF LifeInv, TokensInv, StageOf, LifeTypes, ServerStates, EndStates, RedisStates, EarlySteps, LateSteps, Jobs, LockedJobs, None, Nobody, LockLapses
<1>. QED  BY <1>1, <1>2, <1>3, <1>4, <1>5 DEF LifeInv

LEMMA RestoreKeeps ==
    ASSUME LifeInv, Restore
    PROVE  LifeInv'
<1>1. LifeTypes'
  <2>1. server' \in [Servers -> ServerStates]
    BY DEF LifeInv, LifeTypes, Restore, Event
  <2>2. ends' \in [Servers -> EndStates]
    BY DEF LifeInv, LifeTypes, Restore, Event
  <2>3. redis' \in RedisStates
    BY DEF LifeInv, LifeTypes, Restore, Event
  <2>. QED  BY <2>1, <2>2, <2>3, LifecycleBounds DEF LifeInv, LifeTypes, Restore, Event, ReadsInv
<1>2. ASSUME NEW t \in Servers PROVE StageOf(t)' /\ FinishOf(t)'
  BY DEF LifeInv, StageOf, FinishOf, LifeTypes, ServerStates, EndStates, RedisStates, EarlySteps, LateSteps, Jobs, LockedJobs, None, Nobody, Restore, Event
<1>3. ASSUME NEW t \in Servers, NEW j \in LockedJobs PROVE LockOf(t, j)'
  BY LifecycleBounds DEF LifeInv, StageOf, LockOf, LifeTypes, ServerStates, EndStates, RedisStates, EarlySteps, LateSteps, Jobs, LockedJobs, None, Nobody, Restore, Event
<1>4. ReadsInv'
  BY DEF LifeInv, ReadsInv, ReadOf, StageOf, LifeTypes, ServerStates, EndStates, RedisStates, EarlySteps, LateSteps, Jobs, LockedJobs, None, Nobody, Restore, Event
<1>5. TokensInv'
  BY DEF LifeInv, TokensInv, StageOf, LifeTypes, ServerStates, EndStates, RedisStates, EarlySteps, LateSteps, Jobs, LockedJobs, None, Nobody, Restore, Event
<1>. QED  BY <1>1, <1>2, <1>3, <1>4, <1>5 DEF LifeInv

LEMMA ConnectCacheKeeps ==
    ASSUME LifeInv, ConnectCache
    PROVE  LifeInv'
<1>1. LifeTypes'
  <2>1. server' \in [Servers -> ServerStates]
    BY DEF LifeInv, LifeTypes, ConnectCache
  <2>2. ends' \in [Servers -> EndStates]
    BY DEF LifeInv, LifeTypes, ConnectCache
  <2>3. redis' \in RedisStates
    BY DEF LifeInv, LifeTypes, ConnectCache
  <2>. QED  BY <2>1, <2>2, <2>3, LifecycleBounds DEF LifeInv, LifeTypes, ConnectCache, ReadsInv
<1>2. ASSUME NEW t \in Servers PROVE StageOf(t)' /\ FinishOf(t)'
  BY DEF LifeInv, StageOf, FinishOf, LifeTypes, ServerStates, EndStates, RedisStates, EarlySteps, LateSteps, Jobs, LockedJobs, None, Nobody, ConnectCache
<1>3. ASSUME NEW t \in Servers, NEW j \in LockedJobs PROVE LockOf(t, j)'
  BY LifecycleBounds DEF LifeInv, StageOf, LockOf, LifeTypes, ServerStates, EndStates, RedisStates, EarlySteps, LateSteps, Jobs, LockedJobs, None, Nobody, ConnectCache
<1>4. ReadsInv'
  BY DEF LifeInv, ReadsInv, ReadOf, StageOf, LifeTypes, ServerStates, EndStates, RedisStates, EarlySteps, LateSteps, Jobs, LockedJobs, None, Nobody, ConnectCache
<1>5. TokensInv'
  BY DEF LifeInv, TokensInv, StageOf, LifeTypes, ServerStates, EndStates, RedisStates, EarlySteps, LateSteps, Jobs, LockedJobs, None, Nobody, ConnectCache
<1>. QED  BY <1>1, <1>2, <1>3, <1>4, <1>5 DEF LifeInv

LEMMA InvalidateRestoredDataCacheKeeps ==
    ASSUME LifeInv, InvalidateRestoredDataCache
    PROVE  LifeInv'
<1>1. LifeTypes'
  <2>1. server' \in [Servers -> ServerStates]
    BY DEF LifeInv, LifeTypes, InvalidateRestoredDataCache
  <2>2. ends' \in [Servers -> EndStates]
    BY DEF LifeInv, LifeTypes, InvalidateRestoredDataCache
  <2>3. redis' \in RedisStates
    BY DEF LifeInv, LifeTypes, ServerStates, EndStates, RedisStates, EarlySteps, LateSteps, Jobs, LockedJobs, None, Nobody, InvalidateRestoredDataCache
  <2>. QED  BY <2>1, <2>2, <2>3, LifecycleBounds DEF LifeInv, LifeTypes, InvalidateRestoredDataCache, ReadsInv
<1>2. ASSUME NEW t \in Servers PROVE StageOf(t)' /\ FinishOf(t)'
  BY DEF LifeInv, StageOf, FinishOf, LifeTypes, ServerStates, EndStates, RedisStates, EarlySteps, LateSteps, Jobs, LockedJobs, None, Nobody, InvalidateRestoredDataCache
<1>3. ASSUME NEW t \in Servers, NEW j \in LockedJobs PROVE LockOf(t, j)'
  BY LifecycleBounds DEF LifeInv, StageOf, LockOf, LifeTypes, ServerStates, EndStates, RedisStates, EarlySteps, LateSteps, Jobs, LockedJobs, None, Nobody, InvalidateRestoredDataCache
<1>4. ReadsInv'
  BY DEF LifeInv, ReadsInv, ReadOf, StageOf, LifeTypes, ServerStates, EndStates, RedisStates, EarlySteps, LateSteps, Jobs, LockedJobs, None, Nobody, InvalidateRestoredDataCache
<1>5. TokensInv'
  BY DEF LifeInv, TokensInv, StageOf, LifeTypes, ServerStates, EndStates, RedisStates, EarlySteps, LateSteps, Jobs, LockedJobs, None, Nobody, InvalidateRestoredDataCache
<1>. QED  BY <1>1, <1>2, <1>3, <1>4, <1>5 DEF LifeInv

LEMMA LifeBegins == LifeInit => LifeInv
<1>. SUFFICES ASSUME LifeInit PROVE LifeInv
  OBVIOUS
<1>. USE DEF LifeInit
<1>1. DownServer \in ServerStates /\ NoEnd \in EndStates
  BY NoneType DEF DownServer, NoEnd, ServerStates, EndStates, EarlySteps, None
<1>2. /\ DownServer.step = "down" /\ DownServer.closed = FALSE /\ DownServer.workers = {}
      /\ DownServer.running = {} /\ DownServer.holds = {} /\ DownServer.request = "none"
      /\ DownServer.saw = None /\ DownServer.entry = None /\ DownServer.born = 0 /\ NoEnd.how = "none"
  BY DEF DownServer, NoEnd
<1>3. redis \in RedisStates
  BY NoneType DEF RedisStates
<1>4. LifeTypes
  <2>1. server \in [Servers -> ServerStates] /\ ends \in [Servers -> EndStates]
    BY <1>1
  <2>2. token \in Int /\ launches \in 0 .. MaxLaunches /\ events \in 0 .. MaxEvents /\ data \in 0 .. 1
    BY LifecycleBounds DEF None
  <2>. QED  BY <1>3, <2>1, <2>2 DEF LifeTypes
<1>5. ASSUME NEW s \in Servers PROVE StageOf(s) /\ FinishOf(s)
  BY <1>2 DEF StageOf, FinishOf, EarlySteps, LateSteps
<1>6. ASSUME NEW s \in Servers, NEW j \in LockedJobs PROVE LockOf(s, j)
  BY <1>2, LifecycleBounds DEF LockOf
<1>7. ReadsInv
  BY <1>2 DEF ReadsInv, ReadOf, None
<1>8. TokensInv
  BY <1>2 DEF TokensInv
<1>. QED  BY <1>4, <1>5, <1>6, <1>7, <1>8 DEF LifeInv

LEMMA LifeGoesOn == LifeInv /\ (LifeNext \/ UNCHANGED lifeVars) => LifeInv'
<1>1. CASE UNCHANGED lifeVars
  BY <1>1 DEF lifeVars, LifeInv, LifeTypes, StageOf, FinishOf, LockOf, ReadsInv, ReadOf, TokensInv
<1>2. CASE LifeInv /\ LifeNext
  BY <1>2, LaunchKeeps, NewCacheDriverKeeps, InitTokenStoreKeeps, ServeKeeps, StartJobKeeps,
     FinishJobKeeps, AcceptKeeps, LoginKeeps, LogoutKeeps, ReadKeeps, FillArticleKeeps,
     CloseCacheKeeps, ShutdownKeeps, StopBackupsKeeps, StopWebhooksKeeps, StopPublisherKeeps,
     DieKeeps, OutageKeeps, LockLapsesKeeps, RestoreKeeps, ConnectCacheKeeps,
     InvalidateRestoredDataCacheKeeps DEF LifeNext
<1>. QED  BY <1>1, <1>2

LEMMA LifeImplies == LifeInv => LifeTypeOK /\ LifeHolds
<1>. SUFFICES ASSUME LifeInv PROVE LifeTypeOK /\ LifeHolds
  OBVIOUS
<1>1. LifeTypeOK
  BY DEF LifeInv, LifeTypes, LifeTypeOK, ServerStates, EndStates, RedisStates, EarlySteps, LateSteps
<1>2. GracefulExitsFinish
  BY DEF LifeInv, FinishOf, GracefulExitsFinish
<1>3. OneServerRunsAJob
  <2>. SUFFICES ASSUME NEW s \in Servers, NEW t \in Servers, NEW j \in LockedJobs, s # t,
                       j \in server[s].running, j \in server[t].running,
                       server[s].cache # "memory", server[t].cache # "memory"
                PROVE  FALSE
    BY DEF OneServerRunsAJob
  <2>1. server[s].cache = "redis" /\ server[t].cache = "redis"
    BY DEF LifeInv, LifeTypes, ServerStates, StageOf, EarlySteps
  <2>2. redis.locks[j] = s /\ redis.locks[j] = t
    BY <2>1 DEF LifeInv, LockOf
  <2>. QED  BY <2>2
<1>4. LocksAreLeftByOrder
  BY DEF LifeInv, LockOf, LocksAreLeftByOrder, Alive, StageOf, DownServer
<1>5. LogoutReachesAll
  BY DEF LifeInv, TokensInv, LogoutReachesAll, Allowed, Revoked
<1>6. RestoredIsRead
  BY DEF LifeInv, ReadsInv, ReadOf, RestoredIsRead
<1>7. ServedIsConfigured
  BY DEF LifeInv, LifeTypes, TokensInv, ServedIsConfigured, Alive, None
<1>. QED  BY <1>1, <1>2, <1>3, <1>4, <1>5, <1>6, <1>7 DEF LifeHolds

(***************************************************************************)
(* Migrations and seeding.                                                 *)
(***************************************************************************)
ProcStates == {NoProc} \cup Booting \cup Seeding \cup Serving \cup Undoing

BootTypes ==
    /\ dialect \in Dialects
    /\ made \in [Versions -> 0 .. AllParts] /\ recorded \subseteq Versions
    /\ seeded \subseteq Things /\ defaults \subseteq Builtin /\ foreign \in BOOLEAN
    /\ proc \in [Processes -> ProcStates]
    /\ boots \in 0 .. MaxBoots /\ rollbacks \in 0 .. MaxRollbacks /\ deaths \in 0 .. MaxDeaths
    /\ overlapped \in BOOLEAN /\ cut \subseteq Tasks /\ undoing \subseteq Versions

Ordered(S) == \A v \in S : 1 .. v \subseteq S

(* What a process knows of the record while nobody else is at work on it.      *)
KnowsOf(p) ==
    /\ proc[p].step = "undo" => proc[p].left > 0 /\ proc[p].known # {}
    /\ ~overlapped =>
          /\ proc[p].step = "migrate" => proc[p].known \subseteq recorded /\ Ordered(proc[p].known)
          /\ proc[p].step \in {"rollback", "undo"} =>
                /\ proc[p].known = recorded
                /\ \A r \in Processes \ {p} : proc[r].step \in {"down", "serving"}

(* As long as nothing was rolled back.                                        *)
Whole ==
    rollbacks = 0 =>
        /\ ~overlapped
        /\ \A p \in Processes : proc[p].step \notin {"rollback", "undo"}
        /\ \A p \in Processes : proc[p].step \in Tasks \cup {"serving"} => recorded = Versions

(* The steps of seeding up to the one at which a thing is sown.                *)
Sown == Things \ {"membership"}
Upto ==
    LET roles == {"permissions", "clear", "admin role", "subscriber role"}
    IN  [t \in Sown |->
           CASE t = "permissions"     -> {"permissions"}
             [] t = "admin role"      -> {"permissions", "clear", "admin role"}
             [] t = "subscriber role" -> roles
             [] t = "user"            -> roles \cup {"user"}
             [] t = "settings"        -> roles \cup {"user", "membership", "settings"}
             [] t = "categories"      -> roles \cup {"user", "membership", "settings", "categories"}]

Sprouted(t) == t \in seeded /\ (t = "subscriber role" => defaults = {"subscriber"})
Someone(S)       == \E p \in Processes : proc[p].step \in S

(* Once a process is past a step, its thing is there, or another process has   *)
(* yet to pass the step, or one ended before it.                               *)
Line(t) == Someone((Tasks \ Upto[t]) \cup {"serving"}) => Sprouted(t) \/ Someone(Upto[t]) \/ cut \cap Upto[t] # {}

BootInv ==
    /\ BootTypes
    /\ RecordedIsMade
    /\ defaults \subseteq {"subscriber"}
    /\ ~overlapped => Ordered(recorded)
    /\ \A p \in Processes : KnowsOf(p)
    /\ Whole
    /\ AdminIsMember
    /\ rollbacks = 0 => \A t \in Sown : Line(t)

(* What the step of a process to q has to do for the thing t.                 *)
LineStep(p, q, t) ==
    \/ q.step \in Upto[t]
    \/ cut' \cap Upto[t] # {}
    \/ Sprouted(t)'
    \/ /\ proc[p].step \notin Upto[t]
       /\ Sprouted(t) => Sprouted(t)'
       /\ cut \cap Upto[t] \subseteq cut'
       /\ q.step \in (Tasks \ Upto[t]) \cup {"serving"} => proc[p].step \in (Tasks \ Upto[t]) \cup {"serving"}

LEMMA TaskOrder ==
    /\ NextTask["permissions"] = "clear" /\ NextTask["clear"] = "admin role"
    /\ NextTask["admin role"] = "subscriber role" /\ NextTask["subscriber role"] = "user"
    /\ NextTask["user"] = "membership" /\ NextTask["membership"] = "settings"
    /\ NextTask["settings"] = "categories" /\ NextTask["categories"] = "serving"
  BY DEF NextTask, Tasks

LEMMA UptoAre ==
    /\ Sown = {"permissions", "admin role", "subscriber role", "user", "settings", "categories"}
    /\ Upto["permissions"] = {"permissions"}
    /\ Upto["admin role"] = {"permissions", "clear", "admin role"}
    /\ Upto["subscriber role"] = {"permissions", "clear", "admin role", "subscriber role"}
    /\ Upto["user"] = {"permissions", "clear", "admin role", "subscriber role", "user"}
    /\ Upto["settings"] = {"permissions", "clear", "admin role", "subscriber role", "user",
                          "membership", "settings"}
    /\ Upto["categories"] = {"permissions", "clear", "admin role", "subscriber role", "user",
                            "membership", "settings", "categories"}
<1>1. Sown = {"permissions", "admin role", "subscriber role", "user", "settings", "categories"}
  BY DEF Sown, Things
<1>. QED  BY <1>1 DEF Upto

LEMMA MaxOfVersions ==
    ASSUME NEW S \in SUBSET Versions, S # {}
    PROVE  Max(S) \in S /\ \A v \in S : v <= Max(S)
<1>1. \E m \in S : \A v \in S : m >= v
  <2>1. CASE 3 \in S
    BY <2>1 DEF Versions
  <2>2. CASE 3 \notin S /\ 2 \in S
    BY <2>2 DEF Versions
  <2>3. CASE 3 \notin S /\ 2 \notin S
    <3>1. \A v \in S : v = 1
      BY <2>3 DEF Versions
    <3>. QED  BY <3>1
  <2>. QED  BY <2>1, <2>2, <2>3
<1>. QED  BY <1>1 DEF Max, Versions

LEMMA MinOfVersions ==
    ASSUME NEW S \in SUBSET Versions, S # {}
    PROVE  Min(S) \in S /\ \A v \in S : Min(S) <= v
<1>1. \E m \in S : \A v \in S : m <= v
  <2>1. CASE 1 \in S
    BY <2>1 DEF Versions
  <2>2. CASE 1 \notin S /\ 2 \in S
    BY <2>2 DEF Versions
  <2>3. CASE 1 \notin S /\ 2 \notin S
    <3>1. \A v \in S : v = 3
      BY <2>3 DEF Versions
    <3>. QED  BY <3>1
  <2>. QED  BY <2>1, <2>2, <2>3
<1>. QED  BY <1>1 DEF Min, Versions

LEMMA LineKept ==
    ASSUME BootTypes, NEW p \in Processes, NEW q, proc' = [proc EXCEPT ![p] = q],
           NEW t \in Sown, Line(t), LineStep(p, q, t)
    PROVE  Line(t)'
<1>1. \A r \in Processes : proc'[r] = IF r = p THEN q ELSE proc[r]
  BY DEF BootTypes
<1>2. CASE q.step \in Upto[t]
  BY <1>1, <1>2 DEF Line, Someone
<1>3. CASE cut' \cap Upto[t] # {} \/ Sprouted(t)'
  BY <1>3 DEF Line
<1>4. CASE /\ proc[p].step \notin Upto[t]
           /\ Sprouted(t) => Sprouted(t)'
           /\ cut \cap Upto[t] \subseteq cut'
           /\ q.step \in (Tasks \ Upto[t]) \cup {"serving"} => proc[p].step \in (Tasks \ Upto[t]) \cup {"serving"}
  <2>. SUFFICES ASSUME Someone((Tasks \ Upto[t]) \cup {"serving"})', ~Sprouted(t)'
                PROVE  Someone(Upto[t])' \/ cut' \cap Upto[t] # {}
    BY DEF Line
  <2>1. PICK r \in Processes : proc'[r].step \in (Tasks \ Upto[t]) \cup {"serving"}
    BY DEF Someone
  <2>2. Someone((Tasks \ Upto[t]) \cup {"serving"})
    BY <1>1, <1>4, <2>1 DEF Someone
  <2>3. ASSUME Someone(Upto[t]) PROVE Someone(Upto[t])'
    BY <1>1, <1>4, <2>3 DEF Someone
  <2>. QED  BY <1>4, <2>2, <2>3 DEF Line
<1>. QED  BY <1>2, <1>3, <1>4 DEF LineStep

(* What is known of a process by its step.                                     *)
LEMMA StepKinds ==
    ASSUME BootTypes, NEW p \in Processes
    PROVE  /\ proc[p].step = "down" => proc[p] = NoProc
           /\ proc[p].step = "migrate" => proc[p] \in Booting
           /\ proc[p].step \in Tasks => proc[p] \in Seeding
           /\ proc[p].step = "serving" => proc[p] \in Serving
           /\ proc[p].step \in {"rollback", "undo"} => proc[p] \in Undoing
           /\ proc[p].step \in {"down", "migrate", "serving", "rollback", "undo"} \cup Tasks
<1>1. proc[p] \in ProcStates
  BY DEF BootTypes
<1>2. proc[p] = NoProc => proc[p].step = "down"
  BY DEF NoProc
<1>3. proc[p] \in Booting => proc[p].step = "migrate"
  BY DEF Booting
<1>4. proc[p] \in Seeding => proc[p].step \in Tasks
  BY DEF Seeding
<1>5. proc[p] \in Serving => proc[p].step = "serving"
  BY DEF Serving
<1>6. proc[p] \in Undoing => proc[p].step \in {"rollback", "undo"}
  BY DEF Undoing
<1>. QED  BY <1>1, <1>2, <1>3, <1>4, <1>5, <1>6 DEF ProcStates, Tasks

(* A step of seeding leaves migrations and rollbacks alone.                    *)
LEMMA SeedingKeeps ==
    ASSUME BootInv, NEW p \in Processes, NEW q \in Seeding \cup Serving, proc[p].step \in Tasks,
           proc' = [proc EXCEPT ![p] = q],
           UNCHANGED <<dialect, made, recorded, foreign, boots, rollbacks, overlapped, undoing>>,
           seeded' \subseteq Things, defaults' \subseteq {"subscriber"}, deaths' \in 0 .. MaxDeaths,
           cut' \subseteq Tasks, AdminIsMember',
           \A t \in Sown : LineStep(p, q, t)
    PROVE  BootInv'
<1>1. q \in ProcStates /\ q.step \in Tasks \cup {"serving"}
  BY DEF ProcStates, Seeding, Serving
<1>2. \A r \in Processes : proc'[r] = IF r = p THEN q ELSE proc[r]
  BY DEF BootInv, BootTypes
<1>3. BootTypes'
  BY <1>1 DEF BootInv, BootTypes, Builtin
<1>4. RecordedIsMade'
  BY DEF BootInv, RecordedIsMade
<1>5. ~overlapped' => Ordered(recorded)'
  BY DEF BootInv, Ordered
<1>6. ASSUME NEW r \in Processes PROVE KnowsOf(r)'
  <2>1. CASE r = p
    BY <1>1, <1>2, <2>1 DEF KnowsOf, Tasks
  <2>2. CASE r # p
    <3>1. ~overlapped => proc[r].step \notin {"rollback", "undo"}
      BY <2>2 DEF BootInv, KnowsOf, Tasks
    <3>. QED  BY <1>2, <2>2, <3>1 DEF BootInv, KnowsOf, Ordered
  <2>. QED  BY <2>1, <2>2
<1>7. Whole'
  BY <1>1, <1>2 DEF BootInv, Whole, Tasks
<1>8. ASSUME rollbacks' = 0, NEW t \in Sown PROVE Line(t)'
  BY <1>8, LineKept DEF BootInv
<1>. QED  BY <1>3, <1>4, <1>5, <1>6, <1>7, <1>8 DEF BootInv

(* A process at a step of seeding ends it: the step is cut.                    *)
LEMMA CutLines ==
    ASSUME BootInv, NEW p \in Processes, NEW q, proc[p].step \in Tasks,
           q.step \in {"serving", "down"}, cut' = cut \cup {proc[p].step},
           UNCHANGED <<seeded, defaults>>, NEW t \in Sown
    PROVE  LineStep(p, q, t)
<1>1. CASE proc[p].step \in Upto[t]
  BY <1>1 DEF LineStep
<1>2. CASE proc[p].step \notin Upto[t]
  BY <1>2 DEF LineStep, Sprouted
<1>. QED  BY <1>1, <1>2

(* A process passes a step of seeding, and does what there is to be done.      *)
LEMMA PassedLines ==
    ASSUME BootInv, NEW p \in Processes, NEW q, proc[p].step \in Tasks,
           \/ q.step = NextTask[proc[p].step]
           \/ proc[p].step = "user" /\ q.step = "settings"
           \/ q.step = proc[p].step,
           cut' \in {cut, cut \ {proc[p].step}}, seeded \subseteq seeded',
           q.step # proc[p].step /\ proc[p].step \in Sown => proc[p].step \in seeded',
           proc[p].step = "subscriber role" /\ q.step # proc[p].step => defaults' = {"subscriber"},
           defaults' = defaults \/ proc[p].step \in {"clear", "admin role", "subscriber role"},
           NEW t \in Sown
    PROVE  LineStep(p, q, t)
<1>1. CASE q.step \in Upto[t]
  BY <1>1 DEF LineStep
<1>2. CASE q.step \notin Upto[t] /\ proc[p].step \in Upto[t]
  <2>1. \A a \in Tasks : a \in Upto[t] /\ NextTask[a] \notin Upto[t] => a = t
    <3>. SUFFICES ASSUME NEW a \in Tasks, a \in Upto[t], NextTask[a] \notin Upto[t], a # t PROVE FALSE
      OBVIOUS
    <3>1. CASE t = "permissions"
      BY <3>1, TaskOrder, UptoAre
    <3>2. CASE t = "admin role"
      BY <3>2, TaskOrder, UptoAre
    <3>3. CASE t = "subscriber role"
      BY <3>3, TaskOrder, UptoAre
    <3>4. CASE t = "user"
      BY <3>4, TaskOrder, UptoAre
    <3>5. CASE t = "settings"
      BY <3>5, TaskOrder, UptoAre
    <3>6. CASE t = "categories"
      BY <3>6, TaskOrder, UptoAre
    <3>. QED  BY <3>1, <3>2, <3>3, <3>4, <3>5, <3>6, UptoAre
  <2>2. "user" \in Upto[t] /\ "settings" \notin Upto[t] => t = "user"
    BY UptoAre
  <2>3. proc[p].step = t /\ q.step # t
    BY <1>2, <2>1, <2>2
  <2>. QED  BY <2>3 DEF LineStep, Sprouted
<1>3. CASE q.step \notin Upto[t] /\ proc[p].step \notin Upto[t]
  <2>1. Sprouted(t) => Sprouted(t)'
    BY <1>3, UptoAre DEF Sprouted
  <2>. QED  BY <1>3, <2>1 DEF LineStep, Tasks
<1>. QED  BY <1>1, <1>2, <1>3

LEMMA LookForSeedKeeps ==
    ASSUME BootInv, NEW p \in Processes, LookForSeed(p)
    PROVE  BootInv'
<1>. DEFINE q == [proc[p] EXCEPT !.seen = {proc[p].step}]
<1>1. proc[p] \in Seeding /\ proc[p].step \in Things
  BY StepKinds DEF BootInv, LookForSeed, Tasks, Things
<1>2. q \in Seeding /\ q.step = proc[p].step /\ proc' = [proc EXCEPT ![p] = q]
  BY <1>1 DEF Seeding, LookForSeed, Goes
<1>. HIDE DEF q
<1>3. ASSUME NEW t \in Sown PROVE LineStep(p, q, t)
  BY <1>2, PassedLines DEF LookForSeed, Seeds, bootHistory
<1>4. AdminIsMember'
  BY <1>2 DEF BootInv, BootTypes, AdminIsMember, LookForSeed, Seeds, bootHistory
<1>. QED  BY <1>2, <1>3, <1>4, SeedingKeeps DEF LookForSeed, Schema, Seeds, BootCounts, bootHistory, BootInv, BootTypes

(* The process has passed its step and is at another.                          *)
LEMMA SeedingAtTypes ==
    ASSUME NEW t \in Tasks \cup {"serving"}
    PROVE  SeedingAt(t) \in Seeding \cup Serving /\ SeedingAt(t).step = t
<1>1. CASE t = "serving"
  BY <1>1 DEF SeedingAt, Serving
<1>2. CASE t # "serving"
  BY <1>2 DEF SeedingAt, Seeding
<1>. QED  BY <1>1, <1>2

LEMMA InsertSeedKeeps ==
    ASSUME BootInv, NEW p \in Processes, InsertSeed(p)
    PROVE  BootInv'
<1>. DEFINE task == proc[p].step
<1>1. /\ task \in Things \ {"membership"} /\ task \in Tasks
      /\ UNCHANGED <<dialect, made, recorded, defaults, foreign, boots, rollbacks, deaths, overlapped, undoing>>
  BY DEF InsertSeed, Things, Tasks, Schema, BootCounts
<1>2. CASE task \in seeded \/ made[1] # AllParts
  <2>. DEFINE q == [step |-> "serving"]
  <2>1. proc' = [proc EXCEPT ![p] = q] /\ cut' = cut \cup {task} /\ seeded' = seeded
    BY <1>2 DEF InsertSeed, EndSeeding, Goes
  <2>2. q \in Serving /\ q.step = "serving"
    BY DEF Serving
  <2>. HIDE DEF q
  <2>3. ASSUME NEW t \in Sown PROVE LineStep(p, q, t)
    BY <1>1, <2>1, <2>2, CutLines
  <2>4. AdminIsMember'
    BY <1>1, <2>1, <2>2 DEF BootInv, BootTypes, AdminIsMember
  <2>. QED  BY <1>1, <2>1, <2>2, <2>3, <2>4, SeedingKeeps DEF BootInv, BootTypes
<1>3. CASE ~(task \in seeded \/ made[1] # AllParts)
  <2>. DEFINE next == IF task \in {"admin role", "subscriber role"} THEN task ELSE NextTask[task]
              q    == SeedingAt(next)
  <2>1. /\ proc' = [proc EXCEPT ![p] = q] /\ seeded' = seeded \cup {task}
        /\ cut' \in {cut, cut \ {task}}
    BY <1>3 DEF InsertSeed, SeedingGoesOn, Goes
  <2>2. next \in Tasks \cup {"serving"} /\ (next # task => next = NextTask[task])
        /\ (task = "user" => next = "membership") /\ (task = "subscriber role" => next = task)
    BY <1>1, TaskOrder DEF Tasks
  <2>. HIDE DEF next
  <2>3. q \in Seeding \cup Serving /\ q.step = next
    BY <2>2, SeedingAtTypes
  <2>. HIDE DEF q
  <2>4. ASSUME NEW t \in Sown PROVE LineStep(p, q, t)
    BY <1>1, <2>1, <2>2, <2>3, PassedLines
  <2>5. AdminIsMember'
    <3>1. CASE task = "user"
      BY <2>1, <2>2, <2>3, <3>1 DEF BootInv, BootTypes, AdminIsMember
    <3>2. CASE task # "user"
      BY <1>1, <2>1, <2>3, <3>2 DEF BootInv, BootTypes, AdminIsMember
    <3>. QED  BY <3>1, <3>2
  <2>. QED  BY <1>1, <2>1, <2>3, <2>4, <2>5, SeedingKeeps DEF BootInv, BootTypes
<1>. QED  BY <1>2, <1>3

LEMMA SkipSeedKeeps ==
    ASSUME BootInv, NEW p \in Processes, SkipSeed(p)
    PROVE  BootInv'
<1>. DEFINE task == proc[p].step
            next == IF task = "user" THEN "settings" ELSE NextTask[task]
            q    == SeedingAt(next)
<1>1. /\ task \in {"permissions", "user", "settings", "categories"} /\ task \in seeded
      /\ UNCHANGED <<dialect, made, recorded, seeded, defaults, foreign, boots, rollbacks, deaths, overlapped, undoing>>
  BY DEF SkipSeed, Schema, Seeds, BootCounts
<1>2. proc' = [proc EXCEPT ![p] = q] /\ cut' = cut \ {task}
  BY DEF SkipSeed, SeedingGoesOn, Goes
<1>3. task \in Tasks /\ next \in Tasks \cup {"serving"}
      /\ (next = NextTask[task] \/ (task = "user" /\ next = "settings"))
  BY <1>1, TaskOrder DEF Tasks
<1>. HIDE DEF next
<1>4. q \in Seeding \cup Serving /\ q.step = next
  BY <1>3, SeedingAtTypes
<1>. HIDE DEF q
<1>5. ASSUME NEW t \in Sown PROVE LineStep(p, q, t)
  BY <1>1, <1>2, <1>3, <1>4, PassedLines
<1>6. AdminIsMember'
  BY <1>1, <1>2 DEF BootInv, BootTypes, AdminIsMember
<1>. QED  BY <1>1, <1>2, <1>3, <1>4, <1>5, <1>6, SeedingKeeps DEF BootInv, BootTypes

LEMMA ClearDefaultsKeeps ==
    ASSUME BootInv, NEW p \in Processes, ClearDefaults(p)
    PROVE  BootInv'
<1>. DEFINE q == SeedingAt("admin role")
<1>1. /\ proc[p].step = "clear" /\ defaults' = {} /\ cut' = cut \ {"clear"}
      /\ proc' = [proc EXCEPT ![p] = q]
      /\ UNCHANGED <<dialect, made, recorded, seeded, foreign, boots, rollbacks, deaths, overlapped, undoing>>
  BY TaskOrder DEF ClearDefaults, SeedingGoesOn, Goes, Schema, BootCounts
<1>2. q \in Seeding \cup Serving /\ q.step = "admin role"
  BY SeedingAtTypes DEF Tasks
<1>. HIDE DEF q
<1>3. ASSUME NEW t \in Sown PROVE LineStep(p, q, t)
  <2>1. /\ proc[p].step \in Tasks /\ proc[p].step \notin Sown /\ q.step = NextTask[proc[p].step]
        /\ cut' \in {cut, cut \ {proc[p].step}} /\ seeded \subseteq seeded'
        /\ proc[p].step # "subscriber role"
    BY <1>1, <1>2, TaskOrder, UptoAre DEF Tasks
  <2>. QED  BY <1>1, <2>1, PassedLines
<1>4. AdminIsMember'
  BY <1>1 DEF BootInv, BootTypes, AdminIsMember
<1>. QED  BY <1>1, <1>2, <1>3, <1>4, SeedingKeeps DEF BootInv, BootTypes, Tasks

LEMMA SyncRoleKeeps ==
    ASSUME BootInv, NEW p \in Processes, NEW role \in Builtin, SyncRole(p, role)
    PROVE  BootInv'
<1>. DEFINE task == proc[p].step
            q    == SeedingAt(NextTask[task])
<1>1. /\ task = IF role = "admin" THEN "admin role" ELSE "subscriber role"
      /\ task \in seeded /\ cut' = cut \ {task} /\ proc' = [proc EXCEPT ![p] = q]
      /\ UNCHANGED <<dialect, made, recorded, seeded, foreign, boots, rollbacks, deaths, overlapped, undoing>>
  BY DEF SyncRole, SeedingGoesOn, Goes, Schema, BootCounts
<1>2. defaults' \subseteq {"subscriber"}
  BY DEF BootInv, BootTypes, SyncRole
<1>3. task \in Tasks /\ NextTask[task] \in Tasks \cup {"serving"} /\ task \notin {"user", "membership"}
  BY <1>1, TaskOrder DEF Tasks
<1>4. task = "subscriber role" => defaults' = {"subscriber"}
  BY <1>1 DEF SyncRole, BootInv, Builtin
<1>5. q \in Seeding \cup Serving /\ q.step = NextTask[task]
  BY <1>3, SeedingAtTypes
<1>. HIDE DEF q
<1>6. ASSUME NEW t \in Sown PROVE LineStep(p, q, t)
  BY <1>1, <1>3, <1>4, <1>5, PassedLines
<1>7. AdminIsMember'
  BY <1>1, <1>3 DEF BootInv, BootTypes, AdminIsMember
<1>. QED  BY <1>1, <1>2, <1>3, <1>5, <1>6, <1>7, SeedingKeeps DEF BootInv, BootTypes

LEMMA CreateMembershipKeeps ==
    ASSUME BootInv, NEW p \in Processes, CreateMembership(p)
    PROVE  BootInv'
<1>. DEFINE q == SeedingAt("settings")
<1>1. /\ proc[p].step = "membership" /\ seeded' = seeded \cup {"membership"}
      /\ proc' = [proc EXCEPT ![p] = q]
      /\ UNCHANGED <<dialect, made, recorded, defaults, foreign, boots, rollbacks, deaths, overlapped, cut, undoing>>
  BY DEF CreateMembership, Goes, Schema, BootCounts, bootHistory
<1>2. q \in Seeding \cup Serving /\ q.step = "settings"
  BY SeedingAtTypes DEF Tasks
<1>. HIDE DEF q
<1>3. ASSUME NEW t \in Sown PROVE LineStep(p, q, t)
  <2>1. /\ proc[p].step \in Tasks /\ proc[p].step \notin Sown /\ q.step = NextTask[proc[p].step]
        /\ cut' \in {cut, cut \ {proc[p].step}} /\ seeded \subseteq seeded'
        /\ proc[p].step # "subscriber role"
    BY <1>1, <1>2, TaskOrder, UptoAre DEF Tasks
  <2>. QED  BY <1>1, <2>1, PassedLines
<1>4. AdminIsMember'
  BY <1>1 DEF AdminIsMember
<1>. QED  BY <1>1, <1>2, <1>3, <1>4, SeedingKeeps DEF BootInv, BootTypes, Tasks, Things

LEMMA SeedFailsKeeps ==
    ASSUME BootInv, NEW p \in Processes, SeedFails(p)
    PROVE  BootInv'
<1>. DEFINE q == [step |-> "serving"]
<1>1. /\ proc[p].step \in Tasks /\ cut' = cut \cup {proc[p].step} /\ proc' = [proc EXCEPT ![p] = q]
      /\ UNCHANGED <<dialect, made, recorded, seeded, defaults, foreign, boots, rollbacks, overlapped, undoing>>
  BY DEF SeedFails, EndSeeding, Goes, Schema, Seeds
<1>2. q \in Serving /\ q.step = "serving"
  BY DEF Serving
<1>3. deaths' \in 0 .. MaxDeaths
  BY BootBounds DEF BootInv, BootTypes, SeedFails
<1>. HIDE DEF q
<1>4. ASSUME NEW t \in Sown PROVE LineStep(p, q, t)
  BY <1>1, <1>2, CutLines
<1>5. AdminIsMember'
  BY <1>1 DEF BootInv, BootTypes, AdminIsMember
<1>. QED  BY <1>1, <1>2, <1>3, <1>4, <1>5, SeedingKeeps DEF BootInv, BootTypes

LEMMA StartProcessKeeps ==
    ASSUME BootInv, NEW p \in Processes, StartProcess(p)
    PROVE  BootInv'
<1>. DEFINE q == [step |-> "migrate", known |-> recorded]
<1>1. /\ proc[p] = NoProc /\ proc' = [proc EXCEPT ![p] = q]
      /\ overlapped' = (overlapped \/ UndoingNow # {})
      /\ UNCHANGED <<dialect, made, recorded, seeded, defaults, foreign, rollbacks, deaths, cut, undoing>>
  BY DEF StartProcess, Goes, Schema, Seeds
<1>2. q \in Booting /\ q.step = "migrate" /\ q.known = recorded /\ proc[p].step = "down"
  BY <1>1 DEF Booting, BootInv, BootTypes, NoProc
<1>. HIDE DEF q
<1>3. \A r \in Processes : proc'[r] = IF r = p THEN q ELSE proc[r]
  BY <1>1 DEF BootInv, BootTypes
<1>4. BootTypes'
  <2>1. boots' \in 0 .. MaxBoots /\ overlapped' \in BOOLEAN
    BY <1>1, BootBounds DEF BootInv, BootTypes, StartProcess
  <2>. QED  BY <1>1, <1>2, <2>1 DEF BootInv, BootTypes, ProcStates
<1>5. RecordedIsMade'
  BY <1>1 DEF BootInv, RecordedIsMade
<1>6. ~overlapped' => Ordered(recorded)'
  BY <1>1 DEF BootInv, Ordered
<1>7. ASSUME NEW r \in Processes PROVE KnowsOf(r)'
  <2>1. ~overlapped' => ~overlapped /\ proc[r].step \notin {"rollback", "undo"}
    BY <1>1 DEF UndoingNow
  <2>2. CASE r = p
    BY <1>1, <1>2, <1>3, <2>1, <2>2 DEF BootInv, KnowsOf, Ordered
  <2>3. CASE r # p
    BY <1>1, <1>3, <2>1, <2>3 DEF BootInv, KnowsOf, Ordered
  <2>. QED  BY <2>2, <2>3
<1>8. Whole'
  BY <1>1, <1>2, <1>3 DEF BootInv, Whole, Tasks, UndoingNow
<1>9. AdminIsMember'
  BY <1>1, <1>2, <1>3 DEF BootInv, AdminIsMember
<1>10. ASSUME NEW t \in Sown PROVE LineStep(p, q, t)
  BY <1>1, <1>2, UptoAre DEF LineStep, Sprouted, Tasks
<1>11. rollbacks' = 0 => \A t \in Sown : Line(t)'
  BY <1>1, <1>10, LineKept DEF BootInv
<1>. QED  BY <1>1, <1>4, <1>5, <1>6, <1>7, <1>8, <1>9, <1>11 DEF BootInv

LEMMA UpKeeps ==
    ASSUME BootInv, NEW p \in Processes, Up(p)
    PROVE  BootInv'
<1>. DEFINE v == Min(Pending(p))
<1>1. /\ proc[p].step = "migrate" /\ Pending(p) # {}
      /\ UNCHANGED <<dialect, seeded, defaults, foreign, boots, rollbacks, deaths, overlapped, cut>>
  BY DEF Up, Seeds, BootCounts
<1>2. proc[p] \in Booting /\ v \in Versions /\ v \notin proc[p].known
      /\ \A w \in Versions \ proc[p].known : v <= w
  BY <1>1, StepKinds, MinOfVersions DEF Pending, BootInv
<1>3. CASE /\ made' = [made EXCEPT ![v] = @ + 1] /\ made[v] < AllParts /\ dialect = "mysql"
           /\ UNCHANGED <<recorded, proc, undoing>>
  <2>1. BootTypes'
    <3>1. made' \in [Versions -> 0 .. AllParts]
      BY <1>2, <1>3 DEF BootInv, BootTypes, AllParts
    <3>. QED  BY <1>1, <1>3, <3>1 DEF BootInv, BootTypes
  <2>2. RecordedIsMade'
    BY <1>1, <1>2, <1>3 DEF BootInv, BootTypes, RecordedIsMade, AllParts
  <2>3. (~overlapped => Ordered(recorded))' /\ (\A r \in Processes : KnowsOf(r))' /\ Whole' /\ AdminIsMember'
        /\ (rollbacks = 0 => \A t \in Sown : Line(t))'
    BY <1>1, <1>3 DEF BootInv, Ordered, KnowsOf, Whole, AdminIsMember, Line, Someone, Sprouted
  <2>. QED  BY <1>1, <2>1, <2>2, <2>3 DEF BootInv
<1>4. CASE /\ v \in recorded /\ proc' = [proc EXCEPT ![p] = NoProc]
           /\ UNCHANGED <<made, recorded, undoing>>
  <2>1. \A r \in Processes : proc'[r] = IF r = p THEN NoProc ELSE proc[r]
    BY <1>4 DEF BootInv, BootTypes
  <2>2. NoProc.step = "down" /\ NoProc \in ProcStates
    BY DEF NoProc, ProcStates
  <2>3. BootTypes'
    BY <1>1, <1>4, <2>2 DEF BootInv, BootTypes
  <2>4. RecordedIsMade'
    BY <1>1, <1>4 DEF BootInv, RecordedIsMade
  <2>5. ~overlapped' => Ordered(recorded)'
    BY <1>1, <1>4 DEF BootInv, Ordered
  <2>6. ASSUME NEW r \in Processes PROVE KnowsOf(r)'
    BY <1>1, <1>4, <2>1, <2>2 DEF BootInv, KnowsOf, Ordered
  <2>7. Whole'
    BY <1>1, <1>4, <2>1, <2>2 DEF BootInv, Whole, Tasks
  <2>8. AdminIsMember'
    BY <1>1, <2>1, <2>2 DEF BootInv, AdminIsMember
  <2>9. ASSUME NEW t \in Sown PROVE LineStep(p, NoProc, t)
    BY <1>1, <2>2, UptoAre DEF LineStep, Sprouted, Tasks
  <2>10. rollbacks' = 0 => \A t \in Sown : Line(t)'
    BY <1>1, <1>4, <2>9, LineKept DEF BootInv
  <2>. QED  BY <1>1, <2>3, <2>4, <2>5, <2>6, <2>7, <2>8, <2>10 DEF BootInv
<1>5. CASE /\ v \notin recorded /\ recorded' = recorded \cup {v}
           /\ proc' = [proc EXCEPT ![p] = [proc[p] EXCEPT !.known = @ \cup {v}]]
           /\ undoing' = undoing \ {v}
           /\ \/ dialect # "mysql" /\ made' = [made EXCEPT ![v] = AllParts]
              \/ made[v] >= AllParts /\ made' = made /\ dialect = "mysql"
  <2>. DEFINE q == [proc[p] EXCEPT !.known = @ \cup {v}]
  <2>1. q \in Booting /\ q.step = "migrate" /\ q.known = proc[p].known \cup {v}
    BY <1>1, <1>2 DEF Booting
  <2>2. \A r \in Processes : proc'[r] = IF r = p THEN q ELSE proc[r]
    BY <1>5 DEF BootInv, BootTypes
  <2>. HIDE DEF q, v
  <2>3. BootTypes'
    <3>1. made' \in [Versions -> 0 .. AllParts] /\ recorded' \subseteq Versions /\ undoing' \subseteq Versions
      BY <1>2, <1>5 DEF BootInv, BootTypes, AllParts
    <3>2. proc' \in [Processes -> ProcStates]
      BY <1>5, <2>1 DEF BootInv, BootTypes, ProcStates, q
    <3>. QED  BY <1>1, <3>1, <3>2 DEF BootInv, BootTypes
  <2>4. RecordedIsMade'
    <3>1. CASE dialect # "mysql"
      BY <1>1, <1>2, <1>5, <3>1 DEF BootInv, BootTypes, RecordedIsMade
    <3>2. CASE dialect = "mysql"
      BY <1>1, <1>2, <1>5, <3>2 DEF BootInv, BootTypes, RecordedIsMade, AllParts
    <3>. QED  BY <3>1, <3>2
  <2>5. ~overlapped => Ordered(recorded') /\ Ordered(proc[p].known \cup {v}) /\ proc[p].known \subseteq recorded
    <3>. SUFFICES ASSUME ~overlapped
                  PROVE  Ordered(recorded') /\ Ordered(proc[p].known \cup {v}) /\ proc[p].known \subseteq recorded
      OBVIOUS
    <3>1. Ordered(recorded) /\ proc[p].known \subseteq recorded /\ Ordered(proc[p].known)
      BY <1>1 DEF BootInv, KnowsOf
    <3>2. 1 .. v \subseteq proc[p].known \cup {v}
      BY <1>2 DEF Versions
    <3>. QED  BY <1>5, <3>1, <3>2 DEF Ordered
  <2>6. ASSUME NEW r \in Processes PROVE KnowsOf(r)'
    <3>1. CASE r = p
      BY <1>1, <1>5, <2>1, <2>2, <2>5, <3>1 DEF KnowsOf
    <3>2. CASE r # p
      <4>1. ~overlapped => proc[r].step \notin {"rollback", "undo"}
        BY <1>1, <3>2 DEF BootInv, KnowsOf
      <4>. QED  BY <1>1, <1>5, <2>2, <3>2, <4>1 DEF BootInv, KnowsOf, Ordered
    <3>. QED  BY <3>1, <3>2
  <2>7. Whole'
    BY <1>1, <1>5, <2>1, <2>2, <2>3 DEF BootInv, BootTypes, Whole, Tasks
  <2>8. AdminIsMember'
    BY <1>1, <2>1, <2>2 DEF BootInv, AdminIsMember
  <2>9. ASSUME NEW t \in Sown PROVE LineStep(p, q, t)
    BY <1>1, <2>1, UptoAre DEF LineStep, Sprouted, Tasks
  <2>10. rollbacks' = 0 => \A t \in Sown : Line(t)'
    BY <1>1, <1>5, <2>9, LineKept DEF BootInv, q
  <2>. QED  BY <1>1, <2>3, <2>4, <2>5, <2>6, <2>7, <2>8, <2>10 DEF BootInv
<1>6. made[v] \in 0 .. AllParts
  BY <1>2 DEF BootInv, BootTypes
<1>. HIDE DEF v
<1>7. CASE dialect = "mysql"
  <2>1. MigrateInParts(p, v)
    BY <1>7 DEF Up, v
  <2>2. CASE made[v] < AllParts
    BY <1>3, <1>7, <2>1, <2>2 DEF MigrateInParts
  <2>3. CASE ~(made[v] < AllParts)
    <3>1. made' = made /\ made[v] >= AllParts /\ RecordMigration(p, v)
          /\ undoing' = IF v \in recorded THEN undoing ELSE undoing \ {v}
      BY <1>6, <2>1, <2>3 DEF MigrateInParts, AllParts
    <3>2. CASE v \in recorded
      BY <1>4, <3>1, <3>2 DEF RecordMigration, Goes
    <3>3. CASE v \notin recorded
      BY <1>5, <1>7, <3>1, <3>3 DEF RecordMigration, Goes
    <3>. QED  BY <3>2, <3>3
  <2>. QED  BY <2>2, <2>3
<1>8. CASE dialect # "mysql"
  <2>1. MigrateAtOnce(p, v)
    BY <1>8 DEF Up, v
  <2>2. CASE v \in recorded
    BY <1>4, <2>1, <2>2 DEF MigrateAtOnce, RecordMigration, Goes
  <2>3. CASE v \notin recorded
    BY <1>5, <1>8, <2>1, <2>3 DEF MigrateAtOnce, RecordMigration, Goes
  <2>. QED  BY <2>2, <2>3
<1>. QED  BY <1>7, <1>8

LEMMA BeginSeedingKeeps ==
    ASSUME BootInv, NEW p \in Processes, BeginSeeding(p)
    PROVE  BootInv'
<1>. DEFINE q == [step |-> "permissions", seen |-> {}]
<1>1. /\ proc[p].step = "migrate" /\ Versions \subseteq proc[p].known /\ proc' = [proc EXCEPT ![p] = q]
      /\ UNCHANGED <<dialect, made, recorded, seeded, defaults, foreign, boots, rollbacks, deaths, overlapped, cut, undoing>>
  BY DEF BeginSeeding, Pending, Goes, Schema, Seeds, BootCounts, bootHistory
<1>2. q \in Seeding /\ q.step = "permissions"
  BY DEF Seeding, Tasks
<1>. HIDE DEF q
<1>3. \A r \in Processes : proc'[r] = IF r = p THEN q ELSE proc[r]
  BY <1>1 DEF BootInv, BootTypes
<1>4. BootTypes'
  BY <1>1, <1>2 DEF BootInv, BootTypes, ProcStates
<1>5. RecordedIsMade' /\ (~overlapped => Ordered(recorded))'
  BY <1>1 DEF BootInv, RecordedIsMade, Ordered
<1>6. ASSUME NEW r \in Processes PROVE KnowsOf(r)'
  <2>1. CASE r = p
    BY <1>2, <1>3, <2>1 DEF KnowsOf
  <2>2. CASE r # p
    <3>1. ~overlapped => proc[r].step \notin {"rollback", "undo"}
      BY <1>1, <2>2 DEF BootInv, KnowsOf
    <3>. QED  BY <1>1, <1>3, <2>2, <3>1 DEF BootInv, KnowsOf, Ordered
  <2>. QED  BY <2>1, <2>2
<1>7. Whole'
  <2>1. rollbacks = 0 => recorded = Versions
    BY <1>1 DEF BootInv, BootTypes, Whole, KnowsOf
  <2>. QED  BY <1>1, <1>2, <1>3, <2>1 DEF BootInv, Whole
<1>8. AdminIsMember'
  BY <1>1, <1>2, <1>3 DEF BootInv, AdminIsMember
<1>9. ASSUME NEW t \in Sown PROVE LineStep(p, q, t)
  BY <1>2, UptoAre DEF LineStep
<1>10. rollbacks' = 0 => \A t \in Sown : Line(t)'
  BY <1>1, <1>9, LineKept DEF BootInv
<1>. QED  BY <1>1, <1>4, <1>5, <1>6, <1>7, <1>8, <1>10 DEF BootInv

LEMMA ServeTenantsKeeps ==
    ASSUME BootInv, ServeTenants
    PROVE  BootInv'
<1>1. UNCHANGED <<dialect, made, recorded, seeded, defaults, proc, boots, rollbacks, deaths, overlapped, cut, undoing>>
      /\ foreign' = TRUE
  BY DEF ServeTenants, Schema, BootCounts, bootHistory
<1>. QED  BY <1>1 DEF BootInv, BootTypes, RecordedIsMade, Ordered, KnowsOf, Whole, AdminIsMember, Line, Someone, Sprouted

LEMMA StartRollbackKeeps ==
    ASSUME BootInv, NEW p \in Processes, NEW steps \in Versions, StartRollback(p, steps)
    PROVE  BootInv'
<1>. DEFINE q == [step |-> "rollback", known |-> recorded, left |-> steps]
<1>1. /\ proc[p] = NoProc /\ proc' = [proc EXCEPT ![p] = q] /\ rollbacks' = rollbacks + 1
      /\ overlapped' = (overlapped \/ AtWorkBeside(p) # {})
      /\ UNCHANGED <<dialect, made, recorded, seeded, defaults, foreign, boots, deaths, cut, undoing>>
  BY DEF StartRollback, Goes, Schema, Seeds
<1>2. rollbacks' \in 0 .. MaxRollbacks /\ rollbacks' # 0 /\ overlapped' \in BOOLEAN
  BY <1>1, BootBounds DEF BootInv, BootTypes, StartRollback
<1>3. Max(Versions) = 3
  BY MaxOfVersions DEF Versions
<1>4. q \in Undoing /\ q.step = "rollback" /\ q.known = recorded /\ proc[p].step = "down"
  BY <1>1, <1>3 DEF Undoing, BootInv, BootTypes, NoProc, Versions
<1>. HIDE DEF q
<1>5. \A r \in Processes : proc'[r] = IF r = p THEN q ELSE proc[r]
  BY <1>1 DEF BootInv, BootTypes
<1>6. BootTypes'
  BY <1>1, <1>2, <1>4 DEF BootInv, BootTypes, ProcStates
<1>7. RecordedIsMade' /\ (~overlapped' => Ordered(recorded)')
  BY <1>1 DEF BootInv, RecordedIsMade, Ordered
<1>8. ASSUME NEW r \in Processes PROVE KnowsOf(r)'
  <2>1. ~overlapped' => ~overlapped /\ \A x \in Processes \ {p} : proc[x].step \in {"down", "serving"}
    BY <1>1 DEF AtWorkBeside
  <2>2. CASE r = p
    BY <1>1, <1>4, <1>5, <2>1, <2>2 DEF KnowsOf
  <2>3. CASE r # p
    BY <1>1, <1>5, <2>1, <2>3 DEF BootInv, KnowsOf
  <2>. QED  BY <2>2, <2>3
<1>9. AdminIsMember'
  BY <1>1, <1>4, <1>5 DEF BootInv, AdminIsMember
<1>. QED  BY <1>1, <1>2, <1>6, <1>7, <1>8, <1>9 DEF BootInv, Whole

(* A rollback is under way: nothing is said any more of what was never undone. *)
LEMMA PreflightKeeps ==
    ASSUME BootInv, NEW p \in Processes, Preflight(p)
    PROVE  BootInv'
<1>1. /\ proc[p].step = "rollback"
      /\ UNCHANGED <<dialect, made, recorded, seeded, defaults, foreign, boots, rollbacks, deaths, overlapped, cut, undoing>>
  BY DEF Preflight, Schema, Seeds, BootCounts, bootHistory
<1>2. proc[p] \in Undoing /\ rollbacks # 0
  BY <1>1, StepKinds DEF BootInv, Whole
<1>3. PICK q \in {NoProc} \cup Undoing :
        /\ proc' = [proc EXCEPT ![p] = q] /\ q.step \in {"down", "undo"}
        /\ q.step = "undo" => q.known = proc[p].known /\ q.known # {} /\ q.left > 0
  <2>1. CASE proc[p].known = {} \/ proc[p].left = 0 \/ Refused(Newest(p))
    BY <2>1 DEF Preflight, Goes, NoProc
  <2>2. CASE ~(proc[p].known = {} \/ proc[p].left = 0 \/ Refused(Newest(p)))
    <3>. DEFINE q == [proc[p] EXCEPT !.step = "undo"]
    <3>1. q \in Undoing /\ q.step = "undo" /\ q.known = proc[p].known /\ q.left = proc[p].left
      BY <1>2 DEF Undoing
    <3>2. proc[p].left \in 0 .. 3
      BY <1>2, MaxOfVersions DEF Undoing, Versions
    <3>3. proc' = [proc EXCEPT ![p] = q]
      BY <2>2 DEF Preflight, Goes
    <3>4. q.known # {} /\ q.left > 0
      BY <2>2, <3>1, <3>2
    <3>. HIDE DEF q
    <3>. QED  BY <3>1, <3>3, <3>4
  <2>. QED  BY <2>1, <2>2
<1>4. \A r \in Processes : proc'[r] = IF r = p THEN q ELSE proc[r]
  BY <1>3 DEF BootInv, BootTypes
<1>5. BootTypes'
  BY <1>1, <1>3 DEF BootInv, BootTypes, ProcStates
<1>6. RecordedIsMade' /\ (~overlapped => Ordered(recorded))'
  BY <1>1 DEF BootInv, RecordedIsMade, Ordered
<1>7. ASSUME NEW r \in Processes PROVE KnowsOf(r)'
  <2>1. CASE r = p
    BY <1>1, <1>3, <1>4, <2>1 DEF BootInv, KnowsOf
  <2>2. CASE r # p
    BY <1>1, <1>3, <1>4, <2>2 DEF BootInv, KnowsOf, Ordered
  <2>. QED  BY <2>1, <2>2
<1>8. AdminIsMember'
  BY <1>1, <1>3, <1>4 DEF BootInv, AdminIsMember
<1>. QED  BY <1>1, <1>2, <1>5, <1>6, <1>7, <1>8 DEF BootInv, Whole

LEMMA DownKeeps ==
    ASSUME BootInv, NEW p \in Processes, Down(p)
    PROVE  BootInv'
<1>. DEFINE v == Newest(p)
            q == [proc[p] EXCEPT !.step = "rollback", !.known = @ \ {v}, !.left = @ - 1]
<1>1. /\ proc[p].step = "undo"
      /\ UNCHANGED <<dialect, boots, rollbacks, deaths, overlapped, cut>>
  BY DEF Down, BootCounts
<1>2. proc[p] \in Undoing /\ rollbacks # 0 /\ proc[p].left > 0 /\ proc[p].known # {}
  BY <1>1, StepKinds DEF BootInv, Whole, KnowsOf
<1>3. v \in proc[p].known /\ v \in Versions /\ \A w \in proc[p].known : w <= v
  BY <1>2, MaxOfVersions DEF Newest, Undoing
<1>4. q \in Undoing /\ q.step = "rollback" /\ q.known = proc[p].known \ {v}
  <2>1. proc[p].left - 1 \in 0 .. Max(Versions)
    <3>1. Max(Versions) = 3 /\ proc[p].left \in 0 .. Max(Versions)
      BY <1>2, MaxOfVersions DEF Undoing, Versions
    <3>. QED  BY <1>2, <3>1
  <2>. QED  BY <1>2, <2>1 DEF Undoing
<1>5. /\ \/ /\ dialect = "mysql" /\ made[v] > 0 /\ made' = [made EXCEPT ![v] = @ - 1] /\ DropData(v)
            /\ undoing' = undoing \cup {v} /\ recorded' = recorded /\ proc' = proc
         \/ /\ dialect = "mysql" /\ Forget(p, v) /\ made' = made
            /\ UNCHANGED <<seeded, defaults, foreign>>
         \/ /\ dialect # "mysql" /\ made' = [made EXCEPT ![v] = 0] /\ DropData(v) /\ Forget(p, v)
  BY DEF Down
<1>6. Forget(p, v) => recorded' = recorded \ {v} /\ undoing' = undoing \ {v} /\ proc' = [proc EXCEPT ![p] = q]
  BY DEF Forget, Goes
<1>. HIDE DEF v, q
<1>7. (seeded' = seeded /\ defaults' = defaults) \/ (seeded' = {} /\ defaults' = {})
  BY <1>5 DEF DropData
<1>8. foreign' \in BOOLEAN
  BY <1>5 DEF DropData, BootInv, BootTypes
<1>9. BootTypes'
  <2>1. made' \in [Versions -> 0 .. AllParts]
    BY <1>3, <1>5 DEF BootInv, BootTypes, AllParts
  <2>2. recorded' \subseteq Versions /\ undoing' \subseteq Versions
    BY <1>3, <1>5, <1>6 DEF BootInv, BootTypes
  <2>3. proc' \in [Processes -> ProcStates]
    BY <1>4, <1>5, <1>6 DEF BootInv, BootTypes, ProcStates
  <2>. QED  BY <1>1, <1>7, <1>8, <2>1, <2>2, <2>3 DEF BootInv, BootTypes
<1>10. RecordedIsMade'
  <2>1. CASE dialect = "mysql"
    BY <1>1, <1>3, <1>5, <1>6, <2>1 DEF BootInv, BootTypes, RecordedIsMade
  <2>2. CASE dialect # "mysql"
    BY <1>1, <1>3, <1>5, <1>6, <2>2 DEF BootInv, BootTypes, RecordedIsMade, AllParts
  <2>. QED  BY <2>1, <2>2
<1>11. CASE proc' = proc /\ recorded' = recorded
  <2>1. (~overlapped => Ordered(recorded))' /\ \A r \in Processes : KnowsOf(r)'
    BY <1>1, <1>11 DEF BootInv, Ordered, KnowsOf
  <2>2. AdminIsMember'
    BY <1>1, <1>7, <1>11 DEF BootInv, AdminIsMember
  <2>. QED  BY <1>1, <1>2, <1>7, <1>9, <1>10, <2>1, <2>2 DEF BootInv, Whole
<1>12. CASE proc' = [proc EXCEPT ![p] = q] /\ recorded' = recorded \ {v}
  <2>1. \A r \in Processes : proc'[r] = IF r = p THEN q ELSE proc[r]
    BY <1>12 DEF BootInv, BootTypes
  <2>2. ~overlapped => /\ Ordered(recorded) /\ proc[p].known = recorded
                       /\ \A r \in Processes \ {p} : proc[r].step \in {"down", "serving"}
    BY <1>1 DEF BootInv, KnowsOf
  <2>3. ~overlapped => Ordered(recorded')
    BY <1>3, <1>12, <2>2 DEF Ordered, BootInv, BootTypes, Versions
  <2>4. ASSUME NEW r \in Processes PROVE KnowsOf(r)'
    <3>1. CASE r = p
      BY <1>1, <1>4, <1>12, <2>1, <2>2, <3>1 DEF KnowsOf
    <3>2. CASE r # p
      BY <1>1, <2>1, <2>2, <3>2 DEF BootInv, KnowsOf
    <3>. QED  BY <3>1, <3>2
  <2>5. AdminIsMember'
    BY <1>1, <1>4, <1>7, <2>1 DEF BootInv, AdminIsMember
  <2>. QED  BY <1>1, <1>2, <1>7, <1>9, <1>10, <2>3, <2>4, <2>5 DEF BootInv, Whole
<1>. QED  BY <1>5, <1>6, <1>11, <1>12

LEMMA ProcessDiesKeeps ==
    ASSUME BootInv, NEW p \in Processes, ProcessDies(p)
    PROVE  BootInv'
<1>1. /\ proc' = [proc EXCEPT ![p] = NoProc]
      /\ cut' = IF proc[p].step \in Tasks THEN cut \cup {proc[p].step} ELSE cut
      /\ UNCHANGED <<dialect, made, recorded, seeded, defaults, foreign, boots, rollbacks, overlapped, undoing>>
  BY DEF ProcessDies, Goes, Schema, Seeds
<1>2. NoProc \in ProcStates /\ NoProc.step = "down"
  BY DEF ProcStates, NoProc
<1>3. deaths' \in 0 .. MaxDeaths
  BY BootBounds DEF BootInv, BootTypes, ProcessDies
<1>4. \A r \in Processes : proc'[r] = IF r = p THEN NoProc ELSE proc[r]
  BY <1>1 DEF BootInv, BootTypes
<1>5. BootTypes'
  BY <1>1, <1>2, <1>3 DEF BootInv, BootTypes
<1>6. RecordedIsMade' /\ (~overlapped => Ordered(recorded))'
  BY <1>1 DEF BootInv, RecordedIsMade, Ordered
<1>7. ASSUME NEW r \in Processes PROVE KnowsOf(r)'
  BY <1>1, <1>2, <1>4 DEF BootInv, KnowsOf, Ordered
<1>8. Whole'
  BY <1>1, <1>2, <1>4 DEF BootInv, Whole, Tasks
<1>9. AdminIsMember'
  BY <1>1, <1>2, <1>4 DEF BootInv, AdminIsMember, Tasks
<1>10. ASSUME NEW t \in Sown PROVE LineStep(p, NoProc, t)
  <2>1. CASE proc[p].step \in Tasks
    BY <1>1, <1>2, <2>1, CutLines
  <2>2. CASE proc[p].step \notin Tasks
    BY <1>1, <1>2, <2>2, UptoAre DEF LineStep, Sprouted, Tasks
  <2>. QED  BY <2>1, <2>2
<1>11. rollbacks' = 0 => \A t \in Sown : Line(t)'
  BY <1>1, <1>10, LineKept DEF BootInv
<1>. QED  BY <1>1, <1>5, <1>6, <1>7, <1>8, <1>9, <1>11 DEF BootInv

LEMMA BootBegins == BootInit => BootInv
<1>. SUFFICES ASSUME BootInit PROVE BootInv
  OBVIOUS
<1>. USE DEF BootInit
<1>1. NoProc \in ProcStates /\ NoProc.step = "down"
  BY DEF ProcStates, NoProc
<1>2. BootTypes
  <2>1. made \in [Versions -> 0 .. AllParts] /\ proc \in [Processes -> ProcStates]
    BY <1>1 DEF AllParts
  <2>2. boots \in 0 .. MaxBoots /\ rollbacks \in 0 .. MaxRollbacks /\ deaths \in 0 .. MaxDeaths
    BY BootBounds
  <2>. QED  BY <2>1, <2>2 DEF BootTypes
<1>3. RecordedIsMade /\ (~overlapped => Ordered(recorded))
  BY DEF RecordedIsMade, Ordered
<1>4. \A p \in Processes : KnowsOf(p)
  BY <1>1 DEF KnowsOf
<1>5. Whole /\ AdminIsMember
  BY <1>1 DEF Whole, AdminIsMember, Tasks
<1>6. \A t \in Sown : Line(t)
  BY <1>1 DEF Line, Someone, Tasks
<1>. QED  BY <1>2, <1>3, <1>4, <1>5, <1>6 DEF BootInv

LEMMA BootGoesOn == BootInv /\ (BootNext \/ UNCHANGED bootVars) => BootInv'
<1>1. CASE BootInv /\ UNCHANGED bootVars
  BY <1>1 DEF bootVars, bootHistory, BootInv, BootTypes, RecordedIsMade, Ordered, KnowsOf, Whole, AdminIsMember,
     Line, Someone, Sprouted
<1>2. CASE BootInv /\ BootNext
  BY <1>2, ServeTenantsKeeps, StartProcessKeeps, UpKeeps, BeginSeedingKeeps, LookForSeedKeeps,
     InsertSeedKeeps, SkipSeedKeeps, ClearDefaultsKeeps, SyncRoleKeeps, CreateMembershipKeeps,
     SeedFailsKeeps, StartRollbackKeeps, PreflightKeeps, DownKeeps, ProcessDiesKeeps DEF BootNext
<1>. QED  BY <1>1, <1>2

LEMMA BootImplies == BootInv => BootTypeOK /\ BootHolds
<1>. SUFFICES ASSUME BootInv PROVE BootTypeOK /\ BootHolds
  OBVIOUS
<1>1. BootTypeOK
  BY DEF BootInv, BootTypes, BootTypeOK, ProcStates, Builtin
<1>2. ServedIsWhole
  BY DEF BootInv, Whole, ServedIsWhole
<1>3. InOrder
  BY DEF BootInv, Ordered, InOrder
<1>4. SeedsConverge
  <2>. SUFFICES ASSUME rollbacks = 0, cut = {}, NEW p \in Processes, proc[p].step = "serving",
                       \A r \in Processes : proc[r].step \notin Tasks
                PROVE  defaults = {"subscriber"} /\ seeded = Things
    BY DEF SeedsConverge
  <2>1. ASSUME NEW t \in Sown PROVE Sprouted(t)
    <3>1. Line(t) /\ Upto[t] \subseteq Tasks
      BY UptoAre DEF BootInv, Tasks
    <3>. QED  BY <3>1 DEF Line, Someone
  <2>2. Sown \subseteq seeded /\ defaults = {"subscriber"}
    BY <2>1, UptoAre DEF Sprouted
  <2>3. "membership" \in seeded
    BY <2>2, UptoAre DEF BootInv, AdminIsMember, Tasks
  <2>. QED  BY <2>2, <2>3 DEF Sown, BootInv, BootTypes
<1>. QED  BY <1>1, <1>2, <1>3, <1>4 DEF BootHolds, BootInv

(***************************************************************************)
(* The two of them, whichever is at work.                                  *)
(***************************************************************************)

LEMMA StartBegins == Init => LifeInv /\ BootInv
BY LifeBegins, BootBegins DEF Init

LEMMA StartGoesOn == (LifeInv /\ BootInv) /\ [Next]_partVars => (LifeInv /\ BootInv)'
<1>. SUFFICES ASSUME LifeInv, BootInv, [Next]_partVars PROVE LifeInv' /\ BootInv'
  OBVIOUS
<1>1. LifeNext \/ UNCHANGED lifeVars
  BY DEF Next, SiteNext, RuntimeNext, partVars, runtimeVars
<1>2. BootNext \/ UNCHANGED bootVars
  BY DEF Next, SiteNext, RuntimeNext, partVars, runtimeVars
<1>. QED  BY <1>1, <1>2, LifeGoesOn, BootGoesOn

(* A recorded migration is made, but for what a rollback of it undid; before   *)
(* any rollback a process seeds or serves only under the whole schema; the      *)
(* record is in order while no rollback ran beside another process; when all    *)
(* have seeded, everything is there with one default role, unless a step was    *)
(* cut short.  A graceful exit cuts only the sweep and what it waited for in    *)
(* vain, and leaves no lock but one it owed; of servers with Redis one at most  *)
(* runs a job; a shared logout holds on all that reach Redis; nothing from      *)
(* before a restore is read after it but what was filled in late; servers start *)
(* only as configured (database/migrations, database/seeds, cmd/server/main.go). *)
THEOREM StartAlwaysHolds == Spec => []StartHolds
<1>1. LifeInv /\ BootInv => StartHolds
  BY LifeImplies, BootImplies DEF StartHolds
<1>. QED  BY StartBegins, StartGoesOn, <1>1, PTL DEF Spec
==================================================================================
