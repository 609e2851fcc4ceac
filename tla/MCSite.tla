-------------------------------- MODULE MCSite --------------------------------
(* The models of the site's furniture and of the running server side by      *)
(* side, one of them at work, the others at rest in their initial states.    *)
EXTENDS SiteSettings, SiteMenus, CommentThreads, SiteInsights, Extensions, RateLimits,
        CacheDrivers, Bootstrap, ContentReaders, AccessRules, ServerLifecycle,
        RequestTrail, ArticleRevisions

VARIABLE part

siteVars    == <<settingVars, menuVars, commentVars, insightVars, readerVars, revisionVars>>
runtimeVars == <<extensionVars, limitVars, cacheVars, bootVars, accessVars, lifeVars,
                 requestVars>>

partVars == <<part, siteVars, runtimeVars>>

(* What roles, the token and requests deal with: an alias that stands for      *)
(* several permissions, one of the platform, a slug nobody knows.            *)
HeldByRoles ==
    {{<<"articles", "read">>, <<"articles", "publish">>}, {<<"articles", "manage">>},
     {<<"users", "view">>, <<"articles", "publish">>}}
HeldByTokens == {{<<"articles", "publish">>, <<"no", "such">>}, {Wildcard}}
Demanded     == {<<"articles", "publish">>, <<"users", "read">>, <<"articles", "read">>}

(* A production server as it should be, one without a secret and one whose     *)
(* secret is a placeholder.                                                   *)
Hardened    == [mode |-> "release", secret |-> "good", credentials |-> "good"]
Environments ==
    {Hardened, [mode |-> "debug", secret |-> "none", credentials |-> "none"],
     [Hardened EXCEPT !.secret = "weak"]}

Rested == rows.seat = "member" /\ rows.token = {Wildcard} /\ Cardinality(meant) = 2
          /\ rows.grants["custom"] \subseteq Definitions

(* The models that rest begin in one state.                                   *)
Init ==
    /\ part \in {"settings", "menus", "comments", "insights", "readers", "revisions",
                 "extensions", "limits", "caches", "boot", "access", "life", "requests"}
    /\ SettingsInit /\ MenusInit /\ CommentsInit /\ InsightsInit /\ ReadersInit /\ RevisionsInit
    /\ ExtensionsInit /\ LimitsInit /\ CacheInit /\ BootInit /\ AccessInit /\ LifeInit
    /\ RequestsInit
    /\ part # "revisions" => story[1].author \in Privileged
    /\ part # "insights" \/ stamped => zone = "utc"
    /\ part # "insights" => ~stamped
    /\ part # "settings" => settingStore = "postgres"
    /\ part # "caches" => backend = "memory"
    /\ part # "boot" => dialect = "transactional"
    /\ part # "access" => Rested
    /\ part # "life" => scene = "jobs" /\ deployment = Hardened

SiteNext ==
    \/ part = "settings" /\ SettingsNext
       /\ UNCHANGED <<menuVars, commentVars, insightVars, readerVars, revisionVars>>
    \/ part = "menus" /\ MenusNext
       /\ UNCHANGED <<settingVars, commentVars, insightVars, readerVars, revisionVars>>
    \/ part = "comments" /\ CommentsNext
       /\ UNCHANGED <<settingVars, menuVars, insightVars, readerVars, revisionVars>>
    \/ part = "insights" /\ InsightsNext
       /\ UNCHANGED <<settingVars, menuVars, commentVars, readerVars, revisionVars>>
    \/ part = "readers" /\ ReadersNext
       /\ UNCHANGED <<settingVars, menuVars, commentVars, insightVars, revisionVars>>
    \/ part = "revisions" /\ RevisionsNext
       /\ UNCHANGED <<settingVars, menuVars, commentVars, insightVars, readerVars>>

RuntimeNext ==
    \/ part = "extensions" /\ ExtensionsNext
       /\ UNCHANGED <<limitVars, cacheVars, bootVars, accessVars, lifeVars, requestVars>>
    \/ part = "limits" /\ LimitsNext
       /\ UNCHANGED <<extensionVars, cacheVars, bootVars, accessVars, lifeVars, requestVars>>
    \/ part = "caches" /\ CacheNext
       /\ UNCHANGED <<extensionVars, limitVars, bootVars, accessVars, lifeVars, requestVars>>
    \/ part = "boot" /\ BootNext
       /\ UNCHANGED <<extensionVars, limitVars, cacheVars, accessVars, lifeVars, requestVars>>
    \/ part = "access" /\ AccessNext
       /\ UNCHANGED <<extensionVars, limitVars, cacheVars, bootVars, lifeVars, requestVars>>
    \/ part = "life" /\ LifeNext
       /\ UNCHANGED <<extensionVars, limitVars, cacheVars, bootVars, accessVars, requestVars>>
    \/ part = "requests" /\ RequestsNext
       /\ UNCHANGED <<extensionVars, limitVars, cacheVars, bootVars, accessVars, lifeVars>>

Next ==
    \/ SiteNext /\ UNCHANGED <<part, runtimeVars>>
    \/ RuntimeNext /\ UNCHANGED <<part, siteVars>>

Spec == Init /\ [][Next]_partVars

(* Settings, menus, comments and the numbers of the dashboard are what they   *)
(* were made to be, all that shows an article shows the same one, and its      *)
(* history is true.                                                            *)
SiteHolds ==
    /\ part = "settings" => SettingsTypeOK /\ SettingsHold
    /\ part = "menus" => MenusTypeOK /\ MenusHold
    /\ part = "comments" => CommentsTypeOK /\ CommentsHold
    /\ part = "insights" => InsightsTypeOK /\ InsightsHold
    /\ part = "readers" => ReadersTypeOK /\ ReadersHold
    /\ part = "revisions" => RevisionsTypeOK /\ RevisionsHold

(* Plugins and themes, rate limits and cache entries are what the processes   *)
(* at work have left; requests are admitted by rows that allow them, and leave *)
(* their traces in the log and in the metrics.                                *)
RuntimeHolds ==
    /\ part = "extensions" => ExtensionsTypeOK /\ ExtensionsHold
    /\ part = "limits" => LimitsTypeOK /\ LimitsHold
    /\ part = "caches" => CacheTypeOK /\ CacheHolds
    /\ part = "access" => AccessTypeOK /\ AccessHold
    /\ part = "requests" => RequestsTypeOK /\ RequestsHold

(* Migrations, seeds and the first administrator are whole whenever a server  *)
(* takes requests; servers start as configured, share what they agreed to      *)
(* share, and end in order.                                                   *)
StartHolds ==
    /\ part = "boot" => BootTypeOK /\ BootHolds
    /\ part = "life" => LifeTypeOK /\ LifeHolds

Symmetric == Permutations(Posters)
=================================================================================
