------------------------------ MODULE AccessRules ------------------------------
(***************************************************************************)
(* Who may do what: the registry of permissions, the aliases of older        *)
(* releases, the two ceilings over a tenant's resources (the user's global   *)
(* role and his seat in the tenant), the routes and tools with what they ask *)
(* for.  A request reads the rows it is judged by one after the other, while *)
(* administrators change them and a process that starts brings the stored    *)
(* permissions up to the registry.                                           *)
(*                                                                          *)
(* A slug is a pair of a module and an action.  The replacement of a role's  *)
(* permissions by its editor is one step here; its statements are in          *)
(* UserRoles, the rows of the roles in Bootstrap.                            *)
(***************************************************************************)
EXTENDS Integers, FiniteSets

CONSTANTS
    RoleSets,     \* what roles hold before the start, or are given
    TokenSets,    \* what the API token was made with
    Demands,      \* the permissions that requests need
    MaxMoves,     \* bound: changes by administrators
    MaxRuns       \* bound: requests and starts of a process, together

ASSUME AccessBounds == {MaxMoves, MaxRuns} \subseteq Nat

VARIABLES
    rows,     \* the database, as far as requests are judged by it
    sync,     \* the start of a process: step, aliases to do, roles to append to
    visit,    \* the request being judged
    moves, runs,
    meant,    \* history: what the custom role was last meant to hold
    mixed     \* history: it was edited while a start had listed it

accessVars == <<rows, sync, visit, moves, runs, meant, mixed>>

---------------------------------------------------------------------------------
(* The registry.                                                             *)

On(modules, actions) == modules \X actions

Wildcard == <<"*", "*">>

Definitions ==
    On({"articles"}, {"read", "create", "update", "delete", "update_all", "delete_all", "publish"})
    \cup On({"comments"}, {"read", "create", "update", "delete", "update_all", "delete_all", "moderate"})
    \cup On({"media"}, {"read", "upload", "update", "delete"})
    \cup On({"categories", "tags", "menus", "users", "roles", "content_types"},
            {"read", "create", "update", "delete"})
    \cup On({"settings", "seo", "plugins", "themes"}, {"read", "update"})
    \cup On({"analytics"}, {"read"}) \cup On({"system"}, {"read", "activity_log"})
    \cup On({"content"}, {"read", "create", "update", "delete", "publish"})
    \cup On({"api_tokens", "webhooks"}, {"read", "create", "delete"})
    \cup On({"backups"}, {"read", "create", "restore", "delete"})
    \cup On({"tenants"}, {"read", "manage"}) \cup On({"ai"}, {"read", "ask", "admin"})

IsCanonical(slug) == slug \in Definitions

moduleManagePermissions(module) ==
    On({module}, {"read", IF module = "media" THEN "upload" ELSE "create", "update", "delete"})

(* The canonical slugs an alias stands for; none for an unknown slug.        *)
Canonicalize(slug) ==
    LET module == slug[1]
        alias  == slug[2]
    IN  IF slug = Wildcard \/ IsCanonical(slug) THEN {slug}
        ELSE Definitions \cap
                CASE alias = "view"     -> {<<module, "read">>}
                  [] alias = "edit"     -> {<<module, "update">>}
                  [] alias = "edit_all" -> {<<module, "update_all">>}
                  [] alias = "manage"   -> moduleManagePermissions(module)
                  [] OTHER              -> {}

CanonicalizeList(slugs) == UNION {Canonicalize(s) : s \in slugs}
Valid(slugs)            == \A s \in slugs : Canonicalize(s) # {}

Grants(slugs, want) == Wildcard \in slugs \/ want \in CanonicalizeList(slugs)

EditorRole ==
    On({"articles"}, {"read", "create", "update", "delete", "update_all", "delete_all", "publish"})
    \cup On({"comments"}, {"read", "create", "update", "delete", "update_all", "delete_all", "moderate"})
    \cup On({"media"}, {"read", "upload", "update", "delete"})
    \cup On({"categories", "tags"}, {"read", "create", "update", "delete"})
    \cup On({"ai"}, {"read", "ask"})

AuthorRole ==
    On({"articles"}, {"read", "create", "update", "delete"})
    \cup On({"comments"}, {"read", "create"}) \cup On({"media"}, {"read", "upload"})
    \cup On({"categories", "tags", "ai"}, {"read"})

---------------------------------------------------------------------------------
(* The platform and the tenants.                                             *)

PlatformPermissions ==
    On({"users", "roles"}, {"read", "create", "update", "delete"})
    \cup On({"plugins", "themes"}, {"read", "update"}) \cup {<<"system", "read">>}
    \cup On({"backups"}, {"read", "create", "restore", "delete"})
    \cup On({"tenants"}, {"read", "manage"})

TenantModules ==
    {"articles", "comments", "media", "categories", "tags", "menus", "settings", "analytics",
     "seo", "content", "content_types", "api_tokens", "webhooks", "ai"}

IsPlatformPermission(slug) == IsCanonical(slug) /\ slug \in PlatformPermissions
IsTenantPermission(slug) ==
    IsCanonical(slug) /\ (slug = <<"system", "activity_log">> \/ slug[1] \in TenantModules)

(* The seats of a tenant: the three of this release, two that migration 8     *)
(* copied from the roles of an older one, and one nobody knows.              *)
Seats == {"admin", "editor", "member", "author", "subscriber", "unknown"}
NormalizeTenantRole(seat) == IF seat \in {"author", "subscriber"} THEN "member" ELSE seat
KnownSeat(seat) == NormalizeTenantRole(seat) \in {"admin", "editor", "member"}

TenantRoleGrants(seat, want) ==
    /\ KnownSeat(seat) /\ IsTenantPermission(want)
    /\ CASE NormalizeTenantRole(seat) = "admin"  -> TRUE
         [] NormalizeTenantRole(seat) = "editor" -> Grants(EditorRole, want)
         [] NormalizeTenantRole(seat) = "member" -> Grants(AuthorRole, want)

---------------------------------------------------------------------------------
(* What routes and tools ask for.                                            *)

ArticleRoutes ==
    On({"articles"}, {"read", "create", "update", "delete", "publish", "delete_all", "update_all"})
EditorialRoutes ==
    On({"categories", "tags"}, {"read", "create", "update", "delete"})
    \cup On({"comments"}, {"read", "create", "update", "moderate"})
    \cup On({"media"}, {"read", "upload", "update", "delete"})
SiteRoutes ==
    On({"settings", "seo"}, {"read", "update"}) \cup On({"analytics"}, {"read"})
    \cup On({"menus"}, {"read", "create", "update", "delete"})
ContentRoutes ==
    {<<"system", "activity_log">>} \cup On({"api_tokens", "webhooks"}, {"read", "create", "delete"})
    \cup On({"content_types"}, {"read", "create", "delete"})
    \cup On({"content"}, {"read", "create", "update", "delete", "publish"})
    \cup On({"ai"}, {"read", "ask", "admin"})
ToolWants ==
    On({"articles"}, {"read", "create", "update", "update_all", "publish"})
    \cup {<<"content_types", "read">>, <<"ai", "read">>, <<"ai", "ask">>}
PlatformRoutes ==
    On({"users", "roles"}, {"read", "create", "update", "delete"})
    \cup On({"plugins", "themes"}, {"read", "update"}) \cup {<<"system", "read">>}
PlatformAdminRoutes ==
    On({"backups"}, {"read", "create", "restore", "delete"}) \cup On({"tenants"}, {"read", "manage"})

TenantRoutes == ArticleRoutes \cup EditorialRoutes \cup SiteRoutes \cup ContentRoutes

Requests ==
    {q \in [guard : {"tenant", "token", "platform", "admin"}, want : Demands] :
        CASE q.guard = "tenant"   -> q.want \in TenantRoutes
          [] q.guard = "token"    -> q.want \in ToolWants
          [] q.guard = "platform" -> q.want \in PlatformRoutes \cup PlatformAdminRoutes
          [] q.guard = "admin"    -> TRUE}

---------------------------------------------------------------------------------
(* Judging: s holds what the request has read.                               *)

Has(s, want) == s.role = "admin" \/ Grants(s.grants, want)

HasTenantPermission(s, want) ==
    /\ IsTenantPermission(want) /\ Has(s, want)
    /\ s.role = "admin" \/ TenantRoleGrants(s.seat, want)

(* TenantGuard: an open tenant, and a known seat for whoever is no admin.     *)
setTenantContext(s) == s.open /\ (s.role = "admin" \/ KnownSeat(s.seat))

EffectiveForTenant(s) ==
    LET canonical  == CanonicalizeList(s.token)
        candidates == IF Wildcard \in canonical THEN Definitions ELSE canonical
    IN  {p \in candidates : IsTenantPermission(p) /\ Has(s, p) /\ TenantRoleGrants(s.seat, p)}

(* TokenService.Resolve: the principal is refused as a whole when his seat or *)
(* one of the token's slugs is unknown.                                      *)
Resolves(s) == s.open /\ KnownSeat(s.seat) /\ Valid(s.token)

Permits(q, s) ==
    /\ s.active
    /\ CASE q.guard = "tenant"   -> setTenantContext(s) /\ HasTenantPermission(s, q.want)
         [] q.guard = "platform" -> IsPlatformPermission(q.want) /\ Has(s, q.want)
         [] q.guard = "admin"    -> s.role = "admin"
         [] q.guard = "token"    -> Resolves(s) /\ Grants(EffectiveForTenant(s), q.want)

---------------------------------------------------------------------------------
Roles == {"admin", "editor", "custom"}

(* The rows as one read of them all at once would find them.                  *)
Now(r) == [role |-> r.role, active |-> r.active, grants |-> r.grants[r.role], open |-> r.open,
           seat |-> r.seat, token |-> r.token]

Unread == [role |-> "custom", active |-> FALSE, grants |-> {}, open |-> FALSE, seat |-> "none",
           token |-> {}]

NoVisit == [step |-> "none"]
NoSync  == [step |-> "none", aliases |-> {}, roles |-> {}, token |-> {}]

(* The permissions of "admin" are in no judgement.                            *)
AccessTypeOK ==
    /\ rows.role \in Roles /\ rows.active \in BOOLEAN /\ rows.open \in BOOLEAN
    /\ rows.seat \in Seats \cup {"none"} /\ DOMAIN rows.grants = Roles
    /\ \A r \in Roles : rows.grants[r] \subseteq Definitions \cup UNION RoleSets
    /\ rows.token \subseteq Definitions \cup UNION TokenSets
    /\ sync.step \in {"none", "aliases", "append", "matrix", "trim", "tokens", "write"}
    /\ sync.roles \subseteq Roles
    /\ visit.step \in {"none", "token", "user", "grants", "tenant", "seat", "judge", "answered"}
    /\ moves \in 0 .. MaxMoves /\ runs \in 0 .. MaxRuns
    /\ meant \subseteq Definitions /\ mixed \in BOOLEAN

AccessInit ==
    /\ \E held \in RoleSets, token \in TokenSets, seat \in {"member", "author", "unknown"} :
         rows = [role |-> "custom", active |-> TRUE, open |-> TRUE, seat |-> seat, token |-> token,
                 grants |-> [r \in Roles |-> IF r = "admin" THEN {} ELSE held]]
    /\ meant = CanonicalizeList(rows.grants["custom"]) /\ mixed = FALSE
    /\ sync = NoSync /\ visit = NoVisit
    /\ moves = 0 /\ runs = 0

(* The request under way: whether it would have been permitted by the rows as *)
(* they were at some instant since it began, and how often they changed.      *)
Watched(r) ==
    IF visit.step \in {"none", "answered"} THEN visit
    ELSE [visit EXCEPT !.could = @ \/ Permits(visit.asks, Now(r)), !.turns = @ + 1]

Becomes(r) == rows' = r /\ visit' = IF r = rows THEN visit ELSE Watched(r)

---------------------------------------------------------------------------------
(* Administrators.                                                           *)

Moves(r) ==
    /\ moves < MaxMoves /\ moves' = moves + 1
    /\ r # rows /\ Becomes(r)
    /\ UNCHANGED <<sync, runs>>

ChangeUser ==
    /\ \/ \E role \in Roles : Moves([rows EXCEPT !.role = role])
       \/ Moves([rows EXCEPT !.active = ~@])
    /\ UNCHANGED <<meant, mixed>>
ChangeSeat   == (\E s \in {"admin", "editor", "none"} : Moves([rows EXCEPT !.seat = s]))
                /\ UNCHANGED <<meant, mixed>>
ChangeTenant == Moves([rows EXCEPT !.open = ~@]) /\ UNCHANGED <<meant, mixed>>

(* The permissions of a role that is no system role.                          *)
EditRole ==
    \E held \in RoleSets :
        /\ Moves([rows EXCEPT !.grants["custom"] = held])
        /\ meant' = CanonicalizeList(held)
        /\ mixed' = ("custom" \in sync.roles)

---------------------------------------------------------------------------------
(* A request reads the rows one after the other.                              *)

Unjudged == UNCHANGED <<rows, sync, moves, meant, mixed>>

BeginVisit ==
    /\ visit.step \in {"none", "answered"} /\ runs < MaxRuns
    /\ runs' = runs + 1
    /\ \E q \in Requests :
         visit' = [asks |-> q, step |-> IF q.guard = "token" THEN "token" ELSE "user",
                   saw |-> Unread, again |-> q.guard = "token",
                   could |-> Permits(q, Now(rows)), turns |-> 0, admitted |-> FALSE]
    /\ Unjudged

(* The next row is read: "saw" keeps what it held.                            *)
Reads(at, next, saw) ==
    /\ visit.step = at
    /\ visit' = [visit EXCEPT !.step = next, !.saw = saw]
    /\ Unjudged /\ UNCHANGED runs

ReadToken == Reads("token", "user", [visit.saw EXCEPT !.token = rows.token])
ReadUser  == Reads("user", "grants", [visit.saw EXCEPT !.role = rows.role, !.active = rows.active])

(* The permissions of the role the user had a moment ago.                     *)
ReadGrants ==
    Reads("grants", IF visit.asks.guard \in {"platform", "admin"} THEN "judge" ELSE "tenant",
          [visit.saw EXCEPT !.grants = rows.grants[visit.saw.role]])
ReadTenant == Reads("tenant", "seat", [visit.saw EXCEPT !.open = rows.open])
ReadSeat   == Reads("seat", "judge", [visit.saw EXCEPT !.seat = rows.seat])

(* A tool of the MCP server resolves the token a second time, after the        *)
(* endpoint did; what it may do is what it finds then.                        *)
JudgeVisit ==
    /\ visit.step = "judge" /\ UNCHANGED runs
    /\ IF visit.again /\ visit.saw.active /\ Resolves(visit.saw)
       THEN visit' = [visit EXCEPT !.step = "token", !.again = FALSE]
       ELSE visit' = [visit EXCEPT !.step = "answered", !.saw = Unread,
                                   !.admitted = ~visit.again /\ Permits(visit.asks, visit.saw)]
    /\ Unjudged

---------------------------------------------------------------------------------
(* SyncCanonicalPermissionsAndRoles at the start of a process.                *)

Synced(step, r) ==
    /\ sync' = step /\ Becomes(r)
    /\ UNCHANGED <<moves, runs, meant, mixed>>

At(step) == [sync EXCEPT !.step = step]

Aliases == {s \in UNION RoleSets : ~IsCanonical(s) /\ Canonicalize(s) # {}}

StartSync ==
    /\ sync.step = "none" /\ runs < MaxRuns /\ runs' = runs + 1
    /\ sync' = [NoSync EXCEPT !.step = "aliases", !.aliases = Aliases]
    /\ UNCHANGED <<rows, visit, moves, meant, mixed>>

(* The roles that hold an alias are listed, then given what it stands for.    *)
ListRoles ==
    /\ sync.step = "aliases"
    /\ \/ \E s \in sync.aliases :
            Synced([sync EXCEPT !.step = "append", !.aliases = {s} \cup @, !.token = {s},
                                !.roles = {r \in Roles : s \in rows.grants[r]}], rows)
       \/ sync.aliases = {} /\ Synced(At("matrix"), rows)

AppendMeant ==
    /\ sync.step = "append"
    /\ \/ \E r \in sync.roles :
            Synced([sync EXCEPT !.roles = @ \ {r}],
                   [rows EXCEPT !.grants[r] = @ \cup CanonicalizeList(sync.token)])
       \/ /\ sync.roles = {}
          /\ Synced([sync EXCEPT !.step = "aliases", !.aliases = @ \ sync.token, !.token = {}], rows)

(* The matrix of the built-in roles, here "editor": the missing ones are       *)
(* inserted, then the others deleted.                                         *)
InsertMatrix == sync.step = "matrix" /\ Synced(At("trim"), [rows EXCEPT !.grants["editor"] = @ \cup EditorRole])
TrimMatrix   == sync.step = "trim" /\ Synced(At("tokens"), [rows EXCEPT !.grants["editor"] = EditorRole])

(* canonicalizeStoredAPITokens: unknown slugs are dropped.                    *)
ListTokens == sync.step = "tokens" /\ Synced([At("write") EXCEPT !.token = rows.token], rows)
canonicalizeStoredAPITokens ==
    sync.step = "write" /\ Synced(NoSync, [rows EXCEPT !.token = CanonicalizeList(sync.token)])

(* An error ends the synchronisation; the server starts with a warning.       *)
SyncFails == sync.step # "none" /\ Synced(NoSync, rows)

AccessNext ==
    \/ ChangeUser \/ ChangeSeat \/ ChangeTenant \/ EditRole
    \/ BeginVisit \/ ReadToken \/ ReadUser \/ ReadGrants \/ ReadTenant \/ ReadSeat \/ JudgeVisit
    \/ StartSync \/ ListRoles \/ AppendMeant \/ InsertMatrix \/ TrimMatrix \/ ListTokens
    \/ canonicalizeStoredAPITokens \/ SyncFails

---------------------------------------------------------------------------------
(* The tables fit together.  Every permission belongs to the platform or to   *)
(* tenants and not to both; every route and tool asks for one its guard can   *)
(* grant; no built-in role but admin reaches the platform; a better seat      *)
(* takes nothing away; an alias stays in its module.                          *)
TablesFit ==
    /\ \A p \in Definitions : IsPlatformPermission(p) # IsTenantPermission(p)
    /\ \A p \in TenantRoutes \cup ToolWants : IsTenantPermission(p)
    /\ \A p \in PlatformRoutes \cup PlatformAdminRoutes : IsPlatformPermission(p)
    /\ \A p \in EditorRole \cup AuthorRole : IsTenantPermission(p)
    /\ \A p \in Definitions :
          /\ TenantRoleGrants("subscriber", p) => TenantRoleGrants("editor", p)
          /\ TenantRoleGrants("editor", p) => TenantRoleGrants("admin", p)
    /\ \A p \in Definitions : \A alias \in {"view", "edit", "edit_all", "manage"} :
          \A c \in Canonicalize(<<p[1], alias>>) : IsCanonical(c) /\ c[1] = p[1]

(* A request is admitted only if at some instant since it began the rows      *)
(* would have permitted it: what was revoked before it began stays revoked.   *)
(* Two changes under one request can add up to what neither state permits.    *)
AdmittedWasAllowed ==
    visit.step = "answered" /\ visit.admitted /\ visit.turns <= 1 => visit.could

(* Bringing the stored permissions up to the registry changes what they are   *)
(* written as and not what they grant: a custom role grants what its editor   *)
(* meant, unless he took an alias away between its listing and the appending. *)
SyncKeepsGrants == mixed \/ CanonicalizeList(rows.grants["custom"]) = meant

AccessHold == TablesFit /\ AdmittedWasAllowed /\ SyncKeepsGrants
=================================================================================
