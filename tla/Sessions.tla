-------------------------------- MODULE Sessions --------------------------------
(***************************************************************************)
(* One user's sessions.  A login and a refresh mint a pair of tokens, access *)
(* and refresh; a refresh consumes its token, first in the memory of the     *)
(* process, then in Redis; a logout writes both tokens of a session to both. *)
(* Each request reads the user, the tenant and the membership one after the  *)
(* other, while administrators change them.  Redis may fail, before or after *)
(* it did what it was asked, a process may restart and forget, tokens expire.*)
(*                                                                          *)
(* Passwords and second factors are right here; API keys are bound to        *)
(* DefaultTenant.  With Shared = FALSE there is no Redis and one process.    *)
(***************************************************************************)
EXTENDS Integers, FiniteSets

CONSTANTS
    Instances,    \* processes
    Shared,       \* TRUE: with Redis
    Callers,      \* requests at work at the same time
    Tenants,      \* tenants, by id
    DefaultTenant,
    MaxPairs,     \* bound: pairs of tokens ever minted
    MaxCalls,     \* bound: requests begun
    MaxChanges,   \* bound: changes by administrators
    MaxFaults     \* bound: failed calls of Redis, and restarts

ASSUME TenantAssumption == Tenants \subseteq Nat \ {0} /\ DefaultTenant \in Tenants
ASSUME SharedAssumption == Shared \in BOOLEAN
ASSUME SessionBounds == MaxPairs \in Nat \ {0} /\ {MaxCalls, MaxChanges, MaxFaults} \subseteq Nat

VARIABLES
    user,         \* the user's row: active, and whether the role is admin
    open,         \* tenants that are active
    member,       \* tenants the user is a member of
    key,          \* the user's API key is there
    pair,         \* pair[n]: what the tokens of pair n say, and where it is from
    expired,      \* tokens past their time
    local,        \* local[i]: tokens blacklisted in the memory of i
    redis,        \* tokens blacklisted in Redis
    call,         \* call[c]: the request of caller c
    nextPair, calls, changes, lapses,
    out,          \* history: out[x]: "no", or how the logout of token x was answered
    homes,        \* history: <<x, i>>: i logged x out and did not restart since
    spent,        \* history: tokens consumed by a refresh that then failed
    misuse        \* history: what a request was granted that it should not be

dbVars    == <<user, open, member, key>>
storeVars == <<expired, local, redis>>
countVars == <<nextPair, calls, changes, lapses>>
pastVars  == <<out, homes, spent, misuse>>
sessionVars == <<dbVars, storeVars, countVars, pastVars, pair, call>>

PairIds == 1 .. MaxPairs
Tokens  == PairIds \X {"access", "refresh"}
Access(n)  == <<n, "access">>
Refresh(n) == <<n, "refresh">>

(* What a request may find true of the rows it reads.                        *)
Facts == ({0} \X {"active", "admin", "key"}) \cup (Tenants \X {"open", "member"})

FactsOf(u, o, m, k) ==
    ({0} \X ({f \in {"active", "admin"} : u[f]} \cup {f \in {"key"} : k}))
    \cup (o \X {"open"}) \cup (m \X {"member"})

Claims == [tenant : Tenants \cup {0}, admin : BOOLEAN, from : PairIds \cup {0}]

CallOps == {"login", "refresh", "serve", "logout", "key"}
Phases  == {"consume", "claim", "check", "probe", "key", "user", "default",
            "memberships", "try", "tenant", "member", "mint",
            "revokeAccess", "shareAccess", "revokeRefresh", "shareRefresh"}

NoPair   == [none |-> TRUE]
Waiting  == [phase |-> "waiting"]

CallRecord == [phase : Phases, op : CallOps, at : Instances, pair : PairIds \cup {0},
               admin : BOOLEAN, tenant : Tenants \cup {0}, left : SUBSET Tenants,
               after : BOOLEAN, home : BOOLEAN, blind : BOOLEAN,
               never : SUBSET Facts]

SessionsTypeOK ==
    /\ user \in [active : BOOLEAN, admin : BOOLEAN]
    /\ open \subseteq Tenants /\ member \subseteq Tenants /\ key \in BOOLEAN
    /\ pair \in [PairIds -> Claims \cup {NoPair}]
    /\ expired \subseteq Tokens /\ redis \subseteq Tokens
    /\ local \in [Instances -> SUBSET Tokens]
    /\ \A c \in Callers : call[c] = Waiting \/ call[c] \in CallRecord
    /\ nextPair \in 1 .. MaxPairs + 1
    /\ calls \in 0 .. MaxCalls /\ changes \in 0 .. MaxChanges /\ lapses \in 0 .. MaxFaults
    /\ out \in [Tokens -> {"no", "yes", "unheard"}]
    /\ homes \subseteq Tokens \X Instances
    /\ spent \subseteq Tokens
    /\ misuse \subseteq {"logged out", "never so"}

(* A session may be there from before, or from before there were tenants.    *)
SessionsInit ==
    /\ user = [active |-> TRUE, admin |-> FALSE]
    /\ open = Tenants /\ member = {DefaultTenant} /\ key = TRUE
    /\ \E old \in SUBSET {0, DefaultTenant} :
          /\ Cardinality(old) <= 1
          /\ pair = [n \in PairIds |->
                IF n = 1 /\ old # {}
                THEN [tenant |-> CHOOSE t \in old : TRUE, admin |-> FALSE, from |-> 0]
                ELSE NoPair]
          /\ nextPair = IF old = {} THEN 1 ELSE 2
    /\ expired = {} /\ redis = {} /\ local = [i \in Instances |-> {}]
    /\ call = [c \in Callers |-> Waiting]
    /\ calls = 0 /\ changes = 0 /\ lapses = 0
    /\ out = [x \in Tokens |-> "no"] /\ homes = {} /\ spent = {} /\ misuse = {}

---------------------------------------------------------------------------------

InPhase(c, phase) == call[c].phase = phase
Turn(c, phase) == call' = [call EXCEPT ![c].phase = phase]
Answer(c) == call' = [call EXCEPT ![c] = Waiting]

TokenOf(r) == IF r.op = "refresh" THEN Refresh(r.pair) ELSE Access(r.pair)

(* A call that ends without a pair after it consumed its token has spent it. *)
Refuse(c) ==
    /\ Answer(c)
    /\ spent' = IF call[c].op = "refresh" THEN spent \cup {TokenOf(call[c])} ELSE spent

FirstPhase(op) ==
    CASE op = "login"               -> "user"
      [] op = "refresh"             -> "consume"
      [] op \in {"serve", "logout"} -> "check"
      [] op = "key"                 -> "key"

(* A refresh begins with ValidateRefreshToken: minted, and not past its time. *)
BeginCall(c) ==
    /\ InPhase(c, "waiting") /\ calls < MaxCalls
    /\ calls' = calls + 1
    /\ \E op \in CallOps, i \in Instances, n \in PairIds \cup {0} :
          LET r == [phase |-> FirstPhase(op), op |-> op, at |-> i, pair |-> n,
                    admin |-> FALSE, tenant |-> 0, left |-> {},
                    after |-> FALSE, home |-> FALSE, blind |-> FALSE,
                    never |-> Facts \ FactsOf(user, open, member, key)]
          IN /\ (n = 0) = (op \in {"login", "key"})
             /\ n # 0 => pair[n] # NoPair
             /\ op = "refresh" => TokenOf(r) \notin expired
             /\ call' = [call EXCEPT ![c] =
                   IF n = 0 THEN r
                   ELSE [r EXCEPT !.after = out[TokenOf(r)] = "yes",
                                  !.home = <<TokenOf(r), i>> \in homes]]
    /\ UNCHANGED <<dbVars, storeVars, nextPair, changes, lapses, pastVars, pair>>

(* Blacklist.Consume, of the process; without Redis there is no other.       *)
Consume(c) ==
    /\ InPhase(c, "consume")
    /\ LET r == call[c]
           x == TokenOf(r)
       IN IF x \in expired \cup local[r.at]
          THEN Answer(c) /\ UNCHANGED local
          ELSE /\ local' = [local EXCEPT ![r.at] = @ \cup {x}]
               /\ Turn(c, IF Shared THEN "claim" ELSE "user")
    /\ UNCHANGED <<dbVars, expired, redis, countVars, pastVars, pair>>

(* RedisTokenStore.Consume: SET NX with the time the token has left.         *)
Claim(c) ==
    /\ InPhase(c, "claim")
    /\ LET x == TokenOf(call[c]) IN
          IF x \in expired \cup redis
          THEN Refuse(c) /\ UNCHANGED redis
          ELSE redis' = redis \cup {x} /\ Turn(c, "user") /\ UNCHANGED spent
    /\ UNCHANGED <<dbVars, expired, local, countVars, out, homes, misuse, pair>>

(* For the mutants: an error of Redis is taken for a claim.                  *)
ClaimFailsOpen(c) ==
    /\ InPhase(c, "claim") /\ lapses < MaxFaults
    /\ lapses' = lapses + 1
    /\ Turn(c, "user")
    /\ UNCHANGED <<dbVars, storeVars, nextPair, calls, changes, pastVars, pair>>

(* An error, before Redis did it or after, is returned, and the token stays  *)
(* consumed here.                                                            *)
ClaimFails(c) ==
    /\ InPhase(c, "claim") /\ lapses < MaxFaults
    /\ lapses' = lapses + 1
    /\ redis' \in {redis, redis \cup ({TokenOf(call[c])} \ expired)}
    /\ Refuse(c)
    /\ UNCHANGED <<dbVars, expired, local, nextPair, calls, changes, out, homes, misuse, pair>>

(* ValidateAccessToken, once the blacklist let the token pass.               *)
Validate(c, blind) ==
    call' = [call EXCEPT ![c] = IF TokenOf(call[c]) \in expired THEN Waiting
                                ELSE [call[c] EXCEPT !.phase = "user", !.blind = blind]]

(* AuthMiddleware: the blacklist in memory, then Redis, whose error lets the *)
(* request pass.                                                             *)
IsRevokedHere(c) ==
    /\ InPhase(c, "check")
    /\ IF TokenOf(call[c]) \in local[call[c].at] THEN Answer(c)
       ELSE IF Shared THEN Turn(c, "probe") ELSE Validate(c, FALSE)
    /\ UNCHANGED <<dbVars, storeVars, countVars, pastVars, pair>>

IsRevokedThere(c) ==
    /\ InPhase(c, "probe")
    /\ IF TokenOf(call[c]) \in redis THEN Answer(c) ELSE Validate(c, FALSE)
    /\ UNCHANGED <<dbVars, storeVars, countVars, pastVars, pair>>

ProbeFails(c) ==
    /\ InPhase(c, "probe") /\ lapses < MaxFaults
    /\ lapses' = lapses + 1
    /\ Validate(c, TRUE)
    /\ UNCHANGED <<dbVars, storeVars, nextPair, calls, changes, pastVars, pair>>

(* FindPrincipalByToken: the row of the API key.                             *)
FindKey(c) ==
    /\ InPhase(c, "key")
    /\ IF key THEN call' = [call EXCEPT ![c].phase = "user", ![c].tenant = DefaultTenant]
       ELSE Answer(c)
    /\ UNCHANGED <<dbVars, storeVars, countVars, pastVars, pair>>

---------------------------------------------------------------------------------
(* The user, the tenant and the membership, each read as it is now.          *)

ClaimedTenant(r) == pair[r.pair].tenant

(* Where the request goes once its user is known: refresh preserves the      *)
(* tenant of its token, login and a token without one look for a tenant, a   *)
(* request falls back on the default, and a logout needs none.               *)
AfterUser(r) ==
    LET s == [r EXCEPT !.admin = user.admin] IN
    CASE r.op = "login"  -> [s EXCEPT !.phase = "default"]
      [] r.op = "logout" -> [s EXCEPT !.phase = "revokeAccess"]
      [] r.op = "key"    -> [s EXCEPT !.phase = "tenant"]
      [] r.op = "serve"  -> [s EXCEPT !.phase = "tenant",
                                !.tenant = IF ClaimedTenant(r) = 0 THEN DefaultTenant
                                           ELSE ClaimedTenant(r)]
      [] r.op = "refresh" ->
            IF ClaimedTenant(r) = 0 THEN [s EXCEPT !.phase = "default"]
            ELSE [s EXCEPT !.phase = "tenant", !.tenant = ClaimedTenant(r)]

(* For the mutants: whatever the user's status.                              *)
FindUserOfAnyStatus(c) ==
    /\ InPhase(c, "user")
    /\ call' = [call EXCEPT ![c] = AfterUser(call[c])]
    /\ UNCHANGED <<dbVars, storeVars, countVars, pastVars, pair>>

FindUser(c) ==
    /\ InPhase(c, "user")
    /\ IF user.active
       THEN call' = [call EXCEPT ![c] = AfterUser(call[c])] /\ UNCHANGED spent
       ELSE Refuse(c)
    /\ UNCHANGED <<dbVars, storeVars, countVars, out, homes, misuse, pair>>

(* Administrators prefer the default tenant.                                 *)
TryDefault(c) ==
    /\ InPhase(c, "default")
    /\ call' = [call EXCEPT ![c] =
          IF call[c].admin /\ DefaultTenant \in open
          THEN [call[c] EXCEPT !.phase = "mint", !.tenant = DefaultTenant]
          ELSE [call[c] EXCEPT !.phase = "memberships"]]
    /\ UNCHANGED <<dbVars, storeVars, countVars, pastVars, pair>>

FindUserMemberships(c) ==
    /\ InPhase(c, "memberships")
    /\ call' = [call EXCEPT ![c].phase = "try", ![c].left = member]
    /\ UNCHANGED <<dbVars, storeVars, countVars, pastVars, pair>>

(* orderMemberships: the default tenant first, then by id.                   *)
FirstOf(S) == IF DefaultTenant \in S THEN DefaultTenant
              ELSE CHOOSE t \in S : \A s \in S : t <= s

(* The first membership whose tenant is active; without one a login gets the *)
(* default tenant and a refresh nothing.                                     *)
TryMembership(c) ==
    /\ InPhase(c, "try")
    /\ LET r == call[c] IN
          IF r.left = {}
          THEN IF r.op = "login"
               THEN /\ call' = [call EXCEPT ![c].phase = "mint", ![c].tenant = DefaultTenant]
                    /\ UNCHANGED spent
               ELSE Refuse(c)
          ELSE LET t == FirstOf(r.left) IN
               /\ call' = [call EXCEPT ![c] =
                     IF t \in open THEN [r EXCEPT !.phase = "mint", !.tenant = t]
                     ELSE [r EXCEPT !.left = @ \ {t}]]
               /\ UNCHANGED spent
    /\ UNCHANGED <<dbVars, storeVars, countVars, out, homes, misuse, pair>>

(* What is granted, and to a request that should not have it.                *)
Needs(r) ==
    {<<0, "active">>} \cup
    (IF r.op = "login" THEN {}
     ELSE (IF r.op = "key" THEN {<<0, "key">>} ELSE {})
          \cup {<<r.tenant, "open">>}
          \cup {IF r.admin /\ r.op # "key" THEN <<0, "admin">> ELSE <<r.tenant, "member">>})

Grant(r) ==
    misuse' = misuse
        \cup (IF r.home \/ (r.after /\ ~ r.blind) THEN {"logged out"} ELSE {})
        \cup (IF Needs(r) \cap r.never # {} THEN {"never so"} ELSE {})

(* resolveRefreshTenant, setTenantContext and Resolve: administrators need   *)
(* no membership but for an API key.                                         *)
FindTenant(c) ==
    /\ InPhase(c, "tenant")
    /\ LET r == call[c] IN
          IF r.tenant \notin open THEN Refuse(c) /\ UNCHANGED misuse
          ELSE IF r.admin /\ r.op = "serve"
          THEN Grant(r) /\ Answer(c) /\ UNCHANGED spent
          ELSE /\ Turn(c, IF r.admin /\ r.op = "refresh" THEN "mint" ELSE "member")
               /\ UNCHANGED <<spent, misuse>>
    /\ UNCHANGED <<dbVars, storeVars, countVars, out, homes, pair>>

FindMembership(c) ==
    /\ InPhase(c, "member")
    /\ LET r == call[c] IN
          IF r.tenant \notin member THEN Refuse(c) /\ UNCHANGED misuse
          ELSE IF r.op = "refresh" THEN Turn(c, "mint") /\ UNCHANGED <<spent, misuse>>
          ELSE Grant(r) /\ Answer(c) /\ UNCHANGED spent
    /\ UNCHANGED <<dbVars, storeVars, countVars, out, homes, pair>>

(* GenerateTokenPairWithTenant.                                              *)
Mint(c) ==
    /\ InPhase(c, "mint") /\ nextPair <= MaxPairs
    /\ LET r == call[c] IN
          /\ pair' = [pair EXCEPT ![nextPair] =
                [tenant |-> r.tenant, admin |-> r.admin, from |-> r.pair]]
          /\ Grant(r)
    /\ nextPair' = nextPair + 1
    /\ Answer(c)
    /\ UNCHANGED <<dbVars, storeVars, calls, changes, lapses, out, homes, spent>>

---------------------------------------------------------------------------------
(* Logout: the access token, then the refresh token the client may send.     *)

NextOfLogout(phase) ==
    CASE phase = "revokeAccess"  -> IF Shared THEN {"shareAccess"} ELSE {"revokeRefresh", "done"}
      [] phase = "shareAccess"   -> {"revokeRefresh", "done"}
      [] phase = "revokeRefresh" -> IF Shared THEN {"shareRefresh"} ELSE {"done"}
      [] phase = "shareRefresh"  -> {"done"}

LogoutToken(r) ==
    IF r.phase \in {"revokeAccess", "shareAccess"} THEN Access(r.pair) ELSE Refresh(r.pair)

(* The answer tells what was revoked; a write Redis refused is not told.     *)
Leave(c, lost) ==
    LET r == call[c]
        x == LogoutToken(r)
    IN \E phase \in NextOfLogout(r.phase) :
          IF phase \in {"shareAccess", "shareRefresh"} THEN Turn(c, phase) /\ UNCHANGED <<out, homes>>
          ELSE /\ call' = [call EXCEPT ![c] = IF phase = "done" THEN Waiting
                                             ELSE [r EXCEPT !.phase = phase]]
               /\ out' = [out EXCEPT ![x] = IF lost /\ @ # "yes" THEN "unheard" ELSE "yes"]
               /\ homes' = homes \cup {<<x, r.at>>}

(* For the mutants: the process keeps no copy.                               *)
RevokeNothingHere(c) ==
    /\ InPhase(c, "revokeAccess") \/ InPhase(c, "revokeRefresh")
    /\ UNCHANGED <<dbVars, storeVars, countVars, spent, misuse, pair>>
    /\ Leave(c, FALSE)

(* For the mutants: the process blacklists the session, not the token.       *)
RevokeSessionHere(c) ==
    /\ InPhase(c, "revokeAccess") \/ InPhase(c, "revokeRefresh")
    /\ LET r == call[c] IN
          local' = [local EXCEPT ![r.at] = @ \cup ({Access(r.pair), Refresh(r.pair)} \ expired)]
    /\ Leave(c, FALSE)
    /\ UNCHANGED <<dbVars, expired, redis, countVars, spent, misuse, pair>>

RevokeHere(c) ==
    /\ InPhase(c, "revokeAccess") \/ InPhase(c, "revokeRefresh")
    /\ LET r == call[c]
           x == LogoutToken(r)
       IN local' = IF x \in expired THEN local ELSE [local EXCEPT ![r.at] = @ \cup {x}]
    /\ Leave(c, FALSE)
    /\ UNCHANGED <<dbVars, expired, redis, countVars, spent, misuse, pair>>

RevokeThere(c) ==
    /\ InPhase(c, "shareAccess") \/ InPhase(c, "shareRefresh")
    /\ redis' = redis \cup ({LogoutToken(call[c])} \ expired)
    /\ UNCHANGED <<dbVars, expired, local, countVars, spent, misuse, pair>>
    /\ Leave(c, FALSE)

RevokeIsLost(c) ==
    /\ InPhase(c, "shareAccess") \/ InPhase(c, "shareRefresh")
    /\ lapses < MaxFaults
    /\ lapses' = lapses + 1
    /\ UNCHANGED <<dbVars, storeVars, nextPair, calls, changes, spent, misuse, pair>>
    /\ Leave(c, TRUE)

---------------------------------------------------------------------------------
(* Administrators, time, and restarts.                                       *)

(* A fact that has been false since a request began is no longer so for it   *)
(* once it is true.                                                          *)
ChangeRows ==
    /\ changes < MaxChanges
    /\ changes' = changes + 1
    /\ \/ /\ \E f \in {"active", "admin"} : user' = [user EXCEPT ![f] = ~ @]
          /\ UNCHANGED <<open, member, key>>
       \/ /\ \E t \in Tenants : open' = IF t \in open THEN open \ {t} ELSE open \cup {t}
          /\ UNCHANGED <<user, member, key>>
       \/ /\ \E t \in Tenants : member' = IF t \in member THEN member \ {t} ELSE member \cup {t}
          /\ UNCHANGED <<user, open, key>>
       \/ /\ key' = ~ key
          /\ UNCHANGED <<user, open, member>>
    /\ call' = [c \in Callers |-> IF InPhase(c, "waiting") THEN Waiting
                   ELSE [call[c] EXCEPT !.never = @ \ FactsOf(user', open', member', key')]]
    /\ UNCHANGED <<storeVars, pastVars, nextPair, calls, lapses, pair>>

(* A token's time is over: no validation takes it, the entry in Redis has    *)
(* the same time to live, and the memory is cleaned of it.                   *)
ExpireToken(x) ==
    /\ pair[x[1]] # NoPair /\ x \notin expired
    /\ expired' = expired \cup {x}
    /\ redis' = redis \ {x}
    /\ local' = [i \in Instances |-> local[i] \ {x}]
    /\ UNCHANGED <<dbVars, countVars, pastVars, pair, call>>

RestartProcess(i) ==
    /\ lapses < MaxFaults
    /\ lapses' = lapses + 1
    /\ local' = [local EXCEPT ![i] = {}]
    /\ LET ended == {c \in Callers : call[c] # Waiting /\ call[c].at = i} IN
          /\ call' = [c \in Callers |-> IF c \in ended THEN Waiting ELSE call[c]]
          /\ spent' = spent \cup {TokenOf(call[c]) : c \in {d \in ended : call[d].op = "refresh"}}
    /\ homes' = {h \in homes : h[2] # i}
    /\ UNCHANGED <<dbVars, expired, redis, nextPair, calls, changes, out, misuse, pair>>

Serve(c) ==
    \/ BeginCall(c)
    \/ Consume(c) \/ Claim(c) \/ ClaimFails(c)
    \/ IsRevokedHere(c) \/ IsRevokedThere(c) \/ ProbeFails(c) \/ FindKey(c)
    \/ FindUser(c) \/ TryDefault(c) \/ FindUserMemberships(c) \/ TryMembership(c)
    \/ FindTenant(c) \/ FindMembership(c) \/ Mint(c)
    \/ RevokeHere(c) \/ RevokeThere(c) \/ RevokeIsLost(c)

SessionsNext ==
    \/ \E c \in Callers : Serve(c)
    \/ ChangeRows
    \/ \E x \in Tokens : ExpireToken(x)
    \/ \E i \in Instances : RestartProcess(i)

SessionsSpec == SessionsInit /\ [][SessionsNext]_sessionVars

---------------------------------------------------------------------------------
(* With Redis, one refresh token mints one pair, whatever fails, restarts or  *)
(* interleaves: a claim that Redis did not confirm is no claim               *)
(* (resilient_token_store.go:50-65).                                         *)
SingleUse ==
    \A m, n \in PairIds :
        pair[m] # NoPair /\ pair[n] # NoPair /\ m # n /\ pair[m].from # 0 =>
            pair[m].from # pair[n].from

(* A token whose logout was answered admits no request begun afterwards at   *)
(* the process that logged it out and still runs, and none at any other,     *)
(* unless Redis refused the logout's write or the request's read             *)
(* (resilient_token_store.go:8-15).                                          *)
LogoutHolds == "logged out" \notin misuse

(* A pair is minted and a request served on the strength of a user, a tenant, *)
(* a membership, a role and an API key each of which was as required at some *)
(* time since the request began: disablement, demotion, suspension and       *)
(* removal count for all that begins after (auth_service.go:395-400).        *)
GrantsFollowRows == "never so" \notin misuse

(* A refresh token that is blacklisted was exchanged for a pair, is being     *)
(* exchanged or logged out, was logged out, or was spent by a refresh that   *)
(* Redis, the user's rows or a restart made fail.                            *)
BlockedTokensAreAccountedFor ==
    \A n \in PairIds : LET x == Refresh(n) IN
        x \in redis \cup UNION {local[i] : i \in Instances} =>
            \/ \E m \in PairIds : pair[m] # NoPair /\ pair[m].from = n
            \/ out[x] # "no" \/ x \in spent
            \/ \E c \in Callers : call[c] # Waiting /\ call[c].op \in {"refresh", "logout"}
                                  /\ call[c].pair = n
=================================================================================
