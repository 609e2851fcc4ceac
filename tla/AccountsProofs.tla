------------------------------ MODULE AccountsProofs ------------------------------
(***************************************************************************)
(* Proofs about accounts: the sessions of a user, for any number of          *)
(* processes and callers; the second factor of one account, for any number of *)
(* devices; the administration of users and roles, for any number of requests *)
(* at once; the roster of a tenant, for any finite number of users and any   *)
(* number of managers at work; the locks of the login guard, for any finite  *)
(* number of processes; and the types of all the models of accounts together. *)
(*                                                                         *)
(* Sessions first.  A request keeps to the phases of its operation and to a  *)
(* session that was minted (TypeInv); on top of that each property has an     *)
(* invariant of its own, which says of every request in progress what its    *)
(* phase lets one conclude.                                                  *)
(***************************************************************************)
EXTENDS MCAccounts, FiniteSetTheorems, WellFoundedInduction, TLAPS

---------------------------------------------------------------------------------
(* The phases each operation goes through.                                   *)

Stages(op) ==
    CASE op = "login"   -> {"user", "default", "memberships", "try", "mint"}
      [] op = "refresh" -> {"consume", "claim", "user", "default", "memberships", "try",
                            "tenant", "member", "mint"}
      [] op = "serve"   -> {"check", "probe", "user", "tenant", "member"}
      [] op = "logout"  -> {"check", "probe", "user", "revokeAccess", "shareAccess",
                            "revokeRefresh", "shareRefresh"}
      [] op = "key"     -> {"key", "user", "tenant", "member"}

Minted(n) == pair[n] # NoPair

Routed(r) ==
    /\ r.phase \in Stages(r.op)
    /\ (r.pair = 0) = (r.op \in {"login", "key"})
    /\ r.pair # 0 => Minted(r.pair)

Busy(c) == call[c] # Waiting

Gone(x) == x \in redis \cup expired

TypeInv ==
    /\ SessionsTypeOK
    /\ call \in [Callers -> CallRecord \cup {Waiting}]
    /\ \A c \in Callers : Busy(c) => Routed(call[c])
    /\ \A n \in PairIds : n >= nextPair => ~ Minted(n)

LEMMA StagesArePhases == \A op \in CallOps : Stages(op) \subseteq Phases
  BY DEF CallOps, Stages, Phases

LEMMA Engaged ==
    ASSUME TypeInv, NEW c \in Callers, call[c].phase # "waiting"
    PROVE  Busy(c) /\ call[c] \in CallRecord /\ Routed(call[c])
  BY DEF TypeInv, Busy, Waiting

LEMMA WaitingIsNoRecord == Waiting \notin CallRecord
  <1>1. \A r \in CallRecord : r.phase # "waiting"
    BY DEF CallRecord, Phases
  <1> QED
    BY <1>1 DEF Waiting

(* What a request is about does not change while it is served.               *)
Same(r, s) ==
    /\ s.op = r.op /\ s.at = r.at /\ s.pair = r.pair
    /\ s.after = r.after /\ s.home = r.home /\ s.never = r.never
    /\ r.phase \notin {"check", "probe"} => s.blind = r.blind

Moves(c) ==
    /\ call' \in [Callers -> CallRecord \cup {Waiting}]
    /\ \A d \in Callers \ {c} : call'[d] = call[d]

LEMMA Turns ==
    ASSUME TypeInv, NEW c \in Callers, call[c].phase # "waiting",
           NEW phase \in Stages(call[c].op), Turn(c, phase)
    PROVE  /\ Moves(c) /\ call'[c] \in CallRecord /\ Same(call[c], call'[c])
           /\ call'[c].phase = phase
           /\ call'[c].admin = call[c].admin /\ call'[c].tenant = call[c].tenant
           /\ call'[c].left = call[c].left /\ call'[c].blind = call[c].blind
  <1>1. call[c] \in CallRecord /\ phase \in Phases
    BY Engaged, StagesArePhases DEF CallRecord
  <1> QED
    BY <1>1 DEF Turn, TypeInv, Moves, Same, CallRecord

LEMMA Answers ==
    ASSUME TypeInv, NEW c \in Callers, Answer(c)
    PROVE  Moves(c) /\ call'[c] = Waiting
  BY DEF Answer, TypeInv, Moves

LEMMA Changes ==
    ASSUME TypeInv, NEW c \in Callers, NEW s \in CallRecord \cup {Waiting},
           call' = [call EXCEPT ![c] = s]
    PROVE  Moves(c) /\ call'[c] = s
  BY DEF TypeInv, Moves

(* How a request goes on: it keeps to the phases of its operation.           *)
Goes(c) ==
    /\ Busy(c) /\ Moves(c)
    /\ \/ call'[c] = Waiting
       \/ /\ call'[c] \in CallRecord /\ Same(call[c], call'[c])
          /\ call'[c].phase \in Stages(call[c].op)

LEMMA TurnGoes ==
    ASSUME TypeInv, NEW c \in Callers, call[c].phase # "waiting",
           NEW phase \in Stages(call[c].op), Turn(c, phase)
    PROVE  Goes(c)
  BY Turns, Engaged DEF Goes

LEMMA AnswerGoes ==
    ASSUME TypeInv, NEW c \in Callers, call[c].phase # "waiting", Answer(c)
    PROVE  Goes(c)
  BY Answers, Engaged DEF Goes

LEMMA ChangeGoes ==
    ASSUME TypeInv, NEW c \in Callers, call[c].phase # "waiting", NEW s \in CallRecord,
           call' = [call EXCEPT ![c] = s], Same(call[c], s), s.phase \in Stages(call[c].op)
    PROVE  Goes(c)
  BY Changes, Engaged DEF Goes

LEMMA ClaimsAreClaims ==
    ASSUME TypeInv, NEW c \in Callers, call[c].phase # "waiting", call[c].pair # 0
    PROVE  /\ call[c].pair \in PairIds /\ pair[call[c].pair] \in Claims
           /\ ClaimedTenant(call[c]) \in Tenants \cup {0}
  <1>1. call[c].pair \in PairIds /\ Minted(call[c].pair)
    BY Engaged DEF CallRecord, Routed
  <1> QED
    BY <1>1 DEF TypeInv, SessionsTypeOK, Minted, Claims, ClaimedTenant

LEMMA FindUserGoes ==
    ASSUME TypeInv, NEW c \in Callers, FindUser(c)
    PROVE  /\ Goes(c)
           /\ call'[c] # Waiting =>
                /\ user.active /\ call'[c].admin = user.admin
                /\ call'[c].phase \in {"default", "revokeAccess", "tenant"}
  <1> DEFINE r == call[c]
             s == AfterUser(r)
  <1>1. r.phase = "user" /\ r \in CallRecord /\ Routed(r)
    BY Engaged DEF FindUser, InPhase
  <1>2. CASE user.active
    <2>1. s \in CallRecord /\ Same(r, s) /\ s.phase \in Stages(r.op) /\ s.admin = user.admin
          /\ s.phase \in {"default", "revokeAccess", "tenant"}
      <3>1. user.admin \in BOOLEAN
        BY DEF TypeInv, SessionsTypeOK
      <3>2. r.op \in {"serve", "refresh"} => ClaimedTenant(r) \in Tenants \cup {0}
        BY <1>1, ClaimsAreClaims DEF Routed
      <3>3. DefaultTenant \in Tenants /\ r.op \in CallOps
        BY <1>1, TenantAssumption DEF CallRecord
      <3> HIDE DEF r
      <3> QED
        BY <1>1, <3>1, <3>2, <3>3
           DEF AfterUser, CallRecord, Same, Stages, Phases, CallOps
    <2>2. call' = [call EXCEPT ![c] = s]
      BY <1>2 DEF FindUser
    <2> HIDE DEF s
    <2> QED
      BY <1>1, <1>2, <2>1, <2>2, Changes, ChangeGoes
  <1>3. CASE ~ user.active
    BY <1>1, <1>3, Answers, AnswerGoes DEF FindUser, Refuse
  <1> QED
    BY <1>2, <1>3

LEMMA LeaveGoes ==
    ASSUME TypeInv, NEW c \in Callers, NEW lost \in BOOLEAN, Leave(c, lost),
           call[c].phase \in {"revokeAccess", "shareAccess", "revokeRefresh", "shareRefresh"}
    PROVE  /\ Goes(c)
           /\ LogoutToken(call[c]) \in Tokens
           /\ \/ /\ call'[c] # Waiting
                 /\ \/ call[c].phase = "revokeAccess" /\ call'[c].phase = "shareAccess"
                    \/ call[c].phase = "revokeRefresh" /\ call'[c].phase = "shareRefresh"
                 /\ UNCHANGED <<out, homes>> /\ Shared
              \/ /\ call'[c] = Waiting \/ call'[c].phase = "revokeRefresh"
                 /\ Shared => call[c].phase \in {"shareAccess", "shareRefresh"}
                 /\ out' = [out EXCEPT ![LogoutToken(call[c])] =
                              IF lost /\ @ # "yes" THEN "unheard" ELSE "yes"]
                 /\ homes' = homes \cup {<<LogoutToken(call[c]), call[c].at>>}
  <1> DEFINE r == call[c]
  <1>1. r \in CallRecord /\ Routed(r) /\ r.op = "logout" /\ r.pair \in PairIds
    BY Engaged DEF Routed, Stages, CallRecord, CallOps
  <1>2. LogoutToken(r) \in Tokens
    BY <1>1 DEF LogoutToken, Access, Refresh, Tokens
  <1>3. PICK phase \in NextOfLogout(r.phase) :
           IF phase \in {"shareAccess", "shareRefresh"} THEN Turn(c, phase) /\ UNCHANGED <<out, homes>>
           ELSE /\ call' = [call EXCEPT ![c] = IF phase = "done" THEN Waiting
                                              ELSE [r EXCEPT !.phase = phase]]
                /\ out' = [out EXCEPT ![LogoutToken(r)] =
                              IF lost /\ @ # "yes" THEN "unheard" ELSE "yes"]
                /\ homes' = homes \cup {<<LogoutToken(r), r.at>>}
    BY DEF Leave
  <1>4. /\ phase \in {"shareAccess", "revokeRefresh", "shareRefresh", "done"}
        /\ phase = "shareAccess" => r.phase = "revokeAccess" /\ Shared
        /\ phase = "shareRefresh" => r.phase = "revokeRefresh" /\ Shared
        /\ phase \in {"revokeRefresh", "done"} /\ Shared =>
               r.phase \in {"shareAccess", "shareRefresh"}
    BY <1>3 DEF NextOfLogout
  <1>5. Stages(r.op) = {"check", "probe", "user", "revokeAccess", "shareAccess",
                        "revokeRefresh", "shareRefresh"}
    BY <1>1 DEF Stages
  <1>6. CASE phase \in {"shareAccess", "shareRefresh"}
    <2>1. Turn(c, phase) /\ UNCHANGED <<out, homes>> /\ phase \in Stages(r.op)
      BY <1>3, <1>5, <1>6
    <2>2. Goes(c) /\ call'[c].phase = phase /\ call'[c] \in CallRecord
      BY <2>1, Turns, TurnGoes
    <2> QED
      BY <1>2, <1>4, <1>6, <2>1, <2>2, WaitingIsNoRecord
  <1>7. CASE phase = "done"
    <2>1. Goes(c) /\ call'[c] = Waiting
      BY <1>3, <1>7, Changes, Engaged DEF Goes
    <2> QED
      BY <1>2, <1>3, <1>4, <1>7, <2>1
  <1>8. CASE phase = "revokeRefresh"
    <2>1. [r EXCEPT !.phase = "revokeRefresh"] \in CallRecord
          /\ Same(r, [r EXCEPT !.phase = "revokeRefresh"])
      BY <1>1 DEF CallRecord, Same, Phases
    <2>2. Goes(c) /\ call'[c].phase = "revokeRefresh"
      <3>1. call' = [call EXCEPT ![c] = [r EXCEPT !.phase = "revokeRefresh"]]
        BY <1>3, <1>8
      <3>2. [r EXCEPT !.phase = "revokeRefresh"].phase = "revokeRefresh"
        BY <1>1 DEF CallRecord
      <3> QED
        BY <1>5, <2>1, <3>1, <3>2, Changes, ChangeGoes
    <2> QED
      BY <1>2, <1>3, <1>4, <1>8, <2>2
  <1> QED
    BY <1>4, <1>6, <1>7, <1>8

LEMMA ServeGoes ==
    ASSUME TypeInv, NEW c \in Callers, Serve(c), ~ BeginCall(c)
    PROVE  Goes(c)
  <1> DEFINE r == call[c]
  <1>1. Stages(r.op) = CASE r.op = "login"   -> {"user", "default", "memberships", "try", "mint"}
      [] r.op = "refresh" -> {"consume", "claim", "user", "default", "memberships", "try",
                              "tenant", "member", "mint"}
      [] r.op = "serve"   -> {"check", "probe", "user", "tenant", "member"}
      [] r.op = "logout"  -> {"check", "probe", "user", "revokeAccess", "shareAccess",
                              "revokeRefresh", "shareRefresh"}
      [] r.op = "key"     -> {"key", "user", "tenant", "member"}
    BY DEF Stages
  <1>2. r.phase # "waiting" /\ r \in CallRecord /\ r.op \in CallOps /\ r.phase \in Stages(r.op)
    <2>1. r.phase # "waiting"
      BY DEF Serve, Consume, Claim, ClaimFails, IsRevokedHere, IsRevokedThere, ProbeFails, FindKey,
             FindUser, TryDefault, FindUserMemberships, TryMembership, FindTenant, FindMembership,
             Mint, RevokeHere, RevokeThere, RevokeIsLost, InPhase
    <2> QED
      BY <2>1, Engaged DEF Routed, CallRecord
  <1>3. ASSUME r.phase \in {"check", "probe"}, NEW sightless \in BOOLEAN, Validate(c, sightless)
        PROVE  Goes(c)
    <2>1. CASE TokenOf(r) \in expired
      BY <1>2, <1>3, <2>1, AnswerGoes DEF Validate, Answer
    <2>2. CASE TokenOf(r) \notin expired
      <3>1. [r EXCEPT !.phase = "user", !.blind = sightless] \in CallRecord
            /\ Same(r, [r EXCEPT !.phase = "user", !.blind = sightless])
            /\ [r EXCEPT !.phase = "user", !.blind = sightless].phase = "user"
        BY <1>2, <1>3 DEF CallRecord, Same, Phases
      <3>2. call' = [call EXCEPT ![c] = [r EXCEPT !.phase = "user", !.blind = sightless]]
        BY <1>3, <2>2 DEF Validate
      <3>3. "user" \in Stages(r.op)
        BY <1>1, <1>2 DEF CallOps
      <3> QED
        BY <1>2, <3>1, <3>2, <3>3, ChangeGoes
    <2> QED
      BY <2>1, <2>2
  <1>4. CASE Consume(c)
    <2>1. r.phase = "consume"
      BY <1>4 DEF Consume, InPhase
    <2>2. "claim" \in Stages(r.op) /\ "user" \in Stages(r.op)
      BY <1>1, <1>2, <2>1 DEF CallOps
    <2> QED
      BY <1>2, <1>4, <2>2, TurnGoes, AnswerGoes DEF Consume
  <1>5. CASE Claim(c) \/ ClaimFails(c)
    <2>1. r.phase = "claim"
      BY <1>5 DEF Claim, ClaimFails, InPhase
    <2>2. "user" \in Stages(r.op)
      BY <1>1, <1>2, <2>1 DEF CallOps
    <2> QED
      BY <1>2, <1>5, <2>2, TurnGoes, AnswerGoes DEF Claim, ClaimFails, Refuse
  <1>6. CASE IsRevokedHere(c)
    <2>1. r.phase = "check"
      BY <1>6 DEF IsRevokedHere, InPhase
    <2>2. "probe" \in Stages(r.op)
      BY <1>1, <1>2, <2>1 DEF CallOps
    <2> QED
      BY <1>2, <1>3, <1>6, <2>1, <2>2, TurnGoes, AnswerGoes DEF IsRevokedHere
  <1>7. CASE IsRevokedThere(c) \/ ProbeFails(c)
    BY <1>2, <1>3, <1>7, AnswerGoes DEF IsRevokedThere, ProbeFails, InPhase
  <1>8. CASE FindKey(c)
    <2>1. r.phase = "key"
      BY <1>8 DEF FindKey, InPhase
    <2>2. "user" \in Stages(r.op)
      BY <1>1, <1>2, <2>1 DEF CallOps
    <2>3. CASE key
      <3>1. call' = [call EXCEPT ![c] = [r EXCEPT !.phase = "user", !.tenant = DefaultTenant]]
        BY <1>8, <2>3 DEF FindKey
      <3>2. [r EXCEPT !.phase = "user", !.tenant = DefaultTenant] \in CallRecord
            /\ Same(r, [r EXCEPT !.phase = "user", !.tenant = DefaultTenant])
            /\ [r EXCEPT !.phase = "user", !.tenant = DefaultTenant].phase = "user"
        BY <1>2, TenantAssumption DEF CallRecord, Same, Phases
      <3> QED
        BY <1>2, <2>2, <3>1, <3>2, ChangeGoes
    <2> QED
      BY <1>2, <1>8, <2>3, AnswerGoes DEF FindKey
  <1>9. CASE TryDefault(c)
    <2>1. r.phase = "default"
      BY <1>9 DEF TryDefault, InPhase
    <2>2. "mint" \in Stages(r.op) /\ "memberships" \in Stages(r.op)
      BY <1>1, <1>2, <2>1 DEF CallOps
    <2> DEFINE s == IF r.admin /\ DefaultTenant \in open
                    THEN [r EXCEPT !.phase = "mint", !.tenant = DefaultTenant]
                    ELSE [r EXCEPT !.phase = "memberships"]
    <2>3. s \in CallRecord /\ Same(r, s) /\ s.phase \in {"mint", "memberships"}
      BY <1>2, TenantAssumption DEF CallRecord, Same, Phases
    <2>4. call' = [call EXCEPT ![c] = s]
      BY <1>9 DEF TryDefault
    <2> HIDE DEF s
    <2> QED
      BY <1>2, <2>2, <2>3, <2>4, ChangeGoes
  <1>a. CASE FindUserMemberships(c)
    <2>1. r.phase = "memberships"
      BY <1>a DEF FindUserMemberships, InPhase
    <2>2. "try" \in Stages(r.op)
      BY <1>1, <1>2, <2>1 DEF CallOps
    <2> DEFINE s == [r EXCEPT !.phase = "try", !.left = member]
    <2>3. s \in CallRecord /\ Same(r, s) /\ s.phase = "try"
      BY <1>2 DEF CallRecord, Same, Phases, TypeInv, SessionsTypeOK
    <2>4. call' = [call EXCEPT ![c] = s]
      BY <1>a DEF FindUserMemberships
    <2> HIDE DEF s
    <2> QED
      BY <1>2, <2>2, <2>3, <2>4, ChangeGoes
  <1>b. CASE TryMembership(c)
    <2>1. r.phase = "try"
      BY <1>b DEF TryMembership, InPhase
    <2>2. "mint" \in Stages(r.op) /\ "try" \in Stages(r.op)
      BY <1>1, <1>2, <2>1 DEF CallOps
    <2>3. CASE Refuse(c)
      BY <1>2, <2>3, AnswerGoes DEF Refuse
    <2> DEFINE t == FirstOf(r.left)
               s == IF r.left = {} THEN [r EXCEPT !.phase = "mint", !.tenant = DefaultTenant]
                    ELSE IF t \in open THEN [r EXCEPT !.phase = "mint", !.tenant = t]
                    ELSE [r EXCEPT !.left = @ \ {t}]
    <2>4. Refuse(c) \/ call' = [call EXCEPT ![c] = s]
      BY <1>b DEF TryMembership
    <2>5. s \in CallRecord /\ Same(r, s) /\ s.phase \in {"mint", "try"}
      <3>1. open \subseteq Tenants
        BY DEF TypeInv, SessionsTypeOK
      <3> HIDE DEF t
      <3> QED
        BY <1>2, <2>1, <3>1, TenantAssumption DEF CallRecord, Same, Phases
    <2> HIDE DEF s
    <2> QED
      BY <1>2, <2>2, <2>3, <2>4, <2>5, ChangeGoes
  <1>c. CASE FindTenant(c)
    <2>1. r.phase = "tenant"
      BY <1>c DEF FindTenant, InPhase
    <2>2. "member" \in Stages(r.op) /\ (r.op = "refresh" => "mint" \in Stages(r.op))
      BY <1>1, <1>2, <2>1 DEF CallOps
    <2> QED
      BY <1>2, <1>c, <2>2, TurnGoes, AnswerGoes DEF FindTenant, Refuse
  <1>d. CASE FindMembership(c)
    <2>1. r.op = "refresh" => "mint" \in Stages(r.op)
      BY <1>1
    <2> QED
      BY <1>2, <1>d, <2>1, TurnGoes, AnswerGoes DEF FindMembership, Refuse
  <1>e. CASE Mint(c)
    BY <1>2, <1>e, AnswerGoes DEF Mint
  <1>f. CASE RevokeHere(c) \/ RevokeThere(c) \/ RevokeIsLost(c)
    BY <1>f, LeaveGoes DEF RevokeHere, RevokeThere, RevokeIsLost, InPhase
  <1> QED
    BY <1>4, <1>5, <1>6, <1>7, <1>8, <1>9, <1>a, <1>b, <1>c, <1>d, <1>e, <1>f, FindUserGoes DEF Serve

(* What a new request knows: nothing yet, but what was there as it began.     *)
Begins(c) ==
    /\ call[c] = Waiting /\ Moves(c)
    /\ LET s == call'[c] IN
          /\ s \in CallRecord /\ s.phase = FirstPhase(s.op)
          /\ (s.pair = 0) = (s.op \in {"login", "key"})
          /\ s.pair # 0 => Minted(s.pair)
          /\ s.op = "refresh" => TokenOf(s) \notin expired
          /\ s.never = Facts \ FactsOf(user, open, member, key)
          /\ s.pair = 0 => ~ s.after /\ ~ s.home
          /\ s.pair # 0 => /\ s.after = (out[TokenOf(s)] = "yes")
                           /\ s.home = (<<TokenOf(s), s.at>> \in homes)
          /\ ~ s.blind

LEMMA BeginsCall ==
    ASSUME TypeInv, NEW c \in Callers, BeginCall(c)
    PROVE  Begins(c)
  <1>1. call[c] = Waiting
    <2>1. call[c].phase = "waiting" /\ call[c] \in CallRecord \cup {Waiting}
      BY DEF BeginCall, InPhase, TypeInv
    <2> QED
      BY <2>1 DEF CallRecord, Phases
  <1>2. PICK op \in CallOps, i \in Instances, n \in PairIds \cup {0} :
          LET r == [phase |-> FirstPhase(op), op |-> op, at |-> i, pair |-> n,
                    admin |-> FALSE, tenant |-> 0, left |-> {},
                    after |-> FALSE, home |-> FALSE, blind |-> FALSE,
                    never |-> Facts \ FactsOf(user, open, member, key)]
          IN /\ (n = 0) = (op \in {"login", "key"})
             /\ n # 0 => pair[n] # NoPair
             /\ op = "refresh" => TokenOf(r) \notin expired
             /\ call' = [call EXCEPT ![c] =
                   IF n = 0 THEN r
                   ELSE [r EXCEPT !.after = out[TokenOf(r)] = "yes",
                                  !.home = <<TokenOf(r), i>> \in homes]]
    BY DEF BeginCall
  <1> DEFINE r == [phase |-> FirstPhase(op), op |-> op, at |-> i, pair |-> n,
                   admin |-> FALSE, tenant |-> 0, left |-> {},
                   after |-> FALSE, home |-> FALSE, blind |-> FALSE,
                   never |-> Facts \ FactsOf(user, open, member, key)]
             x == TokenOf(r)
             s == IF n = 0 THEN r
                  ELSE [r EXCEPT !.after = out[x] = "yes", !.home = <<x, i>> \in homes]
  <1>3. FirstPhase(op) \in Phases
    BY DEF FirstPhase, CallOps, Phases
  <1>4. r \in CallRecord
    BY <1>3 DEF CallRecord
  <1>5. r.pair = n /\ r.op = op /\ r.at = i /\ r.phase = FirstPhase(op) /\ ~ r.after /\ ~ r.home
        /\ ~ r.blind /\ r.never = Facts \ FactsOf(user, open, member, key)
    OBVIOUS
  <1>6. call' = [call EXCEPT ![c] = s] /\ (op = "refresh" => x \notin expired)
        /\ (n = 0) = (op \in {"login", "key"}) /\ (n # 0 => Minted(n))
    BY <1>2 DEF Minted
  <1> HIDE DEF r
  <1>7. /\ s \in CallRecord /\ s.pair = n /\ s.op = op /\ s.at = i /\ s.phase = FirstPhase(op)
        /\ ~ s.blind /\ s.never = Facts \ FactsOf(user, open, member, key)
        /\ n = 0 => ~ s.after /\ ~ s.home
        /\ n # 0 => s.after = (out[x] = "yes") /\ s.home = (<<x, i>> \in homes)
    <2> DEFINE y == out[x] = "yes"
               z == <<x, i>> \in homes
    <2>1. y \in BOOLEAN /\ z \in BOOLEAN
      OBVIOUS
    <2>2. s = IF n = 0 THEN r ELSE [r EXCEPT !.after = y, !.home = z]
      OBVIOUS
    <2> HIDE DEF x, y, z, s
    <2>3. /\ s \in CallRecord /\ s.pair = n /\ s.op = op /\ s.at = i /\ s.phase = FirstPhase(op)
          /\ ~ s.blind /\ s.never = Facts \ FactsOf(user, open, member, key)
          /\ n = 0 => ~ s.after /\ ~ s.home
          /\ n # 0 => s.after = y /\ s.home = z
      BY <1>4, <1>5, <2>1, <2>2 DEF CallRecord
    <2> QED
      BY <2>3 DEF y, z
  <1>8. TokenOf(s) = x
    <2> HIDE DEF s
    <2> QED
      BY <1>5, <1>7 DEF TokenOf
  <1> HIDE DEF s, x
  <1>9. Moves(c) /\ call'[c] = s
    BY <1>6, <1>7, Changes
  <1> QED
    BY <1>1, <1>6, <1>7, <1>8, <1>9 DEF Begins

LEMMA FirstPhases == \A op \in CallOps : FirstPhase(op) \in Stages(op) /\ FirstPhase(op) \in Phases
  BY DEF CallOps, FirstPhase, Stages, Phases

LEMMA StepPairs ==
    ASSUME TypeInv, [SessionsNext]_sessionVars
    PROVE  /\ \A n \in PairIds : Minted(n) => Minted(n)'
           /\ \A n \in PairIds : Minted(n) => pair'[n] = pair[n]
           /\ \/ UNCHANGED <<pair, nextPair>>
              \/ \E c \in Callers : Mint(c)
           /\ pair' \in [PairIds -> Claims \cup {NoPair}] /\ nextPair' \in 1 .. MaxPairs + 1
           /\ \A n \in PairIds : n >= nextPair' => ~ Minted(n)'
  <1>1. CASE UNCHANGED <<pair, nextPair>>
    BY <1>1 DEF TypeInv, SessionsTypeOK, Minted
  <1>2. ASSUME NEW c \in Callers, Mint(c)
        PROVE  /\ \A n \in PairIds : Minted(n) => Minted(n)'
               /\ \A n \in PairIds : Minted(n) => pair'[n] = pair[n]
               /\ pair' \in [PairIds -> Claims \cup {NoPair}] /\ nextPair' \in 1 .. MaxPairs + 1
               /\ \A n \in PairIds : n >= nextPair' => ~ Minted(n)'
    <2> DEFINE r == call[c]
               p == [tenant |-> r.tenant, admin |-> r.admin, from |-> r.pair]
    <2>1. r \in CallRecord
      BY <1>2, Engaged DEF Mint, InPhase
    <2>2. p \in Claims
      BY <2>1 DEF CallRecord, Claims
    <2>3. MaxPairs \in Nat /\ nextPair \in 1 .. MaxPairs + 1
      BY SessionBounds DEF TypeInv, SessionsTypeOK
    <2>4. nextPair <= MaxPairs /\ nextPair' = nextPair + 1 /\ pair' = [pair EXCEPT ![nextPair] = p]
      BY <1>2 DEF Mint
    <2>5. nextPair \in PairIds /\ nextPair' \in 1 .. MaxPairs + 1
      BY <2>3, <2>4 DEF PairIds
    <2>6. ~ Minted(nextPair)
      BY <2>3, <2>5 DEF TypeInv
    <2>7. NoPair \notin Claims
      BY DEF NoPair, Claims
    <2> HIDE DEF p, r
    <2>8. pair \in [PairIds -> Claims \cup {NoPair}]
      BY DEF TypeInv, SessionsTypeOK
    <2>9. pair' \in [PairIds -> Claims \cup {NoPair}]
      BY <2>2, <2>4, <2>8
    <2>a. \A n \in PairIds : Minted(n) => pair'[n] = pair[n]
      BY <2>4, <2>6, <2>8 DEF Minted
    <2>b. \A n \in PairIds : n >= nextPair' => pair'[n] = pair[n] /\ ~ Minted(n)
      <3>1. \A n \in PairIds : n >= nextPair' => n # nextPair /\ n >= nextPair
        BY <2>3, <2>4 DEF PairIds
      <3> QED
        BY <2>4, <2>8, <3>1 DEF TypeInv
    <2> QED
      BY <2>5, <2>9, <2>a, <2>b DEF Minted
  <1>3. UNCHANGED <<pair, nextPair>> \/ \E c \in Callers : Mint(c)
    BY DEF SessionsNext, Serve, BeginCall, Consume, Claim, ClaimFails, IsRevokedHere,
           IsRevokedThere, ProbeFails, FindKey, FindUser, TryDefault, FindUserMemberships,
           TryMembership, FindTenant, FindMembership, RevokeHere, RevokeThere, RevokeIsLost,
           ChangeRows, ExpireToken, RestartProcess, sessionVars, countVars
  <1> QED
    BY <1>1, <1>2, <1>3

(* What a step makes of the other requests.                                   *)
LEMMA StepCalls ==
    ASSUME TypeInv, SessionsNext
    PROVE  /\ call' \in [Callers -> CallRecord \cup {Waiting}]
           /\ \A c \in Callers : call'[c] # Waiting =>
                 /\ call'[c].phase \in Stages(call'[c].op)
                 /\ (call'[c].pair = 0) = (call'[c].op \in {"login", "key"})
                 /\ call'[c].pair # 0 => Minted(call'[c].pair)
  <1>1. ASSUME NEW c \in Callers, BeginCall(c)
        PROVE  /\ call' \in [Callers -> CallRecord \cup {Waiting}]
               /\ \A d \in Callers : call'[d] # Waiting =>
                     /\ call'[d].phase \in Stages(call'[d].op)
                     /\ (call'[d].pair = 0) = (call'[d].op \in {"login", "key"})
                     /\ call'[d].pair # 0 => Minted(call'[d].pair)
    <2>1. Begins(c) /\ call'[c].op \in CallOps
      BY <1>1, BeginsCall DEF Begins, CallRecord
    <2> QED
      BY <2>1, FirstPhases DEF Begins, Moves, TypeInv, Busy, Routed
  <1>2. ASSUME NEW c \in Callers, Serve(c), ~ BeginCall(c)
        PROVE  /\ call' \in [Callers -> CallRecord \cup {Waiting}]
               /\ \A d \in Callers : call'[d] # Waiting =>
                     /\ call'[d].phase \in Stages(call'[d].op)
                     /\ (call'[d].pair = 0) = (call'[d].op \in {"login", "key"})
                     /\ call'[d].pair # 0 => Minted(call'[d].pair)
    <2>1. Goes(c)
      BY <1>2, ServeGoes
    <2> QED
      BY <2>1 DEF Goes, Moves, Same, TypeInv, Busy, Routed
  <1>3. CASE ChangeRows
    <2> DEFINE F == FactsOf(user', open', member', key')
               s(c) == [call[c] EXCEPT !.never = @ \ F]
    <2>1. call' = [c \in Callers |-> IF InPhase(c, "waiting") THEN Waiting ELSE s(c)]
      BY <1>3 DEF ChangeRows
    <2>2. ASSUME NEW c \in Callers, call[c].phase # "waiting"
          PROVE  /\ s(c) \in CallRecord /\ s(c).phase = call[c].phase /\ s(c).op = call[c].op
                 /\ s(c).pair = call[c].pair /\ Routed(call[c])
      BY <2>2, Engaged DEF CallRecord
    <2> HIDE DEF s
    <2> QED
      BY <2>1, <2>2 DEF InPhase, Routed
  <1>4. ASSUME NEW x \in Tokens, ExpireToken(x)
        PROVE  UNCHANGED call
    BY <1>4 DEF ExpireToken
  <1>5. ASSUME NEW i \in Instances, RestartProcess(i)
        PROVE  /\ call' \in [Callers -> CallRecord \cup {Waiting}]
               /\ \A c \in Callers : call'[c] = Waiting \/ call'[c] = call[c]
    BY <1>5 DEF RestartProcess, TypeInv
  <1>6. \A c \in Callers : call[c] # Waiting =>
                 /\ call[c].phase \in Stages(call[c].op)
                 /\ (call[c].pair = 0) = (call[c].op \in {"login", "key"})
                 /\ call[c].pair # 0 => Minted(call[c].pair)
    BY DEF TypeInv, Busy, Routed
  <1> QED
    BY <1>1, <1>2, <1>3, <1>4, <1>5, <1>6 DEF SessionsNext, TypeInv

LEMMA TokenOfIsToken ==
    ASSUME NEW r \in CallRecord, r.pair # 0
    PROVE  TokenOf(r) \in Tokens
  BY DEF CallRecord, TokenOf, Tokens, Access, Refresh

(* Who has a token is in one of the phases of its operation.                 *)
LEMMA AtWork ==
    ASSUME TypeInv, NEW c \in Callers
    PROVE  /\ call[c].phase \in {"consume", "claim"} => call[c].op = "refresh"
           /\ call[c].phase \in {"check", "probe"} => call[c].op \in {"serve", "logout"}
           /\ call[c].phase \in {"revokeAccess", "shareAccess", "revokeRefresh", "shareRefresh"} =>
                  call[c].op = "logout"
           /\ call[c].phase = "key" => call[c].op = "key"
           /\ call[c].phase \in {"default", "memberships", "try", "mint"} =>
                  call[c].op \in {"login", "refresh"}
           /\ call[c].phase \in {"tenant", "member"} => call[c].op \in {"refresh", "serve", "key"}
           /\ call[c].phase # "waiting" => (call[c].pair = 0) = (call[c].op \in {"login", "key"})
           /\ call[c].phase # "waiting" /\ call[c].op \in {"refresh", "serve", "logout"} =>
                  TokenOf(call[c]) \in Tokens /\ call[c].pair \in PairIds
           /\ call[c].phase # "waiting" => call[c].at \in Instances
  <1>1. CASE call[c].phase = "waiting"
    BY <1>1
  <1>2. CASE call[c].phase # "waiting"
    <2>1. /\ call[c] \in CallRecord /\ call[c].phase \in Stages(call[c].op) /\ call[c].op \in CallOps
          /\ (call[c].pair = 0) = (call[c].op \in {"login", "key"})
      BY <1>2, Engaged DEF Routed, CallRecord
    <2>2. call[c].pair # 0 => TokenOf(call[c]) \in Tokens /\ call[c].pair \in PairIds
      BY <2>1, TokenOfIsToken DEF CallRecord
    <2>3. call[c].at \in Instances
      BY <2>1 DEF CallRecord
    <2> QED
      BY <2>1, <2>2, <2>3 DEF Stages, CallOps
  <1> QED
    BY <1>1, <1>2

(* What each step does to the blacklists.                                    *)
LEMMA StepStores ==
    ASSUME TypeInv, [SessionsNext]_sessionVars
    PROVE  \/ UNCHANGED <<expired, local, redis>>
           \/ \E c \in Callers :
                 /\ Consume(c) \/ RevokeHere(c)
                 /\ UNCHANGED <<expired, redis>>
                 /\ \E x \in Tokens \ expired :
                       /\ x = (IF Consume(c) THEN TokenOf(call[c]) ELSE LogoutToken(call[c]))
                       /\ local' = [local EXCEPT ![call[c].at] = @ \cup {x}]
           \/ \E c \in Callers :
                 /\ Claim(c) \/ ClaimFails(c) \/ RevokeThere(c)
                 /\ UNCHANGED <<expired, local>>
                 /\ \E x \in Tokens \ expired :
                       /\ x = (IF RevokeThere(c) THEN LogoutToken(call[c]) ELSE TokenOf(call[c]))
                       /\ redis' = redis \cup {x}
           \/ \E x \in Tokens : ExpireToken(x)
           \/ \E i \in Instances : RestartProcess(i)
  <1> USE DEF storeVars
  <1>1. ASSUME NEW c \in Callers,
               \/ BeginCall(c) \/ IsRevokedHere(c) \/ IsRevokedThere(c) \/ ProbeFails(c)
               \/ FindKey(c) \/ FindUser(c) \/ TryDefault(c) \/ FindUserMemberships(c)
               \/ TryMembership(c) \/ FindTenant(c) \/ FindMembership(c) \/ Mint(c)
               \/ RevokeIsLost(c)
        PROVE  UNCHANGED <<expired, local, redis>>
    BY <1>1 DEF BeginCall, IsRevokedHere, IsRevokedThere, ProbeFails, FindKey, FindUser, TryDefault,
               FindUserMemberships, TryMembership, FindTenant, FindMembership, Mint, RevokeIsLost
  <1>2. ASSUME NEW c \in Callers, Consume(c)
        PROVE  \/ UNCHANGED <<expired, local, redis>>
               \/ /\ UNCHANGED <<expired, redis>> /\ TokenOf(call[c]) \in Tokens \ expired
                  /\ local' = [local EXCEPT ![call[c].at] = @ \cup {TokenOf(call[c])}]
    <2>1. call[c].phase = "consume" /\ TokenOf(call[c]) \in Tokens
      BY <1>2, AtWork DEF Consume, InPhase
    <2> QED
      BY <1>2, <2>1 DEF Consume
  <1>3. ASSUME NEW c \in Callers, Claim(c) \/ ClaimFails(c)
        PROVE  \/ UNCHANGED <<expired, local, redis>>
               \/ /\ UNCHANGED <<expired, local>> /\ TokenOf(call[c]) \in Tokens \ expired
                  /\ redis' = redis \cup {TokenOf(call[c])}
    <2>1. call[c].phase = "claim" /\ TokenOf(call[c]) \in Tokens
      BY <1>3, AtWork DEF Claim, ClaimFails, InPhase
    <2>2. CASE TokenOf(call[c]) \in expired
      BY <1>3, <2>1, <2>2 DEF Claim, ClaimFails
    <2>3. CASE TokenOf(call[c]) \notin expired
      BY <1>3, <2>1, <2>3 DEF Claim, ClaimFails
    <2> QED
      BY <2>2, <2>3
  <1>4. ASSUME NEW c \in Callers, RevokeHere(c)
        PROVE  \/ UNCHANGED <<expired, local, redis>>
               \/ /\ UNCHANGED <<expired, redis>> /\ LogoutToken(call[c]) \in Tokens \ expired
                  /\ local' = [local EXCEPT ![call[c].at] = @ \cup {LogoutToken(call[c])}]
    <2>1. LogoutToken(call[c]) \in Tokens
      BY <1>4, LeaveGoes DEF RevokeHere, InPhase
    <2> QED
      BY <1>4, <2>1 DEF RevokeHere
  <1>5. ASSUME NEW c \in Callers, RevokeThere(c)
        PROVE  \/ UNCHANGED <<expired, local, redis>>
               \/ /\ UNCHANGED <<expired, local>> /\ LogoutToken(call[c]) \in Tokens \ expired
                  /\ redis' = redis \cup {LogoutToken(call[c])}
    <2>1. LogoutToken(call[c]) \in Tokens
      BY <1>5, LeaveGoes DEF RevokeThere, InPhase
    <2>2. CASE LogoutToken(call[c]) \in expired
      BY <1>5, <2>1, <2>2 DEF RevokeThere
    <2>3. CASE LogoutToken(call[c]) \notin expired
      BY <1>5, <2>1, <2>3 DEF RevokeThere
    <2> QED
      BY <2>2, <2>3
  <1>6. ASSUME NEW c \in Callers
        PROVE  /\ RevokeHere(c) => ~ Consume(c)
               /\ Claim(c) \/ ClaimFails(c) => ~ RevokeThere(c)
    BY DEF RevokeHere, RevokeThere, Consume, Claim, ClaimFails, InPhase
  <1>7. CASE ChangeRows \/ UNCHANGED sessionVars
    BY <1>7 DEF ChangeRows, sessionVars
  <1>8. CASE \E c \in Callers : Serve(c)
    <2>1. PICK c \in Callers : Serve(c)
      BY <1>8
    <2> QED
      BY <2>1, <1>1, <1>2, <1>3, <1>4, <1>5, <1>6 DEF Serve
  <1> QED
    BY <1>7, <1>8 DEF SessionsNext

LEMMA StepStoreTypes ==
    ASSUME TypeInv, [SessionsNext]_sessionVars
    PROVE  /\ expired' \subseteq Tokens /\ redis' \subseteq Tokens
           /\ local' \in [Instances -> SUBSET Tokens]
           /\ expired \subseteq expired'
           /\ \A x \in Tokens : Gone(x) => Gone(x)'
  <1>1. /\ expired \subseteq Tokens /\ redis \subseteq Tokens
        /\ local \in [Instances -> SUBSET Tokens]
    BY DEF TypeInv, SessionsTypeOK
  <1>2. ASSUME NEW x \in Tokens, ExpireToken(x)
        PROVE  /\ expired' = expired \cup {x} /\ redis' = redis \ {x}
               /\ local' = [i \in Instances |-> local[i] \ {x}]
    BY <1>2 DEF ExpireToken
  <1>3. ASSUME NEW i \in Instances, RestartProcess(i)
        PROVE  expired' = expired /\ redis' = redis /\ local' = [local EXCEPT ![i] = {}]
    BY <1>3 DEF RestartProcess
  <1> QED
    BY <1>1, <1>2, <1>3, StepStores DEF Gone

LEMMA StepRows ==
    ASSUME TypeInv, [SessionsNext]_sessionVars
    PROVE  \/ UNCHANGED <<user, open, member, key>>
           \/ ChangeRows
  BY DEF SessionsNext, Serve, BeginCall, Consume, Claim, ClaimFails, IsRevokedHere,
         IsRevokedThere, ProbeFails, FindKey, FindUser, TryDefault, FindUserMemberships,
         TryMembership, FindTenant, FindMembership, Mint, RevokeHere, RevokeThere, RevokeIsLost,
         ExpireToken, RestartProcess, sessionVars, dbVars

LEMMA ChangedRowTypes ==
    ASSUME TypeInv, ChangeRows
    PROVE  /\ user' \in [active : BOOLEAN, admin : BOOLEAN]
           /\ open' \subseteq Tenants /\ member' \subseteq Tenants /\ key' \in BOOLEAN
  BY DEF TypeInv, SessionsTypeOK, ChangeRows

LEMMA StepCounts ==
    ASSUME TypeInv, [SessionsNext]_sessionVars
    PROVE  calls' \in 0 .. MaxCalls /\ changes' \in 0 .. MaxChanges /\ lapses' \in 0 .. MaxFaults
  <1>1. /\ UNCHANGED calls \/ (calls < MaxCalls /\ calls' = calls + 1)
        /\ UNCHANGED changes \/ (changes < MaxChanges /\ changes' = changes + 1)
        /\ UNCHANGED lapses \/ (lapses < MaxFaults /\ lapses' = lapses + 1)
    BY DEF SessionsNext, Serve, BeginCall, Consume, Claim, ClaimFails, IsRevokedHere,
           IsRevokedThere, ProbeFails, FindKey, FindUser, TryDefault, FindUserMemberships,
           TryMembership, FindTenant, FindMembership, Mint, RevokeHere, RevokeThere, RevokeIsLost,
           ChangeRows, ExpireToken, RestartProcess, sessionVars, countVars
  <1>2. /\ calls \in 0 .. MaxCalls /\ changes \in 0 .. MaxChanges /\ lapses \in 0 .. MaxFaults
        /\ MaxCalls \in Nat /\ MaxChanges \in Nat /\ MaxFaults \in Nat
    BY SessionBounds DEF TypeInv, SessionsTypeOK
  <1> QED
    BY <1>1, <1>2

(* What each step does to the history of logouts.                            *)
LEMMA StepLogouts ==
    ASSUME TypeInv, [SessionsNext]_sessionVars
    PROVE  \/ UNCHANGED <<out, homes>>
           \/ \E c \in Callers, lost \in BOOLEAN :
                 /\ IF lost THEN RevokeIsLost(c) ELSE RevokeHere(c) \/ RevokeThere(c)
                 /\ Leave(c, lost)
                 /\ call[c].phase \in {"revokeAccess", "shareAccess", "revokeRefresh", "shareRefresh"}
           \/ \E i \in Instances : RestartProcess(i) /\ UNCHANGED out
  <1>1. ASSUME NEW c \in Callers, Serve(c)
        PROVE  \/ UNCHANGED <<out, homes>>
               \/ RevokeHere(c) \/ RevokeThere(c) \/ RevokeIsLost(c)
    BY <1>1 DEF Serve, BeginCall, Consume, Claim, ClaimFails, IsRevokedHere,
         IsRevokedThere, ProbeFails, FindKey, FindUser, TryDefault, FindUserMemberships,
         TryMembership, FindTenant, FindMembership, Mint, pastVars
  <1>2. ASSUME NEW c \in Callers, RevokeHere(c) \/ RevokeThere(c) \/ RevokeIsLost(c)
        PROVE  \E lost \in BOOLEAN :
                 /\ IF lost THEN RevokeIsLost(c) ELSE RevokeHere(c) \/ RevokeThere(c)
                 /\ Leave(c, lost)
                 /\ call[c].phase \in {"revokeAccess", "shareAccess", "revokeRefresh", "shareRefresh"}
    BY <1>2 DEF RevokeHere, RevokeThere, RevokeIsLost, InPhase
  <1>3. ASSUME NEW i \in Instances, RestartProcess(i)
        PROVE  UNCHANGED out
    BY <1>3 DEF RestartProcess
  <1>4. CASE ChangeRows \/ (\E x \in Tokens : ExpireToken(x)) \/ UNCHANGED sessionVars
    BY <1>4 DEF ChangeRows, ExpireToken, sessionVars, pastVars
  <1> QED
    BY <1>1, <1>2, <1>3, <1>4 DEF SessionsNext

LEMMA StepPast ==
    ASSUME TypeInv, [SessionsNext]_sessionVars
    PROVE  /\ out' \in [Tokens -> {"no", "yes", "unheard"}]
           /\ homes' \subseteq Tokens \X Instances
           /\ spent' \subseteq Tokens
           /\ misuse' \subseteq {"logged out", "never so"}
           /\ spent \subseteq spent'
           /\ \A x \in Tokens : out[x] # "no" => out'[x] # "no"
  <1>1. /\ out \in [Tokens -> {"no", "yes", "unheard"}] /\ homes \subseteq Tokens \X Instances
        /\ spent \subseteq Tokens /\ misuse \subseteq {"logged out", "never so"}
    BY DEF TypeInv, SessionsTypeOK
  <1>2. /\ out' \in [Tokens -> {"no", "yes", "unheard"}] /\ homes' \subseteq Tokens \X Instances
        /\ \A x \in Tokens : out[x] # "no" => out'[x] # "no"
    <2>1. ASSUME NEW c \in Callers, NEW lost \in BOOLEAN, Leave(c, lost),
                 call[c].phase \in {"revokeAccess", "shareAccess", "revokeRefresh", "shareRefresh"}
          PROVE  /\ out' \in [Tokens -> {"no", "yes", "unheard"}]
                 /\ homes' \subseteq Tokens \X Instances
                 /\ \A x \in Tokens : out[x] # "no" => out'[x] # "no"
      <3>1. LogoutToken(call[c]) \in Tokens /\ call[c].at \in Instances
        BY <2>1, LeaveGoes, AtWork
      <3>2. \/ UNCHANGED <<out, homes>>
            \/ /\ out' = [out EXCEPT ![LogoutToken(call[c])] =
                              IF lost /\ @ # "yes" THEN "unheard" ELSE "yes"]
               /\ homes' = homes \cup {<<LogoutToken(call[c]), call[c].at>>}
        BY <2>1, LeaveGoes
      <3> DEFINE y == LogoutToken(call[c])
                 v == IF lost /\ out[y] # "yes" THEN "unheard" ELSE "yes"
      <3>3. UNCHANGED <<out, homes>>
            \/ (out' = [out EXCEPT ![y] = v] /\ homes' = homes \cup {<<y, call[c].at>>})
        BY <3>1, <3>2
      <3>4. y \in Tokens /\ v \in {"yes", "unheard"}
        BY <3>1
      <3> HIDE DEF y, v
      <3>5. CASE UNCHANGED <<out, homes>>
        BY <1>1, <3>5
      <3>6. CASE out' = [out EXCEPT ![y] = v] /\ homes' = homes \cup {<<y, call[c].at>>}
        <4>1. \A x \in Tokens : out'[x] = IF x = y THEN v ELSE out[x]
          BY <1>1, <3>4, <3>6
        <4>2. homes' \subseteq Tokens \X Instances
          <5>1. <<y, call[c].at>> \in Tokens \X Instances
            BY <3>1, <3>4
          <5>2. homes' = homes \cup {<<y, call[c].at>>}
            BY <3>6
          <5> DEFINE h == <<y, call[c].at>>
                     P == Tokens \X Instances
          <5>3. h \in P /\ homes' = homes \cup {h} /\ homes \subseteq P
            BY <1>1, <5>1, <5>2
          <5> HIDE DEF h, P
          <5>4. homes' \subseteq P
            BY <5>3
          <5> QED
            BY <5>4 DEF P
        <4>3. out' \in [Tokens -> {"no", "yes", "unheard"}]
          BY <1>1, <3>4, <3>6
        <4> QED
          BY <3>4, <4>1, <4>2, <4>3
      <3> QED
        BY <3>3, <3>5, <3>6
    <2>2. ASSUME NEW i \in Instances, RestartProcess(i)
          PROVE  homes' \subseteq homes
      BY <2>2 DEF RestartProcess
    <2> QED
      BY <1>1, <2>1, <2>2, StepLogouts
  <1>3. spent' \subseteq Tokens /\ spent \subseteq spent'
    <2>1. ASSUME NEW c \in Callers, Refuse(c), call[c].phase # "waiting"
          PROVE  spent' \subseteq Tokens /\ spent \subseteq spent'
      BY <1>1, <2>1, AtWork DEF Refuse
    <2>2. ASSUME NEW i \in Instances, RestartProcess(i)
          PROVE  spent' \subseteq Tokens /\ spent \subseteq spent'
      <3>1. ASSUME NEW c \in Callers, call[c] # Waiting, call[c].op = "refresh"
            PROVE  TokenOf(call[c]) \in Tokens
        <4>1. call[c].phase # "waiting"
          BY <3>1 DEF TypeInv, CallRecord, Phases
        <4> QED
          BY <3>1, <4>1, AtWork
      <3> QED
        BY <1>1, <2>2, <3>1 DEF RestartProcess
    <2>3. UNCHANGED spent \/ (\E i \in Instances : RestartProcess(i))
          \/ \E c \in Callers : Refuse(c) /\ call[c].phase # "waiting"
      BY DEF SessionsNext, Serve, BeginCall, Consume, Claim, ClaimFails, IsRevokedHere,
             IsRevokedThere, ProbeFails, FindKey, FindUser, TryDefault, FindUserMemberships,
             TryMembership, FindTenant, FindMembership, Mint, RevokeHere, RevokeThere,
             RevokeIsLost, ChangeRows, ExpireToken, sessionVars, pastVars, InPhase
    <2> QED
      BY <1>1, <2>1, <2>2, <2>3
  <1>4. misuse' \subseteq {"logged out", "never so"}
    <2>1. UNCHANGED misuse \/ \E c \in Callers : Grant(call[c])
      BY DEF SessionsNext, Serve, BeginCall, Consume, Claim, ClaimFails, IsRevokedHere,
             IsRevokedThere, ProbeFails, FindKey, FindUser, TryDefault, FindUserMemberships,
             TryMembership, FindTenant, FindMembership, Mint, RevokeHere, RevokeThere,
             RevokeIsLost, ChangeRows, ExpireToken, RestartProcess, sessionVars, pastVars
    <2> QED
      BY <1>1, <2>1 DEF Grant
  <1> QED
    BY <1>2, <1>3, <1>4

LEMMA InitTypes == SessionsInit => TypeInv
  <1> SUFFICES ASSUME SessionsInit PROVE TypeInv
    OBVIOUS
  <1>1. PICK old \in SUBSET {0, DefaultTenant} :
          /\ Cardinality(old) <= 1
          /\ pair = [n \in PairIds |->
                IF n = 1 /\ old # {}
                THEN [tenant |-> CHOOSE t \in old : TRUE, admin |-> FALSE, from |-> 0]
                ELSE NoPair]
          /\ nextPair = IF old = {} THEN 1 ELSE 2
    BY DEF SessionsInit
  <1>2. old # {} => (CHOOSE t \in old : TRUE) \in Tenants \cup {0}
    BY TenantAssumption
  <1>3. pair \in [PairIds -> Claims \cup {NoPair}]
    BY <1>1, <1>2 DEF Claims
  <1>4. MaxPairs \in Nat \ {0} /\ MaxCalls \in Nat /\ MaxChanges \in Nat /\ MaxFaults \in Nat
    BY SessionBounds
  <1>5. nextPair \in 1 .. MaxPairs + 1 /\ \A n \in PairIds : n >= nextPair => ~ Minted(n)
    <2>1. nextPair \in 1 .. MaxPairs + 1
      BY <1>1, <1>4
    <2>2. ASSUME NEW n \in PairIds, n >= nextPair
          PROVE  n # 1 \/ old = {}
      BY <1>1, <2>2 DEF PairIds
    <2>3. \A n \in PairIds : n # 1 \/ old = {} => pair[n] = NoPair
      BY <1>1
    <2> QED
      BY <2>1, <2>2, <2>3 DEF Minted
  <1>6. \A c \in Callers : call[c] = Waiting
    BY DEF SessionsInit
  <1> QED
    BY <1>3, <1>4, <1>5, <1>6, TenantAssumption
       DEF SessionsInit, TypeInv, SessionsTypeOK, Busy

LEMMA StepTypes ==
    ASSUME TypeInv, [SessionsNext]_sessionVars
    PROVE  TypeInv'
  <1>1. /\ user' \in [active : BOOLEAN, admin : BOOLEAN]
        /\ open' \subseteq Tenants /\ member' \subseteq Tenants /\ key' \in BOOLEAN
    BY StepRows, ChangedRowTypes DEF TypeInv, SessionsTypeOK
  <1>2. call' \in [Callers -> CallRecord \cup {Waiting}] /\ \A c \in Callers : Busy(c)' => Routed(call[c])'
    <2>1. CASE UNCHANGED sessionVars
      <3>1. UNCHANGED <<call, pair>>
        BY <2>1 DEF sessionVars
      <3> QED
        BY <3>1 DEF TypeInv, Busy, Routed, Minted
    <2>2. CASE SessionsNext
      <3>1. \A c \in Callers : call'[c] # Waiting /\ call'[c].pair # 0 =>
               call'[c].pair \in PairIds
        BY <2>2, StepCalls DEF CallRecord
      <3> QED
        BY <2>2, <3>1, StepCalls, StepPairs DEF Busy, Routed
    <2> QED
      BY <2>1, <2>2
  <1>3. /\ pair' \in [PairIds -> Claims \cup {NoPair}] /\ nextPair' \in 1 .. MaxPairs + 1
        /\ \A n \in PairIds : n >= nextPair' => ~ Minted(n)'
    BY StepPairs
  <1>4. /\ expired' \subseteq Tokens /\ redis' \subseteq Tokens
        /\ local' \in [Instances -> SUBSET Tokens]
    BY StepStoreTypes
  <1>5. /\ calls' \in 0 .. MaxCalls /\ changes' \in 0 .. MaxChanges /\ lapses' \in 0 .. MaxFaults
        /\ out' \in [Tokens -> {"no", "yes", "unheard"}] /\ homes' \subseteq Tokens \X Instances
        /\ spent' \subseteq Tokens /\ misuse' \subseteq {"logged out", "never so"}
    BY StepCounts, StepPast
  <1>6. SessionsTypeOK'
    BY <1>1, <1>2, <1>3, <1>4, <1>5 DEF SessionsTypeOK
  <1> QED
    BY <1>2, <1>3, <1>6 DEF TypeInv

(* Types, for any processes, requests at once, tenants and faults.           *)
THEOREM TypeCorrect == SessionsSpec => []SessionsTypeOK
  <1>1. TypeInv => SessionsTypeOK
    BY DEF TypeInv
  <1> QED
    BY <1>1, InitTypes, StepTypes, PTL DEF SessionsSpec

---------------------------------------------------------------------------------
(* One refresh, one pair: who holds the claim of a token holds it alone, and *)
(* the claim outlives whoever holds it.                                      *)

Claimed(r) == r.op = "refresh" /\ r.phase \notin {"consume", "claim"}

ClaimInv ==
    /\ \A c \in Callers : Busy(c) /\ Claimed(call[c]) =>
          /\ Gone(Refresh(call[c].pair))
          /\ \A m \in PairIds : Minted(m) => pair[m].from # call[c].pair
    /\ \A c, d \in Callers :
          Busy(c) /\ Busy(d) /\ Claimed(call[c]) /\ Claimed(call[d])
          /\ call[c].pair = call[d].pair => c = d
    /\ \A m \in PairIds : Minted(m) /\ pair[m].from # 0 => Gone(Refresh(pair[m].from))
    /\ SingleUse

LEMMA MintEffect ==
    ASSUME TypeInv, NEW c \in Callers, Mint(c)
    PROVE  /\ call[c].phase = "mint" /\ Busy(c) /\ Moves(c) /\ call'[c] = Waiting
           /\ nextPair \in PairIds /\ ~ Minted(nextPair)
           /\ pair'[nextPair].from = call[c].pair
           /\ \A m \in PairIds : m # nextPair => pair'[m] = pair[m]
           /\ UNCHANGED <<expired, local, redis>>
  <1>1. call[c].phase = "mint" /\ Busy(c)
    BY Engaged DEF Mint, InPhase
  <1>2. nextPair \in PairIds /\ ~ Minted(nextPair)
    <2>1. nextPair \in 1 .. MaxPairs + 1 /\ nextPair <= MaxPairs /\ MaxPairs \in Nat
      BY SessionBounds DEF TypeInv, SessionsTypeOK, Mint
    <2> QED
      BY <2>1 DEF TypeInv, PairIds
  <1>3. /\ pair'[nextPair].from = call[c].pair
        /\ \A m \in PairIds : m # nextPair => pair'[m] = pair[m]
    BY <1>2 DEF Mint, TypeInv, SessionsTypeOK
  <1> QED
    BY <1>1, <1>2, <1>3, Answers DEF Mint, storeVars

(* Who holds a claim held it before, or claims a token nobody had used.      *)
LEMMA StepClaimed ==
    ASSUME Shared, TypeInv, SessionsNext, NEW c \in Callers,
           call'[c] # Waiting, Claimed(call[c])'
    PROVE  /\ call'[c].pair = call[c].pair /\ Busy(c) /\ call[c].pair \in PairIds
           /\ \/ Claimed(call[c])
              \/ /\ Claim(c) /\ Moves(c)
                 /\ ~ Gone(Refresh(call[c].pair)) /\ Gone(Refresh(call[c].pair))'
                 /\ UNCHANGED pair
  <1>1. call'[c].op = "refresh" /\ call'[c].phase \notin {"consume", "claim"}
    BY DEF Claimed
  <1>2. ~ BeginCall(c)
    BY <1>1, BeginsCall DEF Begins, FirstPhase
  <1>3. CASE call'[c] = call[c]
    BY <1>1, <1>3, Engaged, AtWork DEF Claimed, Waiting, TypeInv, CallRecord, Phases, Busy
  <1>4. CASE ChangeRows
    <2>1. /\ call[c].phase # "waiting"
          /\ call'[c] = [call[c] EXCEPT !.never = @ \ FactsOf(user', open', member', key')]
      BY <1>4 DEF ChangeRows, InPhase
    <2>2. /\ call'[c].op = call[c].op /\ call'[c].phase = call[c].phase
          /\ call'[c].pair = call[c].pair
      BY <2>1, Engaged DEF CallRecord
    <2> QED
      BY <1>1, <2>1, <2>2, Engaged, AtWork DEF Claimed
  <1>5. CASE Serve(c)
    <2>1. Goes(c)
      BY <1>2, <1>5, ServeGoes
    <2>2. /\ Busy(c) /\ call'[c].pair = call[c].pair /\ call[c].op = "refresh" /\ Moves(c)
          /\ call[c].phase # "waiting"
      BY <1>1, <2>1 DEF Goes, Same, Busy, TypeInv, CallRecord, Phases
    <2>3. CASE call[c].phase \notin {"consume", "claim"}
      BY <2>2, <2>3, AtWork DEF Claimed
    <2>4. CASE call[c].phase = "consume"
      <3>1. Consume(c)
        BY <1>2, <1>5, <2>4
           DEF Serve, Claim, ClaimFails, IsRevokedHere, IsRevokedThere, ProbeFails, FindKey,
               FindUser, TryDefault, FindUserMemberships, TryMembership, FindTenant,
               FindMembership, Mint, RevokeHere, RevokeThere, RevokeIsLost, InPhase
      <3>2. Answer(c) \/ Turn(c, "claim")
        BY <3>1 DEF Consume
      <3>3. "claim" \in Stages(call[c].op)
        BY <2>2 DEF Stages
      <3> QED
        BY <1>1, <2>2, <3>2, <3>3, Answers, Turns
    <2>5. CASE call[c].phase = "claim"
      <3>1. Claim(c) \/ ClaimFails(c)
        BY <1>2, <1>5, <2>5
           DEF Serve, Consume, IsRevokedHere, IsRevokedThere, ProbeFails, FindKey,
               FindUser, TryDefault, FindUserMemberships, TryMembership, FindTenant,
               FindMembership, Mint, RevokeHere, RevokeThere, RevokeIsLost, InPhase
      <3>2. ~ Answer(c)
        BY Answers
      <3>3. Claim(c) /\ TokenOf(call[c]) \notin expired \cup redis
            /\ redis' = redis \cup {TokenOf(call[c])} /\ UNCHANGED pair
        BY <3>1, <3>2 DEF Claim, ClaimFails, Refuse
      <3>4. TokenOf(call[c]) = Refresh(call[c].pair)
        BY <2>2 DEF TokenOf
      <3> QED
        BY <2>2, <3>3, <3>4, AtWork DEF Gone
    <2> QED
      BY <2>3, <2>4, <2>5
  <1>6. ASSUME NEW d \in Callers, d # c, Serve(d)
        PROVE  call'[c] = call[c]
    BY <1>6, ServeGoes, BeginsCall DEF Goes, Begins, Moves
  <1>7. ASSUME NEW i \in Instances, RestartProcess(i)
        PROVE  call'[c] = call[c]
    BY <1>7 DEF RestartProcess
  <1>8. ASSUME NEW x \in Tokens, ExpireToken(x)
        PROVE  call'[c] = call[c]
    BY <1>8 DEF ExpireToken
  <1> QED
    BY <1>3, <1>4, <1>5, <1>6, <1>7, <1>8 DEF SessionsNext

LEMMA StepClaim ==
    ASSUME Shared, TypeInv, ClaimInv, [SessionsNext]_sessionVars
    PROVE  ClaimInv'
  <1>1. CASE UNCHANGED sessionVars
    BY <1>1 DEF sessionVars, storeVars, ClaimInv, Busy, Claimed, Gone, Minted, SingleUse
  <1>2. CASE SessionsNext
    <2>0. \A n \in PairIds : Refresh(n) \in Tokens
      BY DEF Refresh, Tokens
    <2>g. \A n \in PairIds : Gone(Refresh(n)) => Gone(Refresh(n))'
      BY <2>0, StepStoreTypes
    <2>m. \A m \in PairIds : Minted(m) /\ pair[m].from # 0 => pair[m].from \in PairIds
      BY DEF Minted, TypeInv, SessionsTypeOK, Claims
    <2>1. CASE UNCHANGED pair
      <3>1. \A m \in PairIds : Minted(m)' <=> Minted(m)
        BY <2>1 DEF Minted
      <3>2. \A m \in PairIds : Minted(m)' /\ pair'[m].from # 0 => Gone(Refresh(pair[m].from))'
        BY <2>1, <2>g, <2>m, <3>1 DEF ClaimInv
      <3>3. SingleUse'
        BY <2>1 DEF ClaimInv, SingleUse
      <3>4. ASSUME NEW c \in Callers, call'[c] # Waiting, Claimed(call[c])'
            PROVE  /\ Gone(Refresh(call[c].pair))'
                   /\ \A m \in PairIds : Minted(m) => pair[m].from # call'[c].pair
        <4>1. /\ call'[c].pair = call[c].pair /\ Busy(c) /\ call[c].pair \in PairIds
              /\ \/ Claimed(call[c])
                 \/ ~ Gone(Refresh(call[c].pair)) /\ Gone(Refresh(call[c].pair))'
          BY <1>2, <3>4, StepClaimed
        <4>2. CASE Claimed(call[c])
          BY <2>g, <4>1, <4>2 DEF ClaimInv
        <4>3. CASE ~ Gone(Refresh(call[c].pair)) /\ Gone(Refresh(call[c].pair))'
          <5>1. call[c].pair # 0
            BY <4>1 DEF PairIds
          <5>2. ASSUME NEW m \in PairIds, Minted(m)
                PROVE  pair[m].from # call[c].pair
            BY <4>3, <5>1, <5>2 DEF ClaimInv
          <5> QED
            BY <4>1, <4>3, <5>2
        <4> QED
          BY <4>1, <4>2, <4>3
      <3>5. ASSUME NEW c \in Callers, NEW d \in Callers, c # d, call'[c] # Waiting, call'[d] # Waiting,
                   Claimed(call[c])', Claimed(call[d])', call'[c].pair = call'[d].pair
            PROVE  FALSE
        <4>1. /\ call'[c].pair = call[c].pair /\ Busy(c)
              /\ \/ Claimed(call[c])
                 \/ Moves(c) /\ ~ Gone(Refresh(call[c].pair))
          BY <1>2, <3>5, StepClaimed
        <4>2. /\ call'[d].pair = call[d].pair /\ Busy(d)
              /\ \/ Claimed(call[d])
                 \/ Moves(d) /\ ~ Gone(Refresh(call[d].pair))
          BY <1>2, <3>5, StepClaimed
        <4>3. CASE Claimed(call[c]) /\ Claimed(call[d])
          BY <3>5, <4>1, <4>2, <4>3 DEF ClaimInv
        <4>4. CASE Moves(c) /\ ~ Gone(Refresh(call[c].pair))
          <5>1. call'[d] = call[d] /\ Claimed(call[d])
            BY <3>5, <4>4 DEF Moves, Claimed
          <5> QED
            BY <3>5, <4>1, <4>2, <4>4, <5>1 DEF ClaimInv
        <4>5. CASE Moves(d) /\ ~ Gone(Refresh(call[d].pair))
          <5>1. call'[c] = call[c] /\ Claimed(call[c])
            BY <3>5, <4>5 DEF Moves, Claimed
          <5> QED
            BY <3>5, <4>1, <4>2, <4>5, <5>1 DEF ClaimInv
        <4> QED
          BY <4>1, <4>2, <4>3, <4>4, <4>5
      <3> QED
        BY <2>1, <3>1, <3>2, <3>3, <3>4, <3>5 DEF ClaimInv, Busy
    <2>2. ASSUME NEW c \in Callers, Mint(c)
          PROVE  ClaimInv'
      <3> DEFINE n == nextPair
                 f == call[c].pair
      <3>1. /\ call[c].phase = "mint" /\ Busy(c) /\ Moves(c) /\ call'[c] = Waiting
            /\ n \in PairIds /\ ~ Minted(n) /\ pair'[n].from = f
            /\ \A m \in PairIds : m # n => pair'[m] = pair[m]
            /\ UNCHANGED <<expired, local, redis>>
        BY <2>2, MintEffect
      <3>2. f = 0 \/ (f \in PairIds /\ Claimed(call[c]))
        BY <3>1, AtWork DEF Claimed
      <3>3. f # 0 => /\ Gone(Refresh(f))
                     /\ \A m \in PairIds : Minted(m) => pair[m].from # f
        BY <3>1, <3>2 DEF ClaimInv
      <3>4. \A m \in PairIds : Minted(m)' => m = n \/ Minted(m)
        BY <3>1 DEF Minted
      <3>5. \A x : Gone(x)' <=> Gone(x)
        BY <3>1 DEF Gone
      <3>6. \A d \in Callers : call'[d] # Waiting => d # c /\ call'[d] = call[d] /\ Busy(d)
        BY <3>1 DEF Moves, Busy
      <3>7. \A d \in Callers : d # c /\ Busy(d) /\ Claimed(call[d]) => call[d].pair # f
        <4>1. CASE f = 0
          <5>1. \A d \in Callers : Busy(d) /\ Claimed(call[d]) => call[d].pair \in PairIds
            BY AtWork DEF Claimed, Busy, TypeInv, CallRecord, Phases, Routed
          <5> QED
            BY <4>1, <5>1 DEF PairIds
        <4>2. CASE f # 0
          BY <3>1, <3>2, <4>2 DEF ClaimInv
        <4> QED
          BY <4>1, <4>2
      <3> HIDE DEF n, f
      <3>8. \A d \in Callers : Busy(d)' /\ Claimed(call[d])' =>
              /\ Gone(Refresh(call[d].pair))'
              /\ \A m \in PairIds : Minted(m)' => pair'[m].from # call'[d].pair
        <4> SUFFICES ASSUME NEW d \in Callers, Busy(d)', Claimed(call[d])'
                     PROVE  /\ Gone(Refresh(call[d].pair))'
                            /\ \A m \in PairIds : Minted(m)' => pair'[m].from # call'[d].pair
          OBVIOUS
        <4>1. d # c /\ call'[d] = call[d] /\ Busy(d) /\ Claimed(call[d])
          BY <3>6 DEF Busy, Claimed
        <4>2. /\ Gone(Refresh(call[d].pair)) /\ call[d].pair # f
              /\ \A m \in PairIds : Minted(m) => pair[m].from # call[d].pair
          BY <3>7, <4>1 DEF ClaimInv
        <4> QED
          BY <3>1, <3>4, <3>5, <4>1, <4>2 DEF Gone
      <3>9. \A d, e \in Callers :
              Busy(d)' /\ Busy(e)' /\ Claimed(call[d])' /\ Claimed(call[e])'
              /\ call'[d].pair = call'[e].pair => d = e
        BY <3>6 DEF ClaimInv, Busy, Claimed
      <3>a. \A m \in PairIds : Minted(m)' /\ pair'[m].from # 0 => Gone(Refresh(pair[m].from))'
        BY <3>1, <3>3, <3>4, <3>5 DEF ClaimInv, Gone
      <3>b. SingleUse'
        <4> SUFFICES ASSUME NEW m \in PairIds, NEW k \in PairIds, Minted(m)', Minted(k)', m # k,
                            pair'[m].from # 0
                     PROVE  pair'[m].from # pair'[k].from
          BY DEF SingleUse, Minted
        <4>1. CASE m # n /\ k # n
          BY <3>1, <3>4, <4>1 DEF ClaimInv, SingleUse, Minted
        <4>2. CASE m = n
          BY <3>1, <3>3, <3>4, <4>2
        <4>3. CASE k = n
          BY <3>1, <3>3, <3>4, <4>3
        <4> QED
          BY <4>1, <4>2, <4>3
      <3> QED
        BY <3>8, <3>9, <3>a, <3>b DEF ClaimInv
    <2> QED
      BY <2>1, <2>2, StepPairs
  <1> QED
    BY <1>1, <1>2

(* With Redis, no refresh token mints two pairs, at any number of processes  *)
(* and whatever fails, restarts or interleaves.                              *)
THEOREM RefreshIsSingleUse ==
    ASSUME Shared
    PROVE  SessionsSpec => []SingleUse
  <1>1. SessionsInit => ClaimInv
    <2> SUFFICES ASSUME SessionsInit PROVE ClaimInv
      OBVIOUS
    <2>1. PICK old \in SUBSET {0, DefaultTenant} :
          pair = [n \in PairIds |->
                IF n = 1 /\ old # {}
                THEN [tenant |-> CHOOSE t \in old : TRUE, admin |-> FALSE, from |-> 0]
                ELSE NoPair]
      BY DEF SessionsInit
    <2>2. \A n \in PairIds : Minted(n) => n = 1 /\ pair[n].from = 0
      BY <2>1 DEF Minted
    <2>3. \A c \in Callers : ~ Busy(c)
      BY DEF SessionsInit, Busy
    <2> QED
      BY <2>2, <2>3 DEF ClaimInv, SingleUse, Minted
  <1>2. TypeInv /\ ClaimInv /\ [SessionsNext]_sessionVars => ClaimInv'
    BY StepClaim
  <1>3. ClaimInv => SingleUse
    BY DEF ClaimInv
  <1> QED
    BY <1>1, <1>2, <1>3, InitTypes, StepTypes, PTL DEF SessionsSpec

---------------------------------------------------------------------------------
(* A logout is kept where it was answered and in Redis, until the token's    *)
(* time is over; a request it stops does not get past the blacklists.        *)

HeldAt(x, i) == x \in local[i] \cup expired

Stopped(r) ==
    /\ r.op \in {"login", "key"} => ~ r.home /\ ~ r.after
    /\ r.home =>
          /\ r.phase \in {"consume", "check", "probe"}
          /\ IF r.phase = "probe" THEN TokenOf(r) \in expired ELSE HeldAt(TokenOf(r), r.at)
    /\ r.after /\ ~ r.blind =>
          r.phase \in {"consume", "claim", "check", "probe"} /\ Gone(TokenOf(r))
    /\ r.phase \in {"consume", "claim", "check", "probe"} => ~ r.blind
    /\ r.phase \in {"shareAccess", "shareRefresh"} => HeldAt(LogoutToken(r), r.at)

LogoutInv ==
    /\ \A x \in Tokens : out[x] = "yes" => Gone(x)
    /\ \A x \in Tokens, i \in Instances : <<x, i>> \in homes => HeldAt(x, i)
    /\ \A c \in Callers : Busy(c) => Stopped(call[c])
    /\ LogoutHolds

LEMMA HeldStays ==
    ASSUME TypeInv, [SessionsNext]_sessionVars, NEW x \in Tokens, NEW i \in Instances, HeldAt(x, i)
    PROVE  HeldAt(x, i)' \/ RestartProcess(i)
  <1>1. local \in [Instances -> SUBSET Tokens]
    BY DEF TypeInv, SessionsTypeOK
  <1>2. ASSUME NEW y \in Tokens, ExpireToken(y)
        PROVE  HeldAt(x, i)'
    BY <1>1, <1>2 DEF ExpireToken, HeldAt
  <1>3. ASSUME NEW k \in Instances, RestartProcess(k)
        PROVE  HeldAt(x, i)' \/ k = i
    BY <1>1, <1>3 DEF RestartProcess, HeldAt
  <1>4. ASSUME NEW c \in Callers, NEW y, UNCHANGED <<expired, redis>>,
               local' = [local EXCEPT ![call[c].at] = @ \cup {y}]
        PROVE  HeldAt(x, i)'
    BY <1>1, <1>4 DEF HeldAt
  <1>5. ASSUME UNCHANGED <<expired, local>>
        PROVE  HeldAt(x, i)'
    BY <1>5 DEF HeldAt
  <1> QED
    BY <1>2, <1>3, <1>4, <1>5, StepStores

(* A request that does not move stays as it was stopped, or not.             *)
LEMMA StoppedStays ==
    ASSUME TypeInv, [SessionsNext]_sessionVars, NEW c \in Callers, Busy(c), Stopped(call[c]),
           NEW s \in CallRecord, s.op = call[c].op, s.at = call[c].at, s.pair = call[c].pair,
           s.phase = call[c].phase, s.after = call[c].after, s.home = call[c].home,
           s.blind = call[c].blind, call'[c] = s, ~ RestartProcess(s.at)
    PROVE  Stopped(call[c])'
  <1> DEFINE r == call[c]
  <1>1. r \in CallRecord /\ r.phase # "waiting" /\ r.at \in Instances
    BY DEF Busy, TypeInv, CallRecord, Phases
  <1>2. /\ TokenOf(s) = TokenOf(r) /\ LogoutToken(s) = LogoutToken(r)
        /\ TokenOf(call[c])' = TokenOf(s) /\ LogoutToken(call[c])' = LogoutToken(s)
    BY DEF TokenOf, LogoutToken
  <1>3. r.home \/ r.after => TokenOf(r) \in Tokens
    BY <1>1, AtWork DEF Stopped, CallRecord, CallOps
  <1>4. r.phase \in {"shareAccess", "shareRefresh"} => LogoutToken(r) \in Tokens
    BY <1>1, AtWork DEF LogoutToken, Access, Refresh, Tokens
  <1>5. \A x \in Tokens : /\ Gone(x) => Gone(x)'
                          /\ x \in expired => x \in expired'
                          /\ HeldAt(x, r.at) => HeldAt(x, r.at)'
    BY <1>1, HeldStays, StepStoreTypes
  <1>6. /\ s.op \in {"login", "key"} => ~ s.home /\ ~ s.after
        /\ s.home =>
              /\ s.phase \in {"consume", "check", "probe"}
              /\ IF s.phase = "probe" THEN TokenOf(s) \in expired' ELSE HeldAt(TokenOf(s), r.at)'
        /\ s.after /\ ~ s.blind =>
              s.phase \in {"consume", "claim", "check", "probe"} /\ Gone(TokenOf(s))'
        /\ s.phase \in {"consume", "claim", "check", "probe"} => ~ s.blind
        /\ s.phase \in {"shareAccess", "shareRefresh"} => HeldAt(LogoutToken(s), r.at)'
    <2> HIDE DEF r
    <2> QED
      BY <1>2, <1>3, <1>4, <1>5 DEF Stopped, r
  <1> QED
    BY <1>2, <1>6 DEF Stopped, HeldAt, Gone

LEMMA StoppedBegins ==
    ASSUME TypeInv, LogoutInv, NEW c \in Callers, BeginCall(c)
    PROVE  Stopped(call[c])'
  <1> DEFINE s == call'[c]
  <1>1. Begins(c) /\ UNCHANGED <<expired, local, redis>>
    BY BeginsCall DEF BeginCall, storeVars
  <1>2. s \in CallRecord /\ s.op \in CallOps /\ s.at \in Instances /\ s.phase = FirstPhase(s.op)
    BY <1>1 DEF Begins, CallRecord
  <1>3. s.pair # 0 => TokenOf(s) \in Tokens
    BY <1>2, TokenOfIsToken
  <1>4. s.home => s.pair # 0 /\ HeldAt(TokenOf(s), s.at)
    BY <1>1, <1>2, <1>3 DEF Begins, LogoutInv
  <1>5. s.after => s.pair # 0 /\ Gone(TokenOf(s))
    BY <1>1, <1>2, <1>3 DEF Begins, LogoutInv
  <1>6. /\ s.phase \notin {"shareAccess", "shareRefresh", "probe"}
        /\ s.op \notin {"login", "key"} => s.phase \in {"consume", "check"}
    BY <1>2 DEF FirstPhase, CallOps
  <1>7. /\ ~ s.blind /\ (s.pair = 0) = (s.op \in {"login", "key"})
    BY <1>1 DEF Begins
  <1> QED
    BY <1>1, <1>4, <1>5, <1>6, <1>7 DEF Stopped, HeldAt, Gone, TokenOf

LEMMA LogoutTokens ==
    ASSUME TypeInv, NEW c \in Callers,
           call[c].phase \in {"revokeAccess", "shareAccess", "revokeRefresh", "shareRefresh"}
    PROVE  LogoutToken(call[c]) \in Tokens
  BY AtWork DEF LogoutToken, Access, Refresh, Tokens

(* A request that passed the blacklists was not stopped by any.              *)
LEMMA StoppedGoes ==
    ASSUME Shared, TypeInv, LogoutInv, [SessionsNext]_sessionVars, NEW c \in Callers, Serve(c),
           ~ BeginCall(c), call'[c] # Waiting
    PROVE  Stopped(call[c])'
  <1> DEFINE r == call[c]
             s == call'[c]
             x == TokenOf(r)
  <1>1. Goes(c)
    BY ServeGoes
  <1>2. /\ r \in CallRecord /\ r.phase # "waiting" /\ r.at \in Instances /\ Busy(c) /\ Stopped(r)
        /\ s \in CallRecord /\ Same(r, s) /\ s.phase \in Stages(r.op) /\ r.op \in CallOps
    BY <1>1 DEF Goes, Busy, TypeInv, CallRecord, Phases, LogoutInv
  <1>3. TokenOf(s) = x /\ TokenOf(call[c])' = x
    BY <1>2 DEF Same, TokenOf
  <1>4. /\ x \in Tokens /\ Gone(x) => x \in redis' \cup expired'
        /\ x \in Tokens /\ x \in expired => x \in expired'
    BY StepStoreTypes DEF Gone
  <1>5. r.op \notin {"login", "key"} => x \in Tokens
    BY <1>2, AtWork DEF CallOps
  <1>6. local \in [Instances -> SUBSET Tokens]
    BY DEF TypeInv, SessionsTypeOK
  <1>7. SUFFICES
          /\ s.op \in {"login", "key"} => ~ s.home /\ ~ s.after
          /\ s.home =>
                /\ s.phase \in {"consume", "check", "probe"}
                /\ IF s.phase = "probe" THEN x \in expired' ELSE x \in local'[s.at] \cup expired'
          /\ s.after /\ ~ s.blind =>
                s.phase \in {"consume", "claim", "check", "probe"} /\ x \in redis' \cup expired'
          /\ s.phase \in {"consume", "claim", "check", "probe"} => ~ s.blind
          /\ s.phase \in {"shareAccess", "shareRefresh"} => LogoutToken(s) \in local'[s.at] \cup expired'
    BY <1>3 DEF Stopped, HeldAt, Gone, LogoutToken, Access, Refresh
  <1>8. CASE Consume(c)
    <2>1. r.phase = "consume" /\ r.op = "refresh"
      BY <1>8, AtWork DEF Consume, InPhase
    <2>2. x \notin expired \cup local[r.at] /\ Turn(c, "claim")
      BY <1>8, Answers DEF Consume
    <2>3. s.phase = "claim" /\ s.blind = r.blind
      BY <1>2, <2>1, <2>2, Turns DEF Stages
    <2>4. ~ r.home /\ ~ r.blind
      BY <1>2, <2>1, <2>2 DEF Stopped, HeldAt
    <2>5. r.after => x \in redis' \cup expired'
      BY <1>2, <1>4, <1>5, <2>1, <2>4 DEF Stopped
    <2> HIDE DEF r, s, x
    <2> QED
      BY <1>2, <2>1, <2>3, <2>4, <2>5 DEF Same
  <1>9. CASE Claim(c) \/ ClaimFails(c)
    <2>1. r.phase = "claim" /\ r.op = "refresh"
      BY <1>9, AtWork DEF Claim, ClaimFails, InPhase
    <2>2. x \notin expired \cup redis /\ Turn(c, "user")
      BY <1>9, Answers DEF Claim, ClaimFails, Refuse
    <2>3. s.phase = "user" /\ s.blind = r.blind
      BY <1>2, <2>1, <2>2, Turns DEF Stages
    <2>4. ~ r.home /\ ~ r.after
      BY <1>2, <2>1, <2>2 DEF Stopped, Gone
    <2> HIDE DEF r, s, x
    <2> QED
      BY <1>2, <2>1, <2>3, <2>4 DEF Same
  <1>a. CASE IsRevokedHere(c)
    <2>1. r.phase = "check" /\ r.op \in {"serve", "logout"}
      BY <1>a, AtWork DEF IsRevokedHere, InPhase
    <2>2. x \notin local[r.at] /\ Turn(c, "probe")
      BY <1>a, Answers DEF IsRevokedHere
    <2>3. s.phase = "probe" /\ s.blind = r.blind
      BY <1>2, <2>1, <2>2, Turns DEF Stages
    <2>4. r.home => x \in expired'
      BY <1>2, <1>4, <1>5, <2>1, <2>2 DEF Stopped, HeldAt
    <2>5. ~ r.blind /\ (r.after => x \in redis' \cup expired')
      BY <1>2, <1>4, <1>5, <2>1 DEF Stopped
    <2> HIDE DEF r, s, x
    <2> QED
      BY <1>2, <2>1, <2>3, <2>4, <2>5 DEF Same
  <1>b. CASE IsRevokedThere(c) \/ ProbeFails(c)
    <2>1. r.phase = "probe" /\ r.op \in {"serve", "logout"}
      BY <1>b, AtWork DEF IsRevokedThere, ProbeFails, InPhase
    <2>2. PICK sightless \in BOOLEAN : Validate(c, sightless) /\ (~ sightless => x \notin redis)
      BY <1>b, Answers DEF IsRevokedThere, ProbeFails
    <2>3. x \notin expired
      BY <2>2, Changes DEF Validate
    <2>4. s = [r EXCEPT !.phase = "user", !.blind = sightless]
      BY <2>2, <2>3 DEF Validate, TypeInv
    <2>5. s.phase = "user" /\ s.blind = sightless
      BY <1>2, <2>4 DEF CallRecord
    <2>6. ~ r.home /\ (r.after => sightless)
      BY <1>2, <2>1, <2>2, <2>3 DEF Stopped, Gone
    <2> HIDE DEF r, s, x
    <2> QED
      BY <1>2, <2>1, <2>5, <2>6 DEF Same
  <1>c. CASE RevokeHere(c) \/ RevokeThere(c) \/ RevokeIsLost(c)
    <2>1. /\ r.phase \in {"revokeAccess", "shareAccess", "revokeRefresh", "shareRefresh"}
          /\ \E lost \in BOOLEAN : Leave(c, lost)
          /\ r.phase \in {"revokeAccess", "revokeRefresh"} => RevokeHere(c)
      BY <1>c DEF RevokeHere, RevokeThere, RevokeIsLost, InPhase
    <2>2. /\ LogoutToken(r) \in Tokens /\ r.op = "logout"
          /\ \/ r.phase = "revokeAccess" /\ s.phase = "shareAccess"
             \/ r.phase = "revokeRefresh" /\ s.phase = "shareRefresh"
             \/ s.phase = "revokeRefresh"
      BY <2>1, LeaveGoes, AtWork
    <2>3. s.phase \in {"shareAccess", "shareRefresh"} =>
             LogoutToken(r) \in local'[r.at] \cup expired' /\ LogoutToken(s) = LogoutToken(r)
      <3>1. ASSUME s.phase \in {"shareAccess", "shareRefresh"}
            PROVE  RevokeHere(c) /\ LogoutToken(s) = LogoutToken(r)
        BY <1>2, <2>1, <2>2, <3>1 DEF LogoutToken, Same
      <3>2. RevokeHere(c) => LogoutToken(r) \in local'[r.at] \cup expired'
        BY <1>2, <1>6 DEF RevokeHere
      <3> QED
        BY <3>1, <3>2
    <2>4. ~ r.home /\ (r.after => r.blind) /\ s.blind = r.blind
      BY <1>2, <2>1 DEF Stopped, Same
    <2> HIDE DEF r, s, x
    <2> QED
      BY <1>2, <2>2, <2>3, <2>4 DEF Same
  <1>d. CASE \/ FindKey(c) \/ FindUser(c) \/ TryDefault(c) \/ FindUserMemberships(c)
             \/ TryMembership(c) \/ FindTenant(c) \/ FindMembership(c) \/ Mint(c)
    <2>1. r.phase \in {"key", "user", "default", "memberships", "try", "tenant", "member", "mint"}
      BY <1>d DEF FindKey, FindUser, TryDefault, FindUserMemberships, TryMembership, FindTenant,
                  FindMembership, Mint, InPhase
    <2>2. ~ r.home /\ (r.after => r.blind) /\ s.blind = r.blind
      BY <1>2, <2>1 DEF Stopped, Same
    <2>3. s.phase \notin {"shareAccess", "shareRefresh", "consume", "claim", "check", "probe"}
      <3>1. CASE FindUser(c)
        BY <3>1, FindUserGoes
      <3>2. CASE FindTenant(c) \/ FindMembership(c) \/ Mint(c)
        <4>1. \/ \E phase \in {"mint", "member"} : Turn(c, phase)
              \/ Answer(c)
          BY <3>2 DEF FindTenant, FindMembership, Mint, Refuse
        <4> QED
          BY <1>2, <4>1, Answers DEF Turn, TypeInv, CallRecord
      <3>3. CASE FindKey(c)
        <4>1. s = [r EXCEPT !.phase = "user", !.tenant = DefaultTenant]
          BY <3>3, Answers DEF FindKey, TypeInv
        <4> QED
          BY <1>2, <4>1 DEF CallRecord
      <3>4. CASE TryDefault(c)
        <4>1. s = IF r.admin /\ DefaultTenant \in open
                  THEN [r EXCEPT !.phase = "mint", !.tenant = DefaultTenant]
                  ELSE [r EXCEPT !.phase = "memberships"]
          BY <3>4 DEF TryDefault, TypeInv
        <4> QED
          BY <1>2, <4>1 DEF CallRecord
      <3>5. CASE FindUserMemberships(c)
        <4>1. s = [r EXCEPT !.phase = "try", !.left = member]
          BY <3>5 DEF FindUserMemberships, TypeInv
        <4> QED
          BY <1>2, <4>1 DEF CallRecord
      <3>6. CASE TryMembership(c)
        <4>1. r.phase = "try"
          BY <3>6 DEF TryMembership, InPhase
        <4>2. \/ s = [r EXCEPT !.phase = "mint", !.tenant = DefaultTenant]
              \/ \E t : s = [r EXCEPT !.phase = "mint", !.tenant = t]
              \/ \E t : s = [r EXCEPT !.left = @ \ {t}]
          BY <3>6, Answers DEF TryMembership, Refuse, TypeInv
        <4> QED
          BY <1>2, <4>1, <4>2 DEF CallRecord
      <3> QED
        BY <1>d, <3>1, <3>2, <3>3, <3>4, <3>5, <3>6
    <2> HIDE DEF r, s, x
    <2> QED
      BY <1>2, <2>2, <2>3 DEF Same, Stopped
  <1> QED
    BY <1>8, <1>9, <1>a, <1>b, <1>c, <1>d DEF Serve

LEMMA StepGrants ==
    ASSUME TypeInv, [SessionsNext]_sessionVars
    PROVE  \/ UNCHANGED misuse
           \/ \E c \in Callers : /\ Grant(call[c])
                                 /\ \/ FindTenant(c) /\ call[c].op = "serve" /\ call[c].admin
                                                     /\ call[c].tenant \in open
                                    \/ FindMembership(c) /\ call[c].tenant \in member
                                                         /\ call[c].op # "refresh"
                                    \/ Mint(c)
  <1>1. CASE \E c \in Callers : FindTenant(c) \/ FindMembership(c) \/ Mint(c)
    BY <1>1 DEF FindTenant, FindMembership, Mint
  <1>2. CASE ~ \E c \in Callers : FindTenant(c) \/ FindMembership(c) \/ Mint(c)
    BY <1>2 DEF SessionsNext, Serve, BeginCall, Consume, Claim, ClaimFails, IsRevokedHere,
         IsRevokedThere, ProbeFails, FindKey, FindUser, TryDefault, FindUserMemberships,
         TryMembership, RevokeHere, RevokeThere, RevokeIsLost, ChangeRows, ExpireToken,
         RestartProcess, sessionVars, pastVars
  <1> QED
    BY <1>1, <1>2

(* What a step marks as logged out is blacklisted.                           *)
LEMMA StepLogoutMarks ==
    ASSUME Shared, TypeInv, LogoutInv, [SessionsNext]_sessionVars
    PROVE  /\ \A x \in Tokens : out'[x] = "yes" => Gone(x)'
           /\ \A x \in Tokens, i \in Instances : <<x, i>> \in homes' => HeldAt(x, i)'
  <1>1. /\ out \in [Tokens -> {"no", "yes", "unheard"}]
        /\ \A x \in Tokens : Gone(x) => Gone(x)'
        /\ \A x \in Tokens : out[x] = "yes" => Gone(x)
    BY StepStoreTypes DEF TypeInv, SessionsTypeOK, LogoutInv
  <1>2. ASSUME NEW x \in Tokens, NEW i \in Instances, HeldAt(x, i), <<x, i>> \in homes'
        PROVE  HeldAt(x, i)'
    <2>1. ~ RestartProcess(i)
      BY <1>2 DEF RestartProcess
    <2> QED
      BY <1>2, <2>1, HeldStays
  <1>3. CASE UNCHANGED <<out, homes>>
    BY <1>1, <1>2, <1>3 DEF LogoutInv
  <1>4. ASSUME NEW i \in Instances, RestartProcess(i), UNCHANGED out
        PROVE  /\ \A x \in Tokens : out'[x] = "yes" => Gone(x)'
               /\ \A x \in Tokens, k \in Instances : <<x, k>> \in homes' => HeldAt(x, k)'
    <2>1. homes' \subseteq homes
      BY <1>4 DEF RestartProcess
    <2> QED
      BY <1>1, <1>2, <1>4, <2>1 DEF LogoutInv
  <1>5. ASSUME NEW c \in Callers, NEW lost \in BOOLEAN, Leave(c, lost),
               IF lost THEN RevokeIsLost(c) ELSE RevokeHere(c) \/ RevokeThere(c),
               call[c].phase \in {"revokeAccess", "shareAccess", "revokeRefresh", "shareRefresh"},
               ~ UNCHANGED <<out, homes>>
        PROVE  /\ \A x \in Tokens : out'[x] = "yes" => Gone(x)'
               /\ \A x \in Tokens, i \in Instances : <<x, i>> \in homes' => HeldAt(x, i)'
    <2>1. PICK y : y = LogoutToken(call[c])
      OBVIOUS
    <2>2. PICK a : a = call[c].at
      OBVIOUS
    <2>3. /\ y \in Tokens /\ a \in Instances /\ call[c].phase \in {"shareAccess", "shareRefresh"}
          /\ out' = [out EXCEPT ![y] = IF lost /\ @ # "yes" THEN "unheard" ELSE "yes"]
          /\ homes' = homes \cup {<<y, a>>}
      BY <1>5, <2>1, <2>2, LeaveGoes, AtWork
    <2>4. Busy(c) /\ HeldAt(y, a)
      BY <1>5, <2>1, <2>2, <2>3, Engaged DEF LogoutInv, Stopped
    <2>5. ~ lost => Gone(y)'
      <3> SUFFICES ASSUME ~ lost PROVE y \in redis' \cup expired'
        BY DEF Gone
      <3>1. RevokeThere(c)
        BY <1>5, <2>3 DEF RevokeHere, InPhase
      <3> QED
        BY <2>1, <3>1 DEF RevokeThere
    <2>6. \A x \in Tokens : out'[x] = "yes" => Gone(x)'
      BY <1>1, <2>3, <2>5
    <2>7. ASSUME NEW x \in Tokens, NEW i \in Instances, <<x, i>> \in homes'
          PROVE  HeldAt(x, i)
      <3>1. <<x, i>> \in homes \/ (x = y /\ i = a)
        BY <2>3, <2>7
      <3> QED
        BY <2>4, <3>1 DEF LogoutInv
    <2> QED
      BY <1>2, <2>6, <2>7
  <1> QED
    BY <1>3, <1>4, <1>5, StepLogouts

LEMMA StepLogout ==
    ASSUME Shared, TypeInv, LogoutInv, [SessionsNext]_sessionVars
    PROVE  LogoutInv'
  <1>1. ASSUME NEW c \in Callers, call'[c] # Waiting
        PROVE  Stopped(call[c])'
    <2> DEFINE s == call'[c]
    <2>1. ASSUME Busy(c), call[c] \in CallRecord, s \in CallRecord, s.op = call[c].op,
                 s.at = call[c].at, s.pair = call[c].pair,
                 s.phase = call[c].phase, s.after = call[c].after, s.home = call[c].home,
                 s.blind = call[c].blind
          PROVE  Stopped(call[c])'
      <3>1. ~ RestartProcess(s.at)
        BY <1>1, <2>1 DEF RestartProcess, Busy
      <3>2. Stopped(call[c])
        BY <2>1 DEF LogoutInv
      <3> QED
        BY <2>1, <3>1, <3>2, StoppedStays
    <2>2. Busy(c) => call[c] \in CallRecord
      BY DEF Busy, TypeInv
    <2>3. CASE call'[c] = call[c]
      BY <1>1, <2>1, <2>2, <2>3 DEF Busy
    <2>4. CASE ChangeRows
      <3>1. PICK f : /\ ~ InPhase(c, "waiting")
                     /\ s = [call[c] EXCEPT !.never = @ \ f]
        BY <1>1, <2>4 DEF ChangeRows
      <3>2. Busy(c)
        BY <3>1 DEF Busy, InPhase, Waiting
      <3> QED
        BY <2>1, <2>2, <3>1, <3>2 DEF CallRecord
    <2>5. CASE Serve(c)
      <3>1. CASE BeginCall(c)
        BY <3>1, StoppedBegins
      <3>2. CASE ~ BeginCall(c)
        BY <1>1, <2>5, <3>2, StoppedGoes
      <3> QED
        BY <3>1, <3>2
    <2>6. ASSUME NEW d \in Callers, d # c, Serve(d)
          PROVE  call'[c] = call[c]
      BY <2>6, ServeGoes, BeginsCall DEF Goes, Begins, Moves
    <2>7. ASSUME NEW i \in Instances, RestartProcess(i)
          PROVE  call'[c] = call[c]
      BY <1>1, <2>7 DEF RestartProcess
    <2>8. CASE UNCHANGED sessionVars \/ \E x \in Tokens : ExpireToken(x)
      BY <2>8, <2>3 DEF ExpireToken, sessionVars
    <2> QED
      BY <2>3, <2>4, <2>5, <2>6, <2>7, <2>8 DEF SessionsNext
  <1>2. LogoutHolds'
    <2>1. ASSUME NEW c \in Callers, Grant(call[c]),
                 call[c].phase \in {"tenant", "member", "mint"}
          PROVE  LogoutHolds'
      <3>1. ~ call[c].home /\ (call[c].after => call[c].blind)
        BY <2>1, Engaged DEF LogoutInv, Stopped
      <3> QED
        BY <2>1, <3>1 DEF Grant, LogoutInv, LogoutHolds
    <2> QED
      BY <2>1, StepGrants DEF FindTenant, FindMembership, Mint, InPhase, LogoutInv, LogoutHolds
  <1> QED
    BY <1>1, <1>2, StepLogoutMarks DEF LogoutInv, Busy

(* With Redis, a token whose logout was answered admits nothing that begins  *)
(* after it, but where Redis refused the logout's write or the request's     *)
(* read; at the process that still remembers it, nothing at all.             *)
THEOREM LogoutIsLasting ==
    ASSUME Shared
    PROVE  SessionsSpec => []LogoutHolds
  <1>1. SessionsInit => LogoutInv
    BY DEF SessionsInit, LogoutInv, Busy, LogoutHolds
  <1>2. TypeInv /\ LogoutInv /\ [SessionsNext]_sessionVars => LogoutInv'
    BY StepLogout
  <1>3. LogoutInv => LogoutHolds
    BY DEF LogoutInv
  <1> QED
    BY <1>1, <1>2, <1>3, InitTypes, StepTypes, PTL DEF SessionsSpec

---------------------------------------------------------------------------------
(* What a request has read was so when it read it.                           *)

Read(r) ==
    /\ r.never \cap FactsOf(user, open, member, key) = {}
    /\ r.phase \in {"default", "memberships", "try", "tenant", "member", "mint"} =>
          <<0, "active">> \notin r.never /\ (r.admin => <<0, "admin">> \notin r.never)
    /\ r.op = "key" /\ r.phase # "key" => <<0, "key">> \notin r.never
    /\ r.phase = "try" => \A t \in r.left : <<t, "member">> \notin r.never
    /\ r.phase = "member" => <<r.tenant, "open">> \notin r.never
    /\ r.phase = "mint" /\ r.op = "refresh" =>
          <<r.tenant, "open">> \notin r.never
          /\ (r.admin \/ <<r.tenant, "member">> \notin r.never)

RowsInv ==
    /\ \A c \in Callers : Busy(c) => Read(call[c])
    /\ GrantsFollowRows

(* The library's theorem on well-founded relations, for a set of numbers.    *)
LEMMA LeastOf ==
    ASSUME NEW S, S \subseteq Nat, S # {}
    PROVE  \E t \in S : \A s \in S : t <= s
  <1> DEFINE R == {ss \in Nat \X Nat : ss[1] < ss[2]}
  <1>1. IsWellFoundedOn(R, Nat)
    BY NatLessThanWellFounded DEF OpToRel
  <1> HIDE DEF R
  <1>2. PICK t \in S : \A s \in S : ~ (<<s, t>> \in R)
    BY <1>1, WFMin
  <1> SUFFICES ASSUME NEW s \in S PROVE t <= s
    OBVIOUS
  <1>3. s \in Nat /\ t \in Nat /\ <<s, t>> \notin R
    BY <1>2
  <1>4. ~ (s < t)
    BY <1>3 DEF R
  <1> QED
    BY <1>3, <1>4

LEMMA FirstIsOne ==
    ASSUME NEW S \in SUBSET Tenants, S # {}
    PROVE  FirstOf(S) \in S
  <1>1. \E t \in S : \A s \in S : t <= s
    BY LeastOf, TenantAssumption
  <1> QED
    BY <1>1 DEF FirstOf

RowsNow == FactsOf(user, open, member, key)

LEMMA RowsTell ==
    ASSUME TypeInv
    PROVE  /\ user.active => <<0, "active">> \in RowsNow
           /\ user.admin => <<0, "admin">> \in RowsNow
           /\ key => <<0, "key">> \in RowsNow
           /\ \A t \in open : <<t, "open">> \in RowsNow
           /\ \A t \in member : <<t, "member">> \in RowsNow
  <1>1. user.active = user["active"] /\ user.admin = user["admin"]
    OBVIOUS
  <1> QED
    BY <1>1 DEF RowsNow, FactsOf

LEMMA ReadGoes ==
    ASSUME TypeInv, RowsInv, NEW c \in Callers, Serve(c), ~ BeginCall(c), call'[c] # Waiting
    PROVE  Read(call'[c])
  <1> DEFINE r == call[c]
             s == call'[c]
  <1>1. /\ r \in CallRecord /\ r.phase # "waiting" /\ Read(r)
        /\ s \in CallRecord /\ Same(r, s) /\ s.never = r.never /\ s.op = r.op
    BY ServeGoes DEF Goes, Busy, TypeInv, CallRecord, Phases, RowsInv, Same
  <1>2. /\ r.never \cap RowsNow = {}
        /\ \A f \in RowsNow : f \notin r.never
    BY <1>1 DEF Read, RowsNow
  <1>3. r.op = "key" /\ r.phase # "key" => <<0, "key">> \notin r.never
    BY <1>1 DEF Read
  <1>4. CASE Consume(c) \/ Claim(c) \/ ClaimFails(c) \/ IsRevokedHere(c) \/ IsRevokedThere(c) \/ ProbeFails(c)
    <2>1. r.op \in {"refresh", "serve", "logout"}
      BY <1>4, AtWork DEF Consume, Claim, ClaimFails, IsRevokedHere, IsRevokedThere, ProbeFails, InPhase
    <2>2. s.phase \in {"claim", "user", "probe"}
      <3>1. \/ \E phase \in {"claim", "user", "probe"} : Turn(c, phase)
            \/ Answer(c)
            \/ \E sightless \in BOOLEAN : Validate(c, sightless)
        BY <1>4 DEF Consume, Claim, ClaimFails, IsRevokedHere, IsRevokedThere, ProbeFails, Refuse
      <3>2. \/ \E phase \in {"claim", "user", "probe"} : s = [r EXCEPT !.phase = phase]
            \/ \E sightless \in BOOLEAN : s = [r EXCEPT !.phase = "user", !.blind = sightless]
        BY <3>1, Answers DEF Turn, Validate, TypeInv
      <3> QED
        BY <1>1, <3>2 DEF CallRecord
    <2> HIDE DEF r, s
    <2> QED
      BY <1>1, <1>2, <2>1, <2>2 DEF Read, RowsNow, s
  <1>5. CASE FindKey(c)
    <2>1. key /\ s = [r EXCEPT !.phase = "user", !.tenant = DefaultTenant]
      BY <1>5, Answers DEF FindKey, TypeInv
    <2>2. s.phase = "user"
      BY <1>1, <2>1 DEF CallRecord
    <2>3. <<0, "key">> \notin s.never
      BY <1>1, <1>2, <2>1, RowsTell
    <2> HIDE DEF r, s
    <2> QED
      BY <1>1, <1>2, <2>2, <2>3 DEF Read, RowsNow, s
  <1>6. CASE FindUser(c)
    <2>1. /\ r.phase = "user" /\ user.active /\ s.admin = user.admin
          /\ s.phase \in {"default", "revokeAccess", "tenant"}
      BY <1>6, FindUserGoes DEF FindUser, InPhase
    <2>2. <<0, "active">> \notin s.never /\ (s.admin => <<0, "admin">> \notin s.never)
      BY <1>1, <1>2, <2>1, RowsTell
    <2> HIDE DEF r, s
    <2> QED
      BY <1>1, <1>2, <1>3, <2>1, <2>2 DEF Read, RowsNow, s
  <1>7. ASSUME r.phase \in {"default", "memberships", "try", "tenant", "member"},
               s.admin = r.admin,
               s.phase \in {"default", "memberships", "try", "tenant", "member", "mint"},
               s.phase = "try" => \A t \in s.left : <<t, "member">> \notin r.never,
               s.phase = "member" => <<s.tenant, "open">> \notin r.never,
               s.phase = "mint" /\ r.op = "refresh" =>
                  <<s.tenant, "open">> \notin r.never
                  /\ (s.admin \/ <<s.tenant, "member">> \notin r.never)
        PROVE  Read(s)
    <2>1. <<0, "active">> \notin r.never /\ (r.admin => <<0, "admin">> \notin r.never)
      BY <1>1, <1>7 DEF Read
    <2>2. r.phase # "key"
      BY <1>7
    <2> HIDE DEF r, s
    <2> QED
      BY <1>1, <1>2, <1>3, <1>7, <2>1, <2>2 DEF Read, RowsNow
  <1>8. CASE TryDefault(c)
    <2>1. r.phase = "default"
      BY <1>8 DEF TryDefault, InPhase
    <2>2. s = IF r.admin /\ DefaultTenant \in open
              THEN [r EXCEPT !.phase = "mint", !.tenant = DefaultTenant]
              ELSE [r EXCEPT !.phase = "memberships"]
      BY <1>8 DEF TryDefault, TypeInv
    <2>3. /\ s.admin = r.admin /\ s.phase \in {"mint", "memberships"}
          /\ s.phase = "mint" => s.admin /\ s.tenant = DefaultTenant /\ DefaultTenant \in open
      BY <1>1, <2>2 DEF CallRecord
    <2> HIDE DEF r, s
    <2>4. Read(s)
      BY <1>2, <1>7, <2>1, <2>3, RowsTell
    <2> QED
      BY <2>4 DEF s
  <1>9. CASE FindUserMemberships(c)
    <2>1. r.phase = "memberships"
      BY <1>9 DEF FindUserMemberships, InPhase
    <2>2. s = [r EXCEPT !.phase = "try", !.left = member]
      BY <1>9 DEF FindUserMemberships, TypeInv
    <2>3. s.admin = r.admin /\ s.phase = "try" /\ s.left = member
      BY <1>1, <2>2 DEF CallRecord
    <2> HIDE DEF r, s
    <2>4. Read(s)
      BY <1>2, <1>7, <2>1, <2>3, RowsTell
    <2> QED
      BY <2>4 DEF s
  <1>a. CASE TryMembership(c)
    <2>1. r.phase = "try" /\ r.op \in {"login", "refresh"}
      BY <1>a, AtWork DEF TryMembership, InPhase
    <2>2. \A t \in r.left : <<t, "member">> \notin r.never
      BY <1>1, <2>1 DEF Read
    <2>3. r.left \in SUBSET Tenants
      BY <1>1 DEF CallRecord
    <2>4. CASE r.left = {}
      <3>1. s = [r EXCEPT !.phase = "mint", !.tenant = DefaultTenant] /\ r.op = "login"
        BY <1>a, <2>4, Answers DEF TryMembership, Refuse, TypeInv
      <3>2. s.admin = r.admin /\ s.phase = "mint"
        BY <1>1, <3>1 DEF CallRecord
      <3> HIDE DEF r, s
      <3>3. Read(s)
        BY <1>7, <2>1, <3>1, <3>2
      <3> QED
        BY <3>3 DEF s
    <2>5. CASE r.left # {}
      <3> DEFINE t == FirstOf(r.left)
      <3>1. t \in r.left
        BY <2>3, <2>5, FirstIsOne
      <3>2. s = IF t \in open THEN [r EXCEPT !.phase = "mint", !.tenant = t]
                ELSE [r EXCEPT !.left = @ \ {t}]
        BY <1>a, <2>5 DEF TryMembership, TypeInv
      <3> HIDE DEF t
      <3>3. /\ s.admin = r.admin /\ s.phase \in {"mint", "try"}
            /\ s.phase = "mint" => s.tenant = t /\ t \in open
            /\ s.phase = "try" => s.left \subseteq r.left
        BY <1>1, <2>1, <3>2 DEF CallRecord
      <3> HIDE DEF r, s
      <3>4. Read(s)
        BY <1>2, <1>7, <2>1, <2>2, <3>1, <3>3, RowsTell
      <3> QED
        BY <3>4 DEF s
    <2> QED
      BY <2>4, <2>5
  <1>b. CASE FindTenant(c)
    <2>1. /\ r.phase = "tenant" /\ r.tenant \in open
          /\ Turn(c, IF r.admin /\ r.op = "refresh" THEN "mint" ELSE "member")
      BY <1>b, Answers DEF FindTenant, InPhase, Refuse
    <2>2. s = [r EXCEPT !.phase = IF r.admin /\ r.op = "refresh" THEN "mint" ELSE "member"]
      BY <2>1 DEF Turn, TypeInv
    <2>3. /\ s.admin = r.admin /\ s.phase \in {"mint", "member"} /\ s.tenant = r.tenant
          /\ s.phase = "mint" => s.admin
      BY <1>1, <2>2 DEF CallRecord
    <2> HIDE DEF r, s
    <2>4. Read(s)
      BY <1>2, <1>7, <2>1, <2>3, RowsTell
    <2> QED
      BY <2>4 DEF s
  <1>c. CASE FindMembership(c)
    <2>1. /\ r.phase = "member" /\ r.tenant \in member
          /\ Turn(c, "mint")
      BY <1>c, Answers DEF FindMembership, InPhase, Refuse
    <2>2. s = [r EXCEPT !.phase = "mint"]
      BY <2>1 DEF Turn, TypeInv
    <2>3. s.admin = r.admin /\ s.phase = "mint" /\ s.tenant = r.tenant
      BY <1>1, <2>2 DEF CallRecord
    <2>4. <<r.tenant, "open">> \notin r.never
      BY <1>1, <2>1 DEF Read
    <2> HIDE DEF r, s
    <2>5. Read(s)
      BY <1>2, <1>7, <2>1, <2>3, <2>4, RowsTell
    <2> QED
      BY <2>5 DEF s
  <1>d. CASE RevokeHere(c) \/ RevokeThere(c) \/ RevokeIsLost(c)
    <2>1. /\ r.phase \in {"revokeAccess", "shareAccess", "revokeRefresh", "shareRefresh"}
          /\ \E lost \in BOOLEAN : Leave(c, lost)
      BY <1>d DEF RevokeHere, RevokeThere, RevokeIsLost, InPhase
    <2>2. r.op = "logout" /\ s.phase \in {"shareAccess", "shareRefresh", "revokeRefresh"}
      BY <2>1, LeaveGoes, AtWork
    <2> HIDE DEF r, s
    <2> QED
      BY <1>1, <1>2, <2>2 DEF Read, RowsNow, s
  <1>e. CASE Mint(c)
    BY <1>e, Answers DEF Mint
  <1> QED
    BY <1>4, <1>5, <1>6, <1>8, <1>9, <1>a, <1>b, <1>c, <1>d, <1>e DEF Serve

LEMMA GrantedRows ==
    ASSUME TypeInv, RowsInv, [SessionsNext]_sessionVars
    PROVE  GrantsFollowRows'
  <1>1. CASE UNCHANGED misuse
    BY <1>1 DEF RowsInv, GrantsFollowRows
  <1>2. ASSUME NEW c \in Callers, Grant(call[c]), Needs(call[c]) \cap call[c].never = {}
        PROVE  GrantsFollowRows'
    BY <1>2 DEF Grant, RowsInv, GrantsFollowRows
  <1>3. ASSUME NEW c \in Callers, call[c].phase \in {"tenant", "member", "mint"}
        PROVE  /\ Read(call[c]) /\ call[c].op \in CallOps
               /\ call[c].never \cap RowsNow = {}
               /\ <<0, "active">> \notin call[c].never
               /\ call[c].admin => <<0, "admin">> \notin call[c].never
               /\ call[c].op = "key" => <<0, "key">> \notin call[c].never
    BY <1>3, Engaged DEF RowsInv, Read, RowsNow, CallRecord
  <1>4. ASSUME NEW c \in Callers, FindTenant(c), call[c].op = "serve", call[c].admin,
               call[c].tenant \in open
        PROVE  Needs(call[c]) \cap call[c].never = {}
    <2>1. <<call[c].tenant, "open">> \notin call[c].never
      BY <1>3, <1>4, RowsTell DEF FindTenant, InPhase
    <2> QED
      BY <1>3, <1>4, <2>1 DEF Needs, FindTenant, InPhase
  <1>5. ASSUME NEW c \in Callers, FindMembership(c), call[c].tenant \in member,
               call[c].op # "refresh"
        PROVE  Needs(call[c]) \cap call[c].never = {}
    <2>1. call[c].phase = "member"
      BY <1>5 DEF FindMembership, InPhase
    <2>2. /\ <<call[c].tenant, "open">> \notin call[c].never
          /\ <<call[c].tenant, "member">> \notin call[c].never
      BY <1>3, <1>5, <2>1, RowsTell DEF Read
    <2> QED
      BY <1>3, <2>1, <2>2 DEF Needs
  <1>6. ASSUME NEW c \in Callers, Mint(c)
        PROVE  Needs(call[c]) \cap call[c].never = {}
    <2>1. call[c].phase = "mint" /\ call[c].op \in {"login", "refresh"}
      BY <1>6, AtWork DEF Mint, InPhase
    <2>2. call[c].op = "refresh" =>
             /\ <<call[c].tenant, "open">> \notin call[c].never
             /\ call[c].admin \/ <<call[c].tenant, "member">> \notin call[c].never
      BY <1>3, <2>1 DEF Read
    <2> QED
      BY <1>3, <2>1, <2>2 DEF Needs
  <1> QED
    BY <1>1, <1>2, <1>4, <1>5, <1>6, StepGrants

LEMMA StepRowsRead ==
    ASSUME TypeInv, RowsInv, [SessionsNext]_sessionVars
    PROVE  RowsInv'
  <1>1. ASSUME NEW c \in Callers, call'[c] # Waiting
        PROVE  Read(call[c])'
    <2>1. ASSUME UNCHANGED <<user, open, member, key>>, Read(call'[c])
          PROVE  Read(call[c])'
      BY <2>1 DEF Read
    <2>2. CASE call'[c] = call[c] /\ UNCHANGED <<user, open, member, key>>
      BY <1>1, <2>1, <2>2 DEF RowsInv, Busy
    <2>3. CASE Serve(c)
      <3>1. CASE BeginCall(c)
        <4>1. Begins(c) /\ UNCHANGED <<user, open, member, key>>
          BY <3>1, BeginsCall DEF BeginCall, dbVars
        <4> DEFINE s == call'[c]
        <4>2. /\ s.never = Facts \ RowsNow
              /\ s.phase \in {"user", "consume", "check", "key"}
              /\ s.op = "key" => s.phase = "key"
          BY <4>1 DEF Begins, FirstPhase, CallRecord, CallOps, RowsNow
        <4> HIDE DEF s
        <4>3. Read(s)
          BY <4>2 DEF Read, RowsNow
        <4> QED
          BY <2>1, <4>1, <4>3 DEF s
      <3>2. CASE ~ BeginCall(c)
        <4>1. UNCHANGED <<user, open, member, key>>
          BY <2>3 DEF Serve, BeginCall, Consume, Claim, ClaimFails, IsRevokedHere,
             IsRevokedThere, ProbeFails, FindKey, FindUser, TryDefault, FindUserMemberships,
             TryMembership, FindTenant, FindMembership, Mint, RevokeHere, RevokeThere,
             RevokeIsLost, dbVars
        <4> QED
          BY <1>1, <2>1, <2>3, <3>2, <4>1, ReadGoes
      <3> QED
        BY <3>1, <3>2
    <2>4. CASE ChangeRows
      <3> DEFINE r == call[c]
                 F == FactsOf(user', open', member', key')
                 s == call'[c]
      <3>1. r.phase # "waiting" /\ s = [r EXCEPT !.never = @ \ F]
        BY <1>1, <2>4 DEF ChangeRows, InPhase
      <3>2. r \in CallRecord /\ Read(r)
        BY <3>1, Engaged DEF RowsInv
      <3>3. /\ s.phase = r.phase /\ s.op = r.op /\ s.admin = r.admin /\ s.tenant = r.tenant
            /\ s.left = r.left /\ s.never = r.never \ F
        BY <3>1, <3>2 DEF CallRecord
      <3>4. s.never \cap F = {}
        BY <3>3
      <3>5. /\ s.phase \in {"default", "memberships", "try", "tenant", "member", "mint"} =>
                  <<0, "active">> \notin s.never /\ (s.admin => <<0, "admin">> \notin s.never)
            /\ s.op = "key" /\ s.phase # "key" => <<0, "key">> \notin s.never
            /\ s.phase = "try" => \A t \in s.left : <<t, "member">> \notin s.never
            /\ s.phase = "member" => <<s.tenant, "open">> \notin s.never
            /\ s.phase = "mint" /\ s.op = "refresh" =>
                  <<s.tenant, "open">> \notin s.never
                  /\ (s.admin \/ <<s.tenant, "member">> \notin s.never)
        <4> HIDE DEF r, s, F
        <4> QED
          BY <3>2, <3>3 DEF Read
      <3> QED
        BY <3>4, <3>5 DEF Read
    <2>5. ASSUME NEW d \in Callers, d # c, Serve(d)
          PROVE  call'[c] = call[c]
      BY <2>5, ServeGoes, BeginsCall DEF Goes, Begins, Moves
    <2>6. ASSUME NEW i \in Instances, RestartProcess(i)
          PROVE  call'[c] = call[c]
      BY <1>1, <2>6 DEF RestartProcess
    <2>7. CASE UNCHANGED sessionVars \/ \E x \in Tokens : ExpireToken(x)
      BY <2>2, <2>7 DEF ExpireToken, sessionVars, dbVars
    <2> QED
      BY <2>2, <2>3, <2>4, <2>5, <2>6, <2>7, StepRows DEF SessionsNext, sessionVars, dbVars
  <1> QED
    BY <1>1, GrantedRows DEF RowsInv, Busy

(* No request is granted anything on rows that were not so at any time since *)
(* it began, whether Redis is there or not.                                  *)
THEOREM GrantsAreFounded == SessionsSpec => []GrantsFollowRows
  <1>1. SessionsInit => RowsInv
    BY DEF SessionsInit, RowsInv, Busy, GrantsFollowRows
  <1>2. TypeInv /\ RowsInv /\ [SessionsNext]_sessionVars => RowsInv'
    BY StepRowsRead
  <1>3. RowsInv => GrantsFollowRows
    BY DEF RowsInv
  <1> QED
    BY <1>1, <1>2, <1>3, InitTypes, StepTypes, PTL DEF SessionsSpec

---------------------------------------------------------------------------------
(* Where a refresh token is blacklisted there is someone at work who did it, *)
(* at that place, or it is accounted for once and for all.                   *)

Accounted(n) ==
    \/ \E m \in PairIds : Minted(m) /\ pair[m].from = n
    \/ out[Refresh(n)] # "no"
    \/ Refresh(n) \in spent

Exchanges(c, n) == Busy(c) /\ call[c].op = "refresh" /\ call[c].pair = n

MarksHere(c, n) ==
    \/ Exchanges(c, n) /\ ~ InPhase(c, "consume")
    \/ InPhase(c, "shareRefresh") /\ call[c].pair = n

BlockedInv ==
    /\ \A n \in PairIds, i \in Instances : Refresh(n) \in local[i] =>
          Accounted(n) \/ \E c \in Callers : MarksHere(c, n) /\ call[c].at = i
    /\ \A n \in PairIds : Refresh(n) \in redis =>
          Accounted(n) \/ \E c \in Callers : Exchanges(c, n) /\ Claimed(call[c])

LEMMA AccountedStays ==
    ASSUME TypeInv, [SessionsNext]_sessionVars, NEW n \in PairIds, Accounted(n)
    PROVE  Accounted(n)'
  <1>1. Refresh(n) \in Tokens
    BY DEF Refresh, Tokens
  <1>2. /\ \A m \in PairIds : Minted(m) => Minted(m)' /\ pair'[m] = pair[m]
        /\ spent \subseteq spent'
        /\ out[Refresh(n)] # "no" => out'[Refresh(n)] # "no"
    BY <1>1, StepPairs, StepPast
  <1> QED
    BY <1>2 DEF Accounted

(* A refresh that consumed its token ends with a pair, or spends it.         *)
LEMMA RefreshGoes ==
    ASSUME TypeInv, NEW c \in Callers, Serve(c), NEW n \in PairIds, Exchanges(c, n),
           ~ InPhase(c, "consume")
    PROVE  \/ Accounted(n)'
           \/ /\ call'[c] \in CallRecord /\ call'[c].op = "refresh" /\ call'[c].pair = n
              /\ call'[c].at = call[c].at /\ call'[c].phase \notin {"consume", "claim"}
  <1> DEFINE r == call[c]
             s == call'[c]
  <1>1. /\ r.op = "refresh" /\ r.pair = n /\ r \in CallRecord /\ r.phase \in Stages(r.op)
        /\ r.phase \notin {"consume", "waiting"}
        /\ TokenOf(r) = Refresh(n)
    BY DEF Exchanges, Busy, TypeInv, CallRecord, Phases, InPhase, TokenOf, Routed
  <1>2. r.phase \in {"claim", "user", "default", "memberships", "try", "tenant", "member", "mint"}
    BY <1>1 DEF Stages
  <1>3. Goes(c)
    <2>1. ~ BeginCall(c)
      BY <1>1 DEF BeginCall, InPhase
    <2> QED
      BY <2>1, ServeGoes
  <1>4. CASE Refuse(c)
    BY <1>1, <1>4 DEF Refuse, Accounted
  <1>5. CASE Mint(c)
    <2>1. /\ nextPair \in PairIds /\ pair'[nextPair].from = n
          /\ pair'[nextPair] = [tenant |-> r.tenant, admin |-> r.admin, from |-> r.pair]
      BY <1>1, <1>5, MintEffect DEF Mint, TypeInv, SessionsTypeOK
    <2>2. pair'[nextPair] # NoPair
      BY <2>1 DEF NoPair
    <2> QED
      BY <2>1, <2>2 DEF Accounted, Minted
  <1>6. CASE \E phase \in {"user", "mint", "member"} : Turn(c, phase)
    <2>1. PICK phase \in {"user", "mint", "member"} : s = [r EXCEPT !.phase = phase]
      BY <1>6 DEF Turn, TypeInv
    <2> QED
      BY <1>1, <2>1 DEF CallRecord, Phases
  <1>7. CASE s # Waiting /\ s.phase \notin {"consume", "claim"}
    BY <1>1, <1>3, <1>7 DEF Goes, Same
  <1>8. CASE Claim(c) \/ ClaimFails(c)
    BY <1>4, <1>6, <1>8 DEF Claim, ClaimFails
  <1>9. CASE FindUser(c)
    <2>1. s # Waiting \/ Refuse(c)
      <3>1. user.active => s = AfterUser(r)
        BY <1>9 DEF FindUser, TypeInv
      <3>2. AfterUser(r).phase \in {"default", "tenant"}
        BY <1>1 DEF AfterUser, CallRecord
      <3> QED
        BY <1>9, <3>1, <3>2 DEF FindUser, Waiting
    <2> QED
      BY <1>4, <1>7, <1>9, <2>1, FindUserGoes
  <1>a. CASE TryDefault(c)
    <2>1. s = IF r.admin /\ DefaultTenant \in open
              THEN [r EXCEPT !.phase = "mint", !.tenant = DefaultTenant]
              ELSE [r EXCEPT !.phase = "memberships"]
      BY <1>a DEF TryDefault, TypeInv
    <2>2. s.phase \in {"mint", "memberships"} /\ s.op = "refresh"
      BY <1>1, <2>1 DEF CallRecord
    <2> QED
      BY <1>7, <2>2 DEF Waiting
  <1>b. CASE FindUserMemberships(c)
    <2>1. s = [r EXCEPT !.phase = "try", !.left = member]
      BY <1>b DEF FindUserMemberships, TypeInv
    <2>2. s.phase = "try"
      BY <1>1, <2>1 DEF CallRecord
    <2> QED
      BY <1>7, <2>2 DEF Waiting
  <1>c. CASE TryMembership(c)
    <2>1. r.phase = "try"
      BY <1>c DEF TryMembership, InPhase
    <2>2. \/ Refuse(c)
          \/ \E t : s = [r EXCEPT !.phase = "mint", !.tenant = t]
          \/ \E t : s = [r EXCEPT !.left = @ \ {t}]
      BY <1>1, <1>c DEF TryMembership, TypeInv
    <2>3. Refuse(c) \/ s.phase \in {"mint", "try"}
      BY <1>1, <2>1, <2>2 DEF CallRecord
    <2> QED
      BY <1>4, <1>7, <2>3 DEF Waiting
  <1>d. CASE FindTenant(c) \/ FindMembership(c)
    BY <1>1, <1>4, <1>6, <1>d DEF FindTenant, FindMembership
  <1>e. CASE RevokeHere(c) \/ RevokeThere(c) \/ RevokeIsLost(c) \/ BeginCall(c) \/ Consume(c)
             \/ IsRevokedHere(c) \/ IsRevokedThere(c) \/ ProbeFails(c) \/ FindKey(c)
    BY <1>2, <1>e DEF RevokeHere, RevokeThere, RevokeIsLost, BeginCall, Consume, IsRevokedHere,
                      IsRevokedThere, ProbeFails, FindKey, InPhase
  <1> QED
    BY <1>5, <1>8, <1>9, <1>a, <1>b, <1>c, <1>d, <1>e DEF Serve

(* A logout of a refresh token is accounted for once it is answered.         *)
LEMMA LeaveAccounts ==
    ASSUME TypeInv, NEW c \in Callers, NEW lost \in BOOLEAN, Leave(c, lost), NEW n \in PairIds,
           call[c].phase \in {"revokeRefresh", "shareRefresh"}, call[c].pair = n
    PROVE  \/ Accounted(n)'
           \/ /\ call[c].phase = "revokeRefresh" /\ call'[c].phase = "shareRefresh"
              /\ call'[c].pair = n /\ call'[c].at = call[c].at
  <1> DEFINE v == IF lost /\ out[Refresh(n)] # "yes" THEN "unheard" ELSE "yes"
  <1>1. LogoutToken(call[c]) = Refresh(n) /\ Refresh(n) \in Tokens
    BY DEF LogoutToken, Refresh, Tokens
  <1>2. \/ /\ call[c].phase = "revokeRefresh" /\ call'[c].phase = "shareRefresh"
           /\ call'[c] # Waiting
        \/ out' = [out EXCEPT ![Refresh(n)] = v]
    BY <1>1, LeaveGoes
  <1>3. Goes(c)
    BY LeaveGoes
  <1>4. CASE out' = [out EXCEPT ![Refresh(n)] = v]
    BY <1>1, <1>4 DEF Accounted, TypeInv, SessionsTypeOK
  <1> QED
    BY <1>2, <1>3, <1>4 DEF Goes, Same

(* Who keeps a token blacklisted goes on doing so, or has accounted for it.  *)
LEMMA MarksGo ==
    ASSUME TypeInv, [SessionsNext]_sessionVars, NEW c \in Callers, NEW n \in PairIds
    PROVE  /\ MarksHere(c, n) =>
                \/ Accounted(n)'
                \/ MarksHere(c, n)' /\ call'[c].at = call[c].at
                \/ RestartProcess(call[c].at)
           /\ Exchanges(c, n) /\ Claimed(call[c]) =>
                \/ Accounted(n)'
                \/ Exchanges(c, n)' /\ Claimed(call[c])'
  <1> SUFFICES ASSUME MarksHere(c, n) \/ (Exchanges(c, n) /\ Claimed(call[c]))
               PROVE  /\ MarksHere(c, n) =>
                           \/ Accounted(n)'
                           \/ MarksHere(c, n)' /\ call'[c].at = call[c].at
                           \/ RestartProcess(call[c].at)
                      /\ Exchanges(c, n) /\ Claimed(call[c]) =>
                           \/ Accounted(n)'
                           \/ Exchanges(c, n)' /\ Claimed(call[c])'
    OBVIOUS
  <1> DEFINE r == call[c]
             s == call'[c]
  <1>1. /\ Busy(c) /\ r.phase # "waiting" /\ r \in CallRecord /\ r.pair = n
        /\ (r.op = "refresh" /\ r.phase # "consume") \/ r.phase = "shareRefresh"
    <2>1. r.phase # "waiting"
      BY DEF MarksHere, Exchanges, Busy, InPhase, TypeInv, CallRecord, Phases
    <2> QED
      BY <2>1, Engaged DEF MarksHere, Exchanges, InPhase, Claimed
  <1>2. CASE s # Waiting /\ s.phase = r.phase /\ s.op = r.op /\ s.pair = r.pair /\ s.at = r.at
    BY <1>2 DEF MarksHere, Exchanges, Busy, InPhase, Claimed
  <1>3. CASE ChangeRows
    <2>1. PICK f : s = [r EXCEPT !.never = @ \ f]
      BY <1>1, <1>3 DEF ChangeRows, InPhase
    <2>2. s \in CallRecord
      BY <1>1, <2>1 DEF CallRecord
    <2> QED
      BY <1>1, <1>2, <2>1, <2>2, WaitingIsNoRecord DEF CallRecord
  <1>4. CASE Serve(c)
    <2>1. CASE r.op = "refresh" /\ r.phase # "consume"
      <3>1. \/ Accounted(n)'
            \/ /\ s \in CallRecord /\ s.op = "refresh" /\ s.pair = n /\ s.at = r.at
               /\ s.phase \notin {"consume", "claim"}
        BY <1>1, <1>4, <2>1, RefreshGoes DEF Exchanges, InPhase
      <3> QED
        BY <3>1, WaitingIsNoRecord DEF MarksHere, Exchanges, Busy, InPhase, Claimed
    <2>2. CASE r.phase = "shareRefresh"
      <3>1. \E lost \in BOOLEAN : Leave(c, lost)
        BY <1>4, <2>2 DEF Serve, BeginCall, Consume, Claim, ClaimFails, IsRevokedHere,
               IsRevokedThere, ProbeFails, FindKey, FindUser, TryDefault, FindUserMemberships,
               TryMembership, FindTenant, FindMembership, Mint, RevokeHere, RevokeThere,
               RevokeIsLost, InPhase
      <3> QED
        BY <1>1, <2>2, <3>1, LeaveAccounts
    <2> QED
      BY <1>1, <2>1, <2>2
  <1>5. ASSUME NEW d \in Callers, d # c, Serve(d)
        PROVE  s = r
    BY <1>5, ServeGoes, BeginsCall DEF Goes, Begins, Moves
  <1>6. ASSUME NEW i \in Instances, RestartProcess(i)
        PROVE  \/ s = r
               \/ RestartProcess(r.at) /\ (r.op = "refresh" => Accounted(n)')
    <2>1. CASE r.at = i
      <3>1. r.op = "refresh" => TokenOf(r) \in spent'
        BY <1>1, <1>6, <2>1 DEF RestartProcess, Busy
      <3>2. r.op = "refresh" => Refresh(n) \in spent'
        BY <1>1, <3>1 DEF TokenOf
      <3> QED
        BY <1>6, <2>1, <3>2 DEF Accounted
    <2>2. CASE r.at # i
      BY <1>6, <2>2 DEF RestartProcess
    <2> QED
      BY <2>1, <2>2
  <1>7. CASE UNCHANGED sessionVars \/ \E x \in Tokens : ExpireToken(x)
    BY <1>1, <1>2, <1>7 DEF ExpireToken, sessionVars, Busy
  <1>8. CASE s = r
    BY <1>1, <1>2, <1>8 DEF Busy
  <1> QED
    BY <1>1, <1>3, <1>4, <1>5, <1>6, <1>7, <1>8 DEF SessionsNext, Exchanges

(* A refresh token that a step blacklists.                                   *)
LEMMA NewlyHere ==
    ASSUME TypeInv, [SessionsNext]_sessionVars, NEW n \in PairIds, NEW i \in Instances,
           Refresh(n) \notin local[i], Refresh(n) \in local'[i]
    PROVE  Accounted(n)' \/ \E c \in Callers : MarksHere(c, n)' /\ call'[c].at = i
  <1>1. local \in [Instances -> SUBSET Tokens]
    BY DEF TypeInv, SessionsTypeOK
  <1>2. PICK c \in Callers :
           /\ Consume(c) \/ RevokeHere(c)
           /\ \E x : /\ x = (IF Consume(c) THEN TokenOf(call[c]) ELSE LogoutToken(call[c]))
                     /\ local' = [local EXCEPT ![call[c].at] = @ \cup {x}]
    <2>1. ~ UNCHANGED local
      OBVIOUS
    <2>2. ASSUME NEW x \in Tokens, ExpireToken(x)
          PROVE  FALSE
      BY <1>1, <2>2 DEF ExpireToken
    <2>3. ASSUME NEW k \in Instances, RestartProcess(k)
          PROVE  FALSE
      BY <1>1, <2>3 DEF RestartProcess
    <2> QED
      BY <2>1, <2>2, <2>3, StepStores
  <1>3. /\ call[c].at = i
        /\ Refresh(n) = (IF Consume(c) THEN TokenOf(call[c]) ELSE LogoutToken(call[c]))
    BY <1>1, <1>2
  <1>4. CASE Consume(c)
    <2>1. call[c].phase = "consume" /\ call[c].op = "refresh" /\ call[c] \in CallRecord
      BY <1>4, Engaged, AtWork DEF Consume, InPhase
    <2>2. call[c].pair = n
      BY <1>3, <1>4, <2>1 DEF TokenOf, Refresh
    <2>3. \E phase \in {"claim", "user"} : Turn(c, phase)
      BY <1>4 DEF Consume
    <2>4. PICK phase \in {"claim", "user"} : call'[c] = [call[c] EXCEPT !.phase = phase]
      BY <2>3 DEF Turn, TypeInv
    <2>5. /\ call'[c].phase \in {"claim", "user"} /\ call'[c].op = "refresh" /\ call'[c].pair = n
          /\ call'[c].at = i
      BY <1>3, <2>1, <2>2, <2>4 DEF CallRecord
    <2>6. call'[c] # Waiting
      BY <2>5 DEF Waiting
    <2> QED
      BY <2>5, <2>6 DEF MarksHere, Exchanges, Busy, InPhase
  <1>5. CASE RevokeHere(c) /\ ~ Consume(c)
    <2>1. /\ call[c].phase = "revokeRefresh" /\ call[c].pair = n
          /\ Leave(c, FALSE)
      BY <1>3, <1>5 DEF RevokeHere, InPhase, LogoutToken, Access, Refresh
    <2>2. \/ Accounted(n)'
          \/ call'[c].phase = "shareRefresh" /\ call'[c].pair = n /\ call'[c].at = i
      BY <1>3, <2>1, LeaveAccounts
    <2> QED
      BY <2>2 DEF MarksHere, InPhase
  <1> QED
    BY <1>2, <1>4, <1>5

LEMMA NewlyThere ==
    ASSUME TypeInv, [SessionsNext]_sessionVars, NEW n \in PairIds,
           Refresh(n) \notin redis, Refresh(n) \in redis'
    PROVE  Accounted(n)' \/ \E c \in Callers : Exchanges(c, n)' /\ Claimed(call[c])'
  <1>1. PICK c \in Callers :
           /\ Claim(c) \/ ClaimFails(c) \/ RevokeThere(c)
           /\ Refresh(n) = (IF RevokeThere(c) THEN LogoutToken(call[c]) ELSE TokenOf(call[c]))
    <2>1. ASSUME NEW x \in Tokens, ExpireToken(x)
          PROVE  FALSE
      BY <2>1 DEF ExpireToken
    <2>2. ASSUME NEW k \in Instances, RestartProcess(k)
          PROVE  FALSE
      BY <2>2 DEF RestartProcess
    <2> QED
      BY <2>1, <2>2, StepStores
  <1>2. CASE RevokeThere(c)
    <2>1. call[c].phase = "shareRefresh" /\ call[c].pair = n /\ Leave(c, FALSE)
      BY <1>1, <1>2 DEF RevokeThere, InPhase, LogoutToken, Access, Refresh
    <2> QED
      BY <2>1, LeaveAccounts
  <1>3. CASE (Claim(c) \/ ClaimFails(c)) /\ ~ RevokeThere(c)
    <2>1. call[c].phase = "claim" /\ call[c].op = "refresh" /\ Busy(c) /\ Serve(c)
      BY <1>3, Engaged, AtWork DEF Claim, ClaimFails, InPhase, Serve
    <2>2. call[c].pair = n
      BY <1>1, <1>3, <2>1 DEF TokenOf, Refresh
    <2>3. \/ Accounted(n)'
          \/ /\ call'[c] \in CallRecord /\ call'[c].op = "refresh" /\ call'[c].pair = n
             /\ call'[c].phase \notin {"consume", "claim"}
      BY <2>1, <2>2, RefreshGoes DEF Exchanges, InPhase
    <2> QED
      BY <2>3, WaitingIsNoRecord DEF Exchanges, Busy, Claimed
  <1> QED
    BY <1>1, <1>2, <1>3

LEMMA StepBlocked ==
    ASSUME TypeInv, BlockedInv, [SessionsNext]_sessionVars
    PROVE  BlockedInv'
  <1>1. ASSUME NEW n \in PairIds, NEW i \in Instances, Refresh(n) \in local'[i]
        PROVE  Accounted(n)' \/ \E c \in Callers : MarksHere(c, n)' /\ call'[c].at = i
    <2>1. CASE Refresh(n) \in local[i]
      <3>1. CASE Accounted(n)
        BY <3>1, AccountedStays
      <3>2. ASSUME NEW c \in Callers, MarksHere(c, n), call[c].at = i
            PROVE  Accounted(n)' \/ (MarksHere(c, n)' /\ call'[c].at = i)
        <4>1. ~ RestartProcess(i)
          BY <1>1 DEF RestartProcess, TypeInv, SessionsTypeOK
        <4> QED
          BY <3>2, <4>1, MarksGo
      <3> QED
        BY <2>1, <3>1, <3>2 DEF BlockedInv
    <2>2. CASE Refresh(n) \notin local[i]
      BY <1>1, <2>2, NewlyHere
    <2> QED
      BY <2>1, <2>2
  <1>2. ASSUME NEW n \in PairIds, Refresh(n) \in redis'
        PROVE  Accounted(n)' \/ \E c \in Callers : Exchanges(c, n)' /\ Claimed(call[c])'
    <2>1. CASE Refresh(n) \in redis
      BY <2>1, AccountedStays, MarksGo DEF BlockedInv
    <2>2. CASE Refresh(n) \notin redis
      BY <1>2, <2>2, NewlyThere
    <2> QED
      BY <2>1, <2>2
  <1> QED
    BY <1>1, <1>2 DEF BlockedInv

(* No refresh token is lost to its user for nothing: one that is blacklisted *)
(* anywhere was exchanged, is at work, was logged out, or was spent by a     *)
(* refresh that failed.                                                      *)
THEOREM BlockedTokensAreExplained == SessionsSpec => []BlockedTokensAreAccountedFor
  <1>1. SessionsInit => BlockedInv
    BY DEF SessionsInit, BlockedInv
  <1>2. TypeInv /\ BlockedInv /\ [SessionsNext]_sessionVars => BlockedInv'
    BY StepBlocked
  <1>3. TypeInv /\ BlockedInv => BlockedTokensAreAccountedFor
    <2> SUFFICES ASSUME TypeInv, BlockedInv, NEW n \in PairIds,
                        Refresh(n) \in redis \cup UNION {local[i] : i \in Instances}
                 PROVE  \/ \E m \in PairIds : pair[m] # NoPair /\ pair[m].from = n
                        \/ out[Refresh(n)] # "no" \/ Refresh(n) \in spent
                        \/ \E c \in Callers : call[c] # Waiting
                              /\ call[c].op \in {"refresh", "logout"} /\ call[c].pair = n
      BY DEF BlockedTokensAreAccountedFor
    <2>1. \/ Accounted(n)
          \/ \E c \in Callers : MarksHere(c, n) \/ Exchanges(c, n)
      BY DEF BlockedInv
    <2>2. ASSUME NEW c \in Callers, MarksHere(c, n) \/ Exchanges(c, n)
          PROVE  call[c] # Waiting /\ call[c].op \in {"refresh", "logout"} /\ call[c].pair = n
      BY <2>2, Engaged, AtWork DEF MarksHere, Exchanges, InPhase, Busy
    <2> QED
      BY <2>1, <2>2 DEF Accounted, Minted
  <1> QED
    BY <1>1, <1>2, <1>3, InitTypes, StepTypes, PTL DEF SessionsSpec

---------------------------------------------------------------------------------
(* The second factor: what a request holds between its reading and saving.   *)

Spending(v)  == v.op = "login" /\ v.step = "spend"
Enabling(v)  == v.op = "enable"
Saving(v)    == v.op \in {"setup", "enable"} \/ Spending(v)

Shaped(v) ==
    /\ v.op = "setup" => /\ v.read = NoFactor \/ ~ v.read.enabled
                         /\ ~ v.copy.enabled /\ v.copy.codes = {}
    /\ v.op = "enable" => v.copy.enabled
    /\ Spending(v) => /\ v.read.enabled /\ v.copy.enabled /\ v.copy.secret = v.read.secret
                      /\ v.code \in v.read.codes /\ v.copy.codes = v.read.codes \ {v.code}

FactorTypeInv ==
    /\ FactorTypeOK
    /\ \A d \in Devices : Shaped(visit[d])

(* The factor in force is the one confirmed last, unless a copy was torn.    *)
EnrolledInv ==
    /\ ~ torn /\ enrolled = 0 => ~ InForce
    /\ ~ torn /\ enrolled # 0 => InForce /\ factor.secret = enrolled

(* Codes of a batch are known only from its making on, and a batch that is   *)
(* not yet saved has nothing in common with any other.                       *)
BatchInv ==
    /\ Stored => \A c \in factor.codes : c[1] <= visits
    /\ \A c \in BackupCodes : uses[c] > 0 => c[1] <= visits
    /\ \A d \in Devices : Spending(visit[d]) => \A c \in visit[d].read.codes : c[1] <= visits
    /\ \A d \in Devices : Enabling(visit[d]) =>
          \A c \in visit[d].copy.codes :
              /\ c[1] <= visits /\ uses[c] = 0
              /\ Stored => c \notin factor.codes
              /\ \A e \in Devices : Spending(visit[e]) => c \notin visit[e].read.codes
              /\ \A e \in Devices \ {d} : Enabling(visit[e]) => c \notin visit[e].copy.codes

(* A code that was used is in the row no more, and was used once.            *)
UsesInv ==
    \A c \in BackupCodes : uses[c] > 0 /\ c \notin loose =>
        uses[c] = 1 /\ (Stored => c \notin factor.codes)

LEMMA NoFactorIsNone == NoFactor \notin Factors
  <1>1. \A x \in Factors : DOMAIN x = {"id", "secret", "enabled", "codes"}
    BY DEF Factors
  <1>2. DOMAIN NoFactor = {"id"}
    BY DEF NoFactor
  <1> QED
    BY <1>1, <1>2

LEMMA VisitKinds ==
    ASSUME NEW v \in Visits \cup {NoVisit}
    PROVE  /\ v.op \in {"none", "setup", "enable", "login"}
           /\ v.op = "none" <=> v = NoVisit
           /\ v.op \in {"setup", "enable"} =>
                 v.read \in Factors \cup {NoFactor} /\ v.copy \in Factors
           /\ v.op = "login" => v.step \in {"verify", "spend"}
           /\ Spending(v) => v.read \in Factors /\ v.copy \in Factors /\ v.code \in BackupCodes
  BY DEF Visits, NoVisit, Spending

(* What the code's Save leaves behind.                                       *)
LEMMA Saves ==
    ASSUME FactorTypeInv, NEW d \in Devices, Saving(visit[d]), Save(d)
    PROVE  /\ factor' \in Factors /\ factor' # NoFactor
           /\ factor'.secret = visit[d].copy.secret /\ factor'.enabled = visit[d].copy.enabled
           /\ factor'.codes = visit[d].copy.codes
           /\ visit' \in [Devices -> Visits \cup {NoVisit}]
           /\ visit'[d] = NoVisit /\ \A e \in Devices \ {d} : visit'[e] = visit[e]
           /\ visits' = visits
           /\ loose \subseteq loose' /\ loose' \subseteq BackupCodes
           /\ factor # visit[d].read => visit[d].copy.codes \subseteq loose'
           /\ factor # visit[d].read /\ Spending(visit[d]) => visit[d].code \in loose'
  <1> DEFINE v == visit[d]
             x == v.copy
             id == IF x.id = 0 THEN visits ELSE x.id
  <1>1. v \in Visits \cup {NoVisit} /\ visit \in [Devices -> Visits \cup {NoVisit}]
        /\ visits \in 0 .. MaxVisits /\ loose \subseteq BackupCodes
    BY DEF FactorTypeInv, FactorTypeOK
  <1>2. x \in Factors
    BY <1>1, VisitKinds DEF Saving
  <1>3. factor' = [x EXCEPT !.id = id]
    BY DEF Save, Written
  <1>4. id \in 0 .. MaxVisits
    BY <1>1, <1>2 DEF Factors
  <1>5. /\ factor' \in Factors /\ factor'.secret = x.secret /\ factor'.enabled = x.enabled
        /\ factor'.codes = x.codes
    <2> HIDE DEF id, x
    <2> QED
      BY <1>2, <1>3, <1>4 DEF Factors
  <1>6. visit' = [visit EXCEPT ![d] = NoVisit]
    BY DEF Save, Depart
  <1>7. /\ visit' \in [Devices -> Visits \cup {NoVisit}]
        /\ visit'[d] = NoVisit /\ \A e \in Devices \ {d} : visit'[e] = visit[e]
    BY <1>1, <1>6
  <1>8. x.codes \subseteq BackupCodes /\ (Spending(v) => v.code \in BackupCodes)
    BY <1>1, <1>2, VisitKinds DEF Factors
  <1>9. /\ factor = v.read => loose' = loose
        /\ factor # v.read =>
              loose' = loose \cup x.codes \cup (IF v.op = "login" THEN {v.code} ELSE {})
    BY DEF Save
  <1>10. /\ loose \subseteq loose' /\ loose' \subseteq BackupCodes
         /\ factor # v.read => x.codes \subseteq loose'
         /\ factor # v.read /\ Spending(v) => v.code \in loose'
    <2>1. v.op = "login" => Spending(v)
      BY DEF Saving, Spending
    <2> HIDE DEF x, v
    <2> QED
      BY <1>1, <1>8, <1>9, <2>1 DEF Spending
  <1>11. visits' = visits
    BY DEF Save
  <1> QED
    BY <1>5, <1>7, <1>10, <1>11, NoFactorIsNone

(* What a request that comes leaves of the others.                           *)
LEMMA Comes ==
    ASSUME FactorTypeInv, NEW d \in Devices, NEW v \in Visits, Come(d, v)
    PROVE  /\ visits' = visits + 1 /\ visits' \in 0 .. MaxVisits /\ visits' \in Secrets
           /\ visits \in Nat
           /\ visit' \in [Devices -> Visits \cup {NoVisit}]
           /\ visit'[d] = v /\ \A e \in Devices \ {d} : visit'[e] = visit[e]
  BY FactorAssumption DEF Come, FactorTypeInv, FactorTypeOK, Secrets

LEMMA SetupCopies ==
    ASSUME FactorTypeInv, NEW d \in Devices, Setup(d)
    PROVE  \E v \in Visits : Come(d, v) /\ v.op = "setup" /\ Shaped(v)
  <1> DEFINE x == [id |-> factor.id, secret |-> visits + 1, enabled |-> FALSE, codes |-> {}]
             v == [op |-> "setup", read |-> factor, copy |-> x]
  <1>1. /\ factor \in Factors \cup {NoFactor} /\ visits \in 0 .. MaxVisits
        /\ visits < MaxVisits /\ ~ InForce
    BY DEF FactorTypeInv, FactorTypeOK, Setup, Come, MayBegin
  <1>2. factor.id \in 0 .. MaxVisits
    BY <1>1, FactorAssumption DEF Factors, NoFactor
  <1>3. visits + 1 \in Secrets
    BY <1>1, FactorAssumption DEF Secrets
  <1>4. x \in Factors /\ ~ x.enabled /\ x.codes = {}
    BY <1>2, <1>3 DEF Factors
  <1>5. factor = NoFactor \/ ~ factor.enabled
    BY <1>1 DEF InForce, Stored
  <1>6. Come(d, v)
    BY DEF Setup
  <1> HIDE DEF x
  <1>7. v \in Visits /\ v.op = "setup"
    BY <1>1, <1>4 DEF Visits
  <1>8. Shaped(v)
    BY <1>4, <1>5 DEF Shaped, Spending
  <1> QED
    BY <1>6, <1>7, <1>8

LEMMA EnableCopies ==
    ASSUME FactorTypeInv, NEW d \in Devices, Enable(d)
    PROVE  \E v \in Visits : /\ Come(d, v) /\ v.op = "enable" /\ Shaped(v)
                             /\ v.copy.codes = {visits + 1} \X (1 .. BatchCodes)
                             /\ v.copy.codes \subseteq BackupCodes
  <1> DEFINE batch == {visits + 1} \X (1 .. BatchCodes)
             x == [factor EXCEPT !.enabled = TRUE, !.codes = batch]
             v == [op |-> "enable", read |-> factor, copy |-> x]
  <1>1. factor \in Factors /\ visits \in 0 .. MaxVisits /\ visits < MaxVisits
    BY DEF FactorTypeInv, FactorTypeOK, Enable, Come, Stored
  <1>2. batch \subseteq BackupCodes
    BY <1>1, FactorAssumption DEF BackupCodes, Secrets
  <1>3. Come(d, v)
    BY DEF Enable
  <1> HIDE DEF batch
  <1>4. x \in Factors /\ x.enabled /\ x.codes = batch
    BY <1>1, <1>2 DEF Factors
  <1> HIDE DEF x
  <1>5. v \in Visits /\ v.op = "enable" /\ v.copy = x
    BY <1>1, <1>4 DEF Visits
  <1>6. Shaped(v)
    BY <1>4, <1>5 DEF Shaped, Spending
  <1> QED
    BY <1>2, <1>3, <1>4, <1>5, <1>6 DEF batch

LEMMA Requires ==
    ASSUME FactorTypeInv, NEW d \in Devices, Required(d)
    PROVE  \E v \in Visits : Come(d, v) /\ v.op = "login" /\ ~ Spending(v) /\ Shaped(v)
  <1> DEFINE v == [op |-> "login", step |-> "verify"]
  <1>1. v \in Visits
    BY DEF Visits
  <1>2. ~ Spending(v) /\ v.op = "login" /\ Shaped(v)
    BY DEF Spending, Shaped
  <1> QED
    BY <1>1, <1>2 DEF Required

LEMMA TakesCode ==
    ASSUME FactorTypeInv, NEW d \in Devices, TakeBackupCode(d)
    PROVE  /\ visit' \in [Devices -> Visits \cup {NoVisit}]
           /\ \A e \in Devices \ {d} : visit'[e] = visit[e]
           /\ Spending(visit'[d]) /\ Shaped(visit'[d]) /\ visit'[d].op = "login"
           /\ visit'[d].read = factor /\ Stored
  <1>1. PICK c \in factor.codes :
          visit' = [visit EXCEPT ![d] =
              [op |-> "login", step |-> "spend", read |-> factor, code |-> c,
               copy |-> [factor EXCEPT !.codes = @ \ {c}]]]
    BY DEF TakeBackupCode
  <1> DEFINE x == [factor EXCEPT !.codes = @ \ {c}]
             v == [op |-> "login", step |-> "spend", read |-> factor, code |-> c, copy |-> x]
  <1>2. factor \in Factors /\ Stored /\ factor.enabled
    BY DEF TakeBackupCode, InForce, Stored, FactorTypeInv, FactorTypeOK
  <1>3. /\ x \in Factors /\ x.enabled /\ x.secret = factor.secret
        /\ x.codes = factor.codes \ {c} /\ c \in BackupCodes
    BY <1>2 DEF Factors
  <1>4. visit' = [visit EXCEPT ![d] = v]
    BY <1>1
  <1> HIDE DEF x
  <1>5. v \in Visits
    BY <1>2, <1>3 DEF Visits
  <1>6. Spending(v) /\ Shaped(v) /\ v.op = "login" /\ v.read = factor
    BY <1>2, <1>3 DEF Spending, Shaped
  <1> HIDE DEF v
  <1> QED
    BY <1>2, <1>4, <1>5, <1>6 DEF FactorTypeInv, FactorTypeOK

LEMMA Departs ==
    ASSUME FactorTypeInv, NEW d \in Devices, Depart(d)
    PROVE  /\ visit' \in [Devices -> Visits \cup {NoVisit}]
           /\ visit'[d] = NoVisit /\ \A e \in Devices \ {d} : visit'[e] = visit[e]
  BY DEF Depart, FactorTypeInv, FactorTypeOK

LEMMA NoVisitIsShaped ==
    Shaped(NoVisit) /\ ~ Spending(NoVisit) /\ ~ Enabling(NoVisit)
  BY DEF Shaped, Spending, Enabling, NoVisit

(* The steps, by what they do: a request comes, saves, takes a code, or ends. *)
LEMMA SavingSteps ==
    ASSUME FactorTypeInv, NEW d \in Devices,
           SaveSetup(d) \/ SaveEnable(d) \/ SpendBackupCode(d)
    PROVE  Saving(visit[d]) /\ Save(d) /\ visit[d] \in Visits
  <1>1. visit[d] \in Visits \cup {NoVisit}
    BY DEF FactorTypeInv, FactorTypeOK
  <1>2. Saving(visit[d]) /\ Save(d)
    BY DEF SaveSetup, SaveEnable, SpendBackupCode, Saving, Spending
  <1>3. visit[d] # NoVisit
    BY <1>2 DEF Saving, Spending, NoVisit
  <1> QED
    BY <1>1, <1>2, <1>3

LEMMA StepFactorTypes ==
    ASSUME FactorTypeInv, [FactorNext]_factorVars
    PROVE  FactorTypeInv'
  <1>1. ASSUME NEW d \in Devices,
               visit' \in [Devices -> Visits \cup {NoVisit}], Shaped(visit'[d]),
               \A e \in Devices \ {d} : visit'[e] = visit[e]
        PROVE  \A e \in Devices : Shaped(visit[e])'
    <2> SUFFICES ASSUME NEW e \in Devices
                 PROVE  Shaped(visit'[e])
      BY DEF Shaped, Spending
    <2> QED
      BY <1>1 DEF FactorTypeInv
  <1>2. ASSUME NEW d \in Devices, Setup(d) \/ Enable(d) \/ Required(d)
        PROVE  FactorTypeInv'
    <2>1. PICK v \in Visits : Come(d, v) /\ Shaped(v)
      BY <1>2, SetupCopies, EnableCopies, Requires
    <2>2. /\ visits' \in 0 .. MaxVisits /\ visit' \in [Devices -> Visits \cup {NoVisit}]
          /\ visit'[d] = v /\ \A e \in Devices \ {d} : visit'[e] = visit[e]
      BY <2>1, Comes
    <2>3. \A e \in Devices : Shaped(visit[e])'
      BY <1>1, <2>1, <2>2
    <2>4. UNCHANGED <<factor, enrolled, torn, uses, loose>>
      BY <1>2 DEF Setup, Enable, Required
    <2> QED
      BY <2>2, <2>3, <2>4 DEF FactorTypeInv, FactorTypeOK
  <1>3. ASSUME NEW d \in Devices, SaveSetup(d) \/ SaveEnable(d) \/ SpendBackupCode(d)
        PROVE  FactorTypeInv'
    <2> DEFINE v == visit[d]
    <2>1. /\ factor' \in Factors /\ visit' \in [Devices -> Visits \cup {NoVisit}]
          /\ visit'[d] = NoVisit /\ \A e \in Devices \ {d} : visit'[e] = visit[e]
          /\ visits' = visits /\ loose' \subseteq BackupCodes
      BY <1>3, SavingSteps, Saves
    <2>2. \A e \in Devices : Shaped(visit[e])'
      BY <1>1, <2>1, NoVisitIsShaped
    <2>3. enrolled' \in 0 .. MaxVisits
      <3>1. CASE SaveEnable(d)
        <4>1. v.op = "enable" /\ enrolled' = v.copy.secret
          BY <3>1 DEF SaveEnable
        <4>2. v \in Visits \cup {NoVisit}
          BY DEF FactorTypeInv, FactorTypeOK
        <4>3. v.copy \in Factors
          BY <4>1, <4>2, VisitKinds
        <4> QED
          BY <4>1, <4>3, FactorAssumption DEF Factors, Secrets
      <3>2. CASE ~ SaveEnable(d)
        BY <1>3, <3>2 DEF SaveSetup, SpendBackupCode, FactorTypeInv, FactorTypeOK
      <3> QED
        BY <3>1, <3>2
    <2>4. torn' \in BOOLEAN
      <3>1. torn \in BOOLEAN
        BY DEF FactorTypeInv, FactorTypeOK
      <3>2. (factor # v.read) \in BOOLEAN /\ (torn \/ factor # v.read) \in BOOLEAN
        OBVIOUS
      <3>3. torn' = (factor # v.read) \/ torn' = (torn \/ factor # v.read)
        BY <1>3 DEF SaveSetup, SaveEnable, SpendBackupCode
      <3> QED
        BY <3>2, <3>3
    <2>5. uses' \in [BackupCodes -> Nat]
      BY <1>3 DEF SaveSetup, SaveEnable, SpendBackupCode, FactorTypeInv, FactorTypeOK
    <2> QED
      BY <2>1, <2>2, <2>3, <2>4, <2>5 DEF FactorTypeInv, FactorTypeOK
  <1>4. ASSUME NEW d \in Devices, TakeBackupCode(d)
        PROVE  FactorTypeInv'
    <2>1. UNCHANGED <<factor, visits, enrolled, torn, uses, loose>>
      BY <1>4 DEF TakeBackupCode
    <2>2. \A e \in Devices : Shaped(visit[e])'
      BY <1>1, <1>4, TakesCode
    <2> QED
      BY <1>4, <2>1, <2>2, TakesCode DEF FactorTypeInv, FactorTypeOK
  <1>5. ASSUME NEW d \in Devices, VerifyLogin(d) \/ VisitFails(d)
        PROVE  FactorTypeInv'
    <2>1. Depart(d) /\ UNCHANGED <<factor, visits, enrolled, torn, uses, loose>>
      BY <1>5 DEF VerifyLogin, VisitFails
    <2>2. \A e \in Devices : Shaped(visit[e])'
      BY <1>1, <2>1, Departs, NoVisitIsShaped
    <2> QED
      BY <2>1, <2>2, Departs DEF FactorTypeInv, FactorTypeOK
  <1>6. ASSUME NEW d \in Devices, Disable(d)
        PROVE  FactorTypeInv'
    <2>1. /\ factor' = NoFactor /\ visits' = visits + 1 /\ visits < MaxVisits
          /\ enrolled' = 0 /\ torn' = FALSE /\ UNCHANGED <<visit, uses, loose>>
      BY <1>6 DEF Disable
    <2>2. visits' \in 0 .. MaxVisits /\ enrolled' \in 0 .. MaxVisits
      BY <2>1, FactorAssumption DEF FactorTypeInv, FactorTypeOK
    <2>3. \A e \in Devices : Shaped(visit[e])'
      BY <2>1 DEF FactorTypeInv, Shaped, Spending
    <2> QED
      BY <2>1, <2>2, <2>3 DEF FactorTypeInv, FactorTypeOK
  <1>7. CASE UNCHANGED factorVars
    BY <1>7 DEF factorVars, FactorTypeInv, FactorTypeOK, Shaped, Spending
  <1> QED
    BY <1>2, <1>3, <1>4, <1>5, <1>6, <1>7 DEF FactorNext

LEMMA StepEnrolled ==
    ASSUME FactorTypeInv, EnrolledInv, [FactorNext]_factorVars
    PROVE  EnrolledInv'
  <1>1. CASE UNCHANGED <<factor, enrolled, torn>>
    BY <1>1 DEF EnrolledInv, InForce, Stored
  <1>2. ASSUME NEW d \in Devices, SaveSetup(d)
        PROVE  EnrolledInv'
    <2> DEFINE v == visit[d]
    <2>1. v.op = "setup" /\ torn' = (torn \/ factor # v.read) /\ enrolled' = enrolled
      BY <1>2 DEF SaveSetup
    <2>2. (v.read = NoFactor \/ ~ v.read.enabled) /\ ~ v.copy.enabled
      BY <2>1 DEF FactorTypeInv, Shaped
    <2>3. factor'.enabled = v.copy.enabled
      BY <1>2, SavingSteps, Saves
    <2>4. ~ InForce'
      BY <2>2, <2>3 DEF InForce
    <2>5. ~ torn' => ~ torn /\ factor = v.read
      BY <2>1
    <2>6. ~ torn' => ~ InForce
      BY <2>2, <2>5 DEF InForce, Stored
    <2>7. ~ torn' => enrolled' = 0
      BY <2>1, <2>5, <2>6 DEF EnrolledInv
    <2> QED
      BY <2>4, <2>7 DEF EnrolledInv
  <1>3. ASSUME NEW d \in Devices, SaveEnable(d)
        PROVE  EnrolledInv'
    <2> DEFINE v == visit[d]
    <2>1. v.op = "enable" /\ enrolled' = v.copy.secret
      BY <1>3 DEF SaveEnable
    <2>2. v.copy.enabled
      BY <2>1 DEF FactorTypeInv, Shaped
    <2>3. factor' # NoFactor /\ factor' \in Factors
          /\ factor'.secret = v.copy.secret /\ factor'.enabled = v.copy.enabled
      BY <1>3, SavingSteps, Saves
    <2>4. InForce' /\ factor'.secret = enrolled'
      BY <2>1, <2>2, <2>3 DEF InForce, Stored
    <2>5. enrolled' # 0
      BY <2>3, <2>4, FactorAssumption DEF Factors, Secrets
    <2> QED
      BY <2>4, <2>5 DEF EnrolledInv
  <1>4. ASSUME NEW d \in Devices, SpendBackupCode(d)
        PROVE  EnrolledInv'
    <2> DEFINE v == visit[d]
    <2>1. Spending(v) /\ torn' = (torn \/ factor # v.read) /\ enrolled' = enrolled
      BY <1>4 DEF SpendBackupCode, Spending
    <2>2. v.read.enabled /\ v.copy.enabled /\ v.copy.secret = v.read.secret /\ v.read \in Factors
      <3>1. v \in Visits \cup {NoVisit}
        BY DEF FactorTypeInv, FactorTypeOK
      <3> QED
        BY <2>1, <3>1, VisitKinds DEF FactorTypeInv, Shaped
    <2>3. factor' # NoFactor /\ factor'.secret = v.copy.secret /\ factor'.enabled = v.copy.enabled
      BY <1>4, SavingSteps, Saves
    <2>4. InForce' /\ factor'.secret = v.read.secret
      BY <2>2, <2>3 DEF InForce, Stored
    <2>5. ~ torn' => ~ torn /\ factor = v.read
      BY <2>1
    <2>6. ~ torn' => InForce
      BY <2>2, <2>5, NoFactorIsNone DEF InForce, Stored
    <2>7. ~ torn' => enrolled' # 0 /\ factor'.secret = enrolled'
      BY <2>1, <2>4, <2>5, <2>6 DEF EnrolledInv
    <2> QED
      BY <2>4, <2>7 DEF EnrolledInv
  <1>5. ASSUME NEW d \in Devices, Disable(d)
        PROVE  EnrolledInv'
    BY <1>5 DEF Disable, EnrolledInv, InForce, Stored
  <1>6. ASSUME NEW d \in Devices,
               \/ Setup(d) \/ Enable(d) \/ Required(d) \/ VerifyLogin(d)
               \/ TakeBackupCode(d) \/ VisitFails(d)
        PROVE  UNCHANGED <<factor, enrolled, torn>>
    BY <1>6 DEF Setup, Enable, Required, VerifyLogin, TakeBackupCode, VisitFails
  <1>7. UNCHANGED factorVars => UNCHANGED <<factor, enrolled, torn>>
    BY DEF factorVars
  <1> QED
    BY <1>1, <1>2, <1>3, <1>4, <1>5, <1>6, <1>7 DEF FactorNext

(* Batches, with the bounds of the steps put once.                           *)
LEMMA NumbersOfCodes == \A c \in BackupCodes : c[1] \in Nat
  BY FactorAssumption DEF BackupCodes, Secrets

LEMMA HeldCodes ==
    ASSUME FactorTypeInv
    PROVE  /\ visits \in Nat
           /\ Stored => factor.codes \subseteq BackupCodes
           /\ \A d \in Devices :
                 /\ Spending(visit[d]) => visit[d].read.codes \subseteq BackupCodes
                 /\ Enabling(visit[d]) => visit[d].copy.codes \subseteq BackupCodes
                 /\ Spending(visit[d]) => ~ Enabling(visit[d])
  <1>1. /\ factor \in Factors \cup {NoFactor} /\ visit \in [Devices -> Visits \cup {NoVisit}]
        /\ visits \in 0 .. MaxVisits
    BY DEF FactorTypeInv, FactorTypeOK
  <1>2. \A x \in Factors : x.codes \subseteq BackupCodes
    BY DEF Factors
  <1>3. visits \in Nat
    BY <1>1, FactorAssumption
  <1>4. ASSUME NEW d \in Devices
        PROVE  /\ Spending(visit[d]) => visit[d].read \in Factors
               /\ Enabling(visit[d]) => visit[d].copy \in Factors
               /\ Spending(visit[d]) => ~ Enabling(visit[d])
    <2>1. visit[d] \in Visits \cup {NoVisit}
      BY <1>1
    <2> QED
      BY <2>1, VisitKinds DEF Enabling, Spending
  <1> QED
    BY <1>1, <1>2, <1>3, <1>4 DEF Stored

(* A batch at work, apart from all the codes there are.                      *)
Apart(c, d) ==
    /\ c[1] <= visits /\ uses[c] = 0
    /\ Stored => c \notin factor.codes
    /\ \A e \in Devices : Spending(visit[e]) => c \notin visit[e].read.codes
    /\ \A e \in Devices \ {d} : Enabling(visit[e]) => c \notin visit[e].copy.codes

LEMMA BatchesComeApart ==
    ASSUME FactorTypeInv, BatchInv, NEW d \in Devices, NEW v \in Visits, Come(d, v),
           ~ Spending(v), UNCHANGED <<factor, uses>>,
           Enabling(v) => v.copy.codes = {visits + 1} \X (1 .. BatchCodes)
    PROVE  BatchInv'
  <1>1. /\ visits' = visits + 1 /\ visits \in Nat
        /\ visit'[d] = v /\ \A e \in Devices \ {d} : visit'[e] = visit[e]
    BY Comes
  <1>2. Stored' => \A c \in factor'.codes : c[1] <= visits'
    <2>1. Stored => \A c \in factor.codes : c[1] <= visits /\ c[1] \in Nat
      BY HeldCodes, NumbersOfCodes DEF BatchInv
    <2> QED
      BY <1>1, <2>1 DEF Stored
  <1>3. \A c \in BackupCodes : uses'[c] > 0 => c[1] <= visits'
    BY <1>1, NumbersOfCodes DEF BatchInv
  <1>4. ASSUME NEW e \in Devices, Spending(visit'[e]), NEW c \in visit'[e].read.codes
        PROVE  c[1] <= visits /\ visits < visits' /\ visit'[e] = visit[e] /\ c[1] \in Nat
    <2>1. visit'[e] = visit[e]
      BY <1>1, <1>4
    <2> QED
      BY <1>1, <1>4, <2>1, HeldCodes, NumbersOfCodes DEF BatchInv
  <1>5. ASSUME NEW e \in Devices, Enabling(visit'[e]), NEW c \in visit'[e].copy.codes
        PROVE  Apart(c, e)'
    <2>1. CASE e = d
      <3>1. Enabling(v) /\ c \in {visits + 1} \X (1 .. BatchCodes)
        BY <1>1, <1>5, <2>1
      <3>2. c[1] = visits + 1 /\ c \in BackupCodes
        <4>1. visits + 1 \in Secrets
          BY <1>1, Comes
        <4> QED
          BY <3>1, <4>1 DEF BackupCodes
      <3>3. uses'[c] = 0
        <4>1. uses[c] \in Nat /\ ~ (uses[c] > 0)
          BY <1>1, <3>2 DEF BatchInv, FactorTypeInv, FactorTypeOK
        <4> QED
          BY <4>1
      <3>4. Stored' => c \notin factor'.codes
        BY <1>1, <3>2 DEF BatchInv, Stored
      <3>5. \A f \in Devices : Spending(visit'[f]) => c \notin visit'[f].read.codes
        BY <1>1, <1>4, <3>2
      <3>6. \A f \in Devices \ {d} : Enabling(visit'[f]) => c \notin visit'[f].copy.codes
        BY <1>1, <3>2 DEF BatchInv
      <3> QED
        BY <1>1, <2>1, <3>2, <3>3, <3>4, <3>5, <3>6 DEF Apart
    <2>2. CASE e # d
      <3>1. visit'[e] = visit[e] /\ Enabling(visit[e]) /\ c \in visit[e].copy.codes
        BY <1>1, <1>5, <2>2
      <3>2. Apart(c, e) /\ c \in BackupCodes
        BY <3>1, HeldCodes DEF BatchInv, Apart
      <3>3. c[1] <= visits' /\ uses'[c] = 0 /\ (Stored' => c \notin factor'.codes)
        BY <1>1, <3>2, NumbersOfCodes DEF Apart, Stored
      <3>4. \A f \in Devices : Spending(visit'[f]) => c \notin visit'[f].read.codes
        BY <1>4, <3>2 DEF Apart
      <3>5. ASSUME NEW f \in Devices \ {e}, Enabling(visit'[f])
            PROVE  c \notin visit'[f].copy.codes
        <4>1. CASE f = d
          BY <1>1, <3>2, <3>5, <4>1 DEF Apart
        <4>2. CASE f # d
          BY <1>1, <3>2, <3>5, <4>2 DEF Apart
        <4> QED
          BY <4>1, <4>2
      <3> QED
        BY <3>3, <3>4, <3>5 DEF Apart
    <2> QED
      BY <2>1, <2>2
  <1> QED
    BY <1>1, <1>2, <1>3, <1>4, <1>5 DEF BatchInv, Apart, Enabling, Spending

(* All other steps: codes come only from where they were.                    *)
LEMMA BatchesStay ==
    ASSUME FactorTypeInv, BatchInv, visits' \in {visits, visits + 1},
           \A e \in Devices : Spending(visit'[e]) =>
              visit'[e] = visit[e] \/ (Stored /\ visit'[e].read = factor),
           \A e \in Devices : Enabling(visit'[e]) => visit'[e] = visit[e],
           Stored' => \/ Stored /\ factor' = factor
                      \/ factor'.codes = {}
                      \/ \E s \in Devices : Spending(visit[s])
                                            /\ factor'.codes \subseteq visit[s].read.codes
                      \/ \E s \in Devices : /\ Enabling(visit[s]) /\ ~ Enabling(visit'[s])
                                            /\ factor'.codes = visit[s].copy.codes,
           \A c \in BackupCodes :
              \/ uses'[c] = uses[c]
              \/ \E s \in Devices : Spending(visit[s]) /\ c \in visit[s].read.codes
    PROVE  BatchInv'
  <1>1. visits \in Nat /\ visits' >= visits /\ \A c \in BackupCodes : c[1] \in Nat
    BY HeldCodes, NumbersOfCodes
  <1>2. ASSUME Stored', NEW c \in factor'.codes
        PROVE  c[1] <= visits /\ c \in BackupCodes
    <2>1. CASE Stored /\ factor' = factor
      BY <1>2, <2>1, HeldCodes DEF BatchInv
    <2>2. ASSUME NEW s \in Devices, Spending(visit[s]), factor'.codes \subseteq visit[s].read.codes
          PROVE  c[1] <= visits /\ c \in BackupCodes
      BY <1>2, <2>2, HeldCodes DEF BatchInv
    <2>3. ASSUME NEW s \in Devices, Enabling(visit[s]), factor'.codes = visit[s].copy.codes
          PROVE  c[1] <= visits /\ c \in BackupCodes
      BY <1>2, <2>3, HeldCodes DEF BatchInv
    <2> QED
      BY <1>2, <2>1, <2>2, <2>3
  <1>3. ASSUME NEW c \in BackupCodes, uses'[c] > 0
        PROVE  c[1] <= visits
    BY <1>3 DEF BatchInv
  <1>4. ASSUME NEW e \in Devices, Spending(visit'[e]), NEW c \in visit'[e].read.codes
        PROVE  c[1] <= visits /\ c \in BackupCodes
    BY <1>4, HeldCodes DEF BatchInv
  <1>5. ASSUME NEW e \in Devices, Enabling(visit'[e]), NEW c \in visit'[e].copy.codes
        PROVE  Apart(c, e)' /\ c[1] <= visits
    <2>1. visit'[e] = visit[e] /\ Enabling(visit[e]) /\ c \in visit[e].copy.codes
      BY <1>5
    <2>2. Apart(c, e) /\ c \in BackupCodes
      BY <2>1, HeldCodes DEF BatchInv, Apart
    <2>3. c[1] <= visits'
      BY <1>1, <2>2 DEF Apart
    <2>4. uses'[c] = 0
      BY <2>2 DEF Apart
    <2>5. Stored' => c \notin factor'.codes
      <3> SUFFICES ASSUME Stored', c \in factor'.codes
                   PROVE  FALSE
        OBVIOUS
      <3>1. ASSUME NEW s \in Devices, Enabling(visit[s]), ~ Enabling(visit'[s]),
                   c \in visit[s].copy.codes
            PROVE  FALSE
        BY <1>5, <2>2, <3>1 DEF Apart
      <3> QED
        BY <2>2, <3>1 DEF Apart
    <2>6. \A f \in Devices : Spending(visit'[f]) => c \notin visit'[f].read.codes
      BY <2>2 DEF Apart
    <2>7. \A f \in Devices \ {e} : Enabling(visit'[f]) => c \notin visit'[f].copy.codes
      BY <2>2 DEF Apart
    <2> QED
      BY <2>2, <2>3, <2>4, <2>5, <2>6, <2>7 DEF Apart
  <1>6. Stored' => \A c \in factor'.codes : c[1] <= visits'
    BY <1>1, <1>2
  <1>7. \A c \in BackupCodes : uses'[c] > 0 => c[1] <= visits'
    BY <1>1, <1>3
  <1>8. \A e \in Devices : Spending(visit'[e]) => \A c \in visit'[e].read.codes : c[1] <= visits'
    BY <1>1, <1>4
  <1> QED
    BY <1>5, <1>6, <1>7, <1>8 DEF BatchInv, Apart, Enabling, Spending

LEMMA SavesKeepBatches ==
    ASSUME FactorTypeInv, BatchInv, NEW d \in Devices,
           SaveSetup(d) \/ SaveEnable(d) \/ SpendBackupCode(d)
    PROVE  BatchInv'
  <1> DEFINE v == visit[d]
  <1>1. /\ factor'.codes = v.copy.codes /\ visits' = visits
        /\ visit'[d] = NoVisit /\ \A e \in Devices \ {d} : visit'[e] = visit[e]
    BY SavingSteps, Saves
  <1>2. \A e \in Devices : Spending(visit'[e]) \/ Enabling(visit'[e]) => visit'[e] = visit[e]
    BY <1>1, NoVisitIsShaped
  <1>3. ~ Enabling(visit'[d])
    BY <1>1, NoVisitIsShaped
  <1>4. CASE SaveSetup(d)
    <2>1. v.copy.codes = {} /\ uses' = uses
      BY <1>4 DEF SaveSetup, FactorTypeInv, Shaped
    <2> QED
      BY <1>1, <1>2, <2>1, BatchesStay
  <1>5. CASE SaveEnable(d)
    <2>1. Enabling(v) /\ uses' = uses
      BY <1>5 DEF SaveEnable, Enabling
    <2> QED
      BY <1>1, <1>2, <1>3, <2>1, BatchesStay
  <1>6. CASE SpendBackupCode(d)
    <2>1. Spending(v) /\ uses' = [uses EXCEPT ![v.code] = @ + 1]
      BY <1>6 DEF SpendBackupCode, Spending
    <2>2. v.code \in v.read.codes /\ v.copy.codes \subseteq v.read.codes
      BY <2>1 DEF FactorTypeInv, Shaped
    <2>3. \A c \in BackupCodes : uses'[c] = uses[c] \/ c = v.code
      BY <2>1 DEF FactorTypeInv, FactorTypeOK
    <2>4. \A c \in BackupCodes :
             \/ uses'[c] = uses[c]
             \/ \E s \in Devices : Spending(visit[s]) /\ c \in visit[s].read.codes
      BY <2>1, <2>2, <2>3
    <2> QED
      BY <1>1, <1>2, <2>1, <2>2, <2>4, BatchesStay
  <1> QED
    BY <1>4, <1>5, <1>6

LEMMA StepBatches ==
    ASSUME FactorTypeInv, BatchInv, [FactorNext]_factorVars
    PROVE  BatchInv'
  <1>1. ASSUME NEW d \in Devices, Setup(d) \/ Enable(d) \/ Required(d)
        PROVE  BatchInv'
    <2>1. UNCHANGED <<factor, uses>>
      BY <1>1 DEF Setup, Enable, Required
    <2>2. PICK v \in Visits : /\ Come(d, v) /\ ~ Spending(v)
                              /\ Enabling(v) => v.copy.codes = {visits + 1} \X (1 .. BatchCodes)
      BY <1>1, SetupCopies, EnableCopies, Requires DEF Enabling, Spending
    <2> QED
      BY <2>1, <2>2, BatchesComeApart
  <1>2. ASSUME NEW d \in Devices, TakeBackupCode(d)
        PROVE  BatchInv'
    <2>1. UNCHANGED <<factor, visits, uses>>
      BY <1>2 DEF TakeBackupCode
    <2>2. /\ \A e \in Devices \ {d} : visit'[e] = visit[e]
          /\ visit'[d].read = factor /\ Stored /\ ~ Enabling(visit'[d])
      BY <1>2, TakesCode DEF Enabling
    <2> QED
      BY <2>1, <2>2, BatchesStay DEF Stored
  <1>3. ASSUME NEW d \in Devices, VerifyLogin(d) \/ VisitFails(d)
        PROVE  BatchInv'
    <2>1. Depart(d) /\ UNCHANGED <<factor, visits, uses>>
      BY <1>3 DEF VerifyLogin, VisitFails
    <2>2. \A e \in Devices : visit'[e] = visit[e] \/ visit'[e] = NoVisit
      BY <2>1, Departs
    <2> QED
      BY <2>1, <2>2, NoVisitIsShaped, BatchesStay DEF Stored
  <1>4. ASSUME NEW d \in Devices, Disable(d)
        PROVE  BatchInv'
    <2>1. factor' = NoFactor /\ visits' = visits + 1 /\ UNCHANGED <<visit, uses>>
      BY <1>4 DEF Disable
    <2>2. ~ Stored'
      BY <2>1 DEF Stored
    <2> QED
      BY <2>1, <2>2, BatchesStay
  <1>5. CASE UNCHANGED factorVars
    BY <1>5, BatchesStay DEF factorVars, Stored
  <1> QED
    BY <1>1, <1>2, <1>3, <1>4, <1>5, SavesKeepBatches DEF FactorNext

LEMMA StepUses ==
    ASSUME FactorTypeInv, BatchInv, UsesInv, [FactorNext]_factorVars
    PROVE  UsesInv'
  <1>1. CASE UNCHANGED <<uses, loose>> /\ (Stored' => Stored /\ factor' = factor)
    BY <1>1 DEF UsesInv
  <1>2. ASSUME NEW d \in Devices, SaveSetup(d) \/ SaveEnable(d) \/ SpendBackupCode(d)
        PROVE  UsesInv'
    <2> DEFINE v == visit[d]
    <2>1. /\ factor'.codes = v.copy.codes /\ loose \subseteq loose' /\ v \in Visits
          /\ factor # v.read => v.copy.codes \subseteq loose'
          /\ factor # v.read /\ Spending(v) => v.code \in loose'
      BY <1>2, SavingSteps, Saves
    <2>2. uses \in [BackupCodes -> Nat]
      BY DEF FactorTypeInv, FactorTypeOK
    <2>3. CASE SaveSetup(d) \/ SaveEnable(d)
      <3>1. uses' = uses
        BY <2>3 DEF SaveSetup, SaveEnable
      <3>2. \A c \in v.copy.codes : c \in BackupCodes => uses[c] = 0
        BY <2>3 DEF SaveSetup, SaveEnable, FactorTypeInv, Shaped, BatchInv, Enabling
      <3> QED
        BY <2>1, <2>2, <3>1, <3>2 DEF UsesInv
    <2>4. CASE SpendBackupCode(d)
      <3>1. Spending(v) /\ uses' = [uses EXCEPT ![v.code] = @ + 1]
        BY <2>4 DEF SpendBackupCode, Spending
      <3>2. /\ v.code \in BackupCodes /\ v.read \in Factors /\ v.code \in v.read.codes
            /\ v.copy.codes = v.read.codes \ {v.code}
        BY <2>1, <3>1, VisitKinds DEF FactorTypeInv, Shaped
      <3>3. uses'[v.code] = uses[v.code] + 1
            /\ \A c \in BackupCodes \ {v.code} : uses'[c] = uses[c]
        BY <2>2, <3>1, <3>2
      <3>4. ASSUME NEW c \in BackupCodes, uses'[c] > 0, c \notin loose'
            PROVE  uses'[c] = 1 /\ c \notin factor'.codes
        <4>1. CASE factor # v.read
          BY <2>1, <3>1, <3>3, <3>4, <4>1 DEF UsesInv
        <4>2. CASE factor = v.read
          <5>1. Stored
            BY <3>2, <4>2, NoFactorIsNone DEF Stored
          <5>2. CASE c = v.code
            <6>1. ~ (uses[c] > 0)
              BY <2>1, <3>2, <3>4, <4>2, <5>1, <5>2 DEF UsesInv
            <6>2. uses[c] = 0
              BY <2>2, <6>1
            <6> QED
              BY <2>1, <3>2, <3>3, <5>2, <6>2
          <5>3. CASE c # v.code
            BY <2>1, <3>2, <3>3, <3>4, <4>2, <5>1, <5>3 DEF UsesInv
          <5> QED
            BY <5>2, <5>3
        <4> QED
          BY <4>1, <4>2
      <3> QED
        BY <3>4 DEF UsesInv
    <2> QED
      BY <1>2, <2>3, <2>4
  <1>3. ASSUME NEW d \in Devices,
               \/ Setup(d) \/ Enable(d) \/ Required(d) \/ VerifyLogin(d)
               \/ TakeBackupCode(d) \/ VisitFails(d)
        PROVE  UNCHANGED <<factor, uses, loose>>
    BY <1>3 DEF Setup, Enable, Required, VerifyLogin, TakeBackupCode, VisitFails
  <1>4. ASSUME NEW d \in Devices, Disable(d)
        PROVE  UNCHANGED <<uses, loose>> /\ ~ Stored'
    BY <1>4 DEF Disable, Stored
  <1>5. UNCHANGED factorVars => UNCHANGED <<factor, uses, loose>>
    BY DEF factorVars
  <1>6. UNCHANGED <<factor, uses, loose>> => UsesInv'
    BY <1>1 DEF Stored
  <1> QED
    BY <1>1, <1>2, <1>3, <1>4, <1>5, <1>6 DEF FactorNext

LEMMA InitFactor == FactorInit => FactorTypeInv /\ EnrolledInv /\ BatchInv /\ UsesInv
  <1> SUFFICES ASSUME FactorInit
               PROVE  FactorTypeInv /\ EnrolledInv /\ BatchInv /\ UsesInv
    OBVIOUS
  <1>1. FactorTypeOK
    <2>1. 0 \in 0 .. MaxVisits
      BY FactorAssumption
    <2>2. visit \in [Devices -> Visits \cup {NoVisit}]
      BY DEF FactorInit
    <2>3. uses \in [BackupCodes -> Nat]
      BY DEF FactorInit
    <2> QED
      BY <2>1, <2>2, <2>3 DEF FactorInit, FactorTypeOK
  <1>2. FactorTypeInv
    BY <1>1, NoVisitIsShaped DEF FactorInit, FactorTypeInv
  <1>3. ~ Stored /\ \A d \in Devices : ~ Spending(visit[d]) /\ ~ Enabling(visit[d])
    BY NoVisitIsShaped DEF FactorInit, Stored
  <1> QED
    BY <1>2, <1>3 DEF FactorInit, EnrolledInv, BatchInv, UsesInv, InForce

(* The factor, its codes and the requests on it keep their types.            *)
THEOREM FactorTypeCorrect == FactorSpec => []FactorTypeOK
  <1>1. FactorInit => FactorTypeInv
    BY InitFactor
  <1>2. FactorTypeInv /\ [FactorNext]_factorVars => FactorTypeInv'
    BY StepFactorTypes
  <1>3. FactorTypeInv => FactorTypeOK
    BY DEF FactorTypeInv
  <1> QED
    BY <1>1, <1>2, <1>3, PTL DEF FactorSpec

(* The factor in force is the one last confirmed and not removed, unless a   *)
(* copy was saved over a row it was not read from, and a backup code opens   *)
(* one login, unless it was saved or spent in such a copy.                   *)
THEOREM FactorIsHeld == FactorSpec => []FactorHolds
  <1> DEFINE Inv == FactorTypeInv /\ EnrolledInv /\ BatchInv /\ UsesInv
  <1>1. FactorInit => Inv
    BY InitFactor
  <1>2. Inv /\ [FactorNext]_factorVars => Inv'
    BY StepFactorTypes, StepEnrolled, StepBatches, StepUses
  <1>3. Inv => FactorHolds
    BY DEF EnrolledInv, UsesInv, FactorHolds, FactorTypeInv, FactorTypeOK
  <1> HIDE DEF Inv
  <1> QED
    BY <1>1, <1>2, <1>3, PTL DEF FactorSpec

---------------------------------------------------------------------------------
(* Users and roles: where each operation may stand.                          *)

TaskStages(does) ==
    CASE does = "createUser" -> {"write"}
      [] does = "createRole" -> {"write", "lookup", "add", "trim"}
      [] does = "updateRole" -> {"find", "lookup", "add", "trim"}
      [] does = "deleteRole" -> {"find", "count", "clear", "remove"}
      [] OTHER               -> {"find", "write"}

Placed(t) ==
    /\ t.step \in TaskStages(t.does)
    /\ t.does = "createUser" => t.role # "same"

Tasked(d) == task[d] # Idle

RolesTypeInv ==
    /\ RolesTypeOK
    /\ \A d \in Desks : Tasked(d) => Placed(task[d])

(* Whoever is about to change an admin without the right to has passed the   *)
(* check before the change that made him one.                                *)
AdminInv ==
    /\ trespassed \subseteq hasty
    /\ \A d \in Desks : AtStep(d, OnUsers \ {"createUser"}, "write") /\ Trespasses(task[d]) =>
          task[d].of \in hasty

(* A role about to go is had by nobody but those who were given it blindly.  *)
GoingInv ==
    \A d \in Desks : Tasked(d) /\ task[d].step \in {"clear", "remove"} =>
        \A p \in Staff : Alive(p) /\ person[p].role = task[d].of => p \in blind

Trimming(d) == AtStep(d, OnRoles, "trim")

(* What a request is about to trim to is there, unless others write too.     *)
TrimInv ==
    /\ \A r \in CustomRoles : roleRow[r] = "absent" => grants[r] = {}
    /\ \A d \in Desks : Tasked(d) /\ task[d].does \in OnRoles /\ task[d].step \notin {"find", "write"}
                        => roleRow[task[d].of] # "absent"
    /\ \A d \in Desks : Trimming(d) /\ ~ task[d].overlapped =>
          task[d].found \subseteq grants[task[d].of]
    /\ \A d, e \in Desks : d # e /\ Trimming(d) /\ Trimming(e) /\ task[d].of = task[e].of =>
          task[d].overlapped

LEMMA TaskKinds ==
    ASSUME NEW t \in Tasks
    PROVE  /\ t # Idle /\ t.does \in OnUsers \cup OnRoles
           /\ t.does \in OnUsers <=> t.does \notin OnRoles
           /\ t.does \in OnUsers => /\ t.of \in Staff /\ t.byAdmin \in BOOLEAN
                                    /\ t.role \in RoleIds \cup {"same"}
                                    /\ t.step \in {"find", "write"}
           /\ t.does \in OnRoles => /\ t.of \in CustomRoles /\ t.wanted \subseteq Rights
                                    /\ t.found \subseteq Rights /\ t.overlapped \in BOOLEAN
           /\ t.step # "idle"
  <1>1. t.step # "idle" /\ t.does \in OnUsers \cup OnRoles
    BY DEF Tasks
  <1>2. t # Idle
    BY <1>1 DEF Idle
  <1> QED
    BY <1>1, <1>2 DEF Tasks, OnUsers, OnRoles

LEMMA Working ==
    ASSUME RolesTypeInv, NEW d \in Desks, Tasked(d)
    PROVE  task[d] \in Tasks /\ Placed(task[d]) /\ task \in [Desks -> Tasks \cup {Idle}]
  BY DEF RolesTypeInv, RolesTypeOK, Tasked

LEMMA Responds ==
    ASSUME RolesTypeInv, NEW d \in Desks, Respond(d)
    PROVE  /\ task' \in [Desks -> Tasks \cup {Idle}]
           /\ task'[d] = Idle /\ \A e \in Desks \ {d} : task'[e] = task[e]
  BY DEF Respond, RolesTypeInv, RolesTypeOK

LEMMA SteppedTasks ==
    ASSUME NEW t \in Tasks, NEW step, Placed(t), step \in TaskStages(t.does)
    PROVE  LET u == [t EXCEPT !.step = step] IN
           /\ u \in Tasks /\ Placed(u) /\ u.step = step /\ u.does = t.does /\ u.of = t.of
           /\ t.does \in OnUsers => u.byAdmin = t.byAdmin /\ u.role = t.role
           /\ t.does \in OnRoles => /\ u.wanted = t.wanted /\ u.found = t.found
                                    /\ u.overlapped = t.overlapped
  <1> DEFINE u == [t EXCEPT !.step = step]
  <1>1. CASE t.does \in OnUsers
    <2>1. step \in {"find", "write"}
      BY <1>1 DEF TaskStages, OnUsers
    <2>2. /\ u \in Tasks /\ u.step = step /\ u.does = t.does /\ u.of = t.of
          /\ u.byAdmin = t.byAdmin /\ u.role = t.role
      BY <1>1, <2>1 DEF Tasks, OnUsers, OnRoles
    <2> HIDE DEF u
    <2> QED
      BY <1>1, <2>2 DEF Placed, OnUsers, OnRoles, u
  <1>2. CASE t.does \in OnRoles
    <2>1. step \in {"find", "write", "lookup", "add", "trim", "count", "clear", "remove"}
      BY <1>2 DEF TaskStages, OnRoles
    <2>2. /\ u \in Tasks /\ u.step = step /\ u.does = t.does /\ u.of = t.of
          /\ u.wanted = t.wanted /\ u.found = t.found /\ u.overlapped = t.overlapped
      BY <1>2, <2>1 DEF Tasks, OnUsers, OnRoles
    <2> HIDE DEF u
    <2> QED
      BY <1>2, <2>2 DEF Placed, OnUsers, OnRoles, u
  <1> QED
    BY <1>1, <1>2, TaskKinds

LEMMA Proceeds ==
    ASSUME RolesTypeInv, NEW d \in Desks, Tasked(d), NEW step, Proceed(d, step),
           step \in TaskStages(task[d].does)
    PROVE  /\ task' \in [Desks -> Tasks \cup {Idle}]
           /\ \A e \in Desks \ {d} : task'[e] = task[e]
           /\ task'[d] \in Tasks /\ task'[d] # Idle /\ Placed(task'[d])
           /\ task'[d].step = step /\ task'[d].does = task[d].does /\ task'[d].of = task[d].of
           /\ task[d].does \in OnUsers =>
                 task'[d].byAdmin = task[d].byAdmin /\ task'[d].role = task[d].role
           /\ task[d].does \in OnRoles =>
                 /\ task'[d].wanted = task[d].wanted /\ task'[d].found = task[d].found
                 /\ task'[d].overlapped = task[d].overlapped
  <1> DEFINE t == task[d]
             u == [t EXCEPT !.step = step]
  <1>1. t \in Tasks /\ Placed(t) /\ task \in [Desks -> Tasks \cup {Idle}]
    BY Working
  <1>2. task' = [task EXCEPT ![d] = u]
    BY DEF Proceed
  <1>3. /\ u \in Tasks /\ Placed(u) /\ u.step = step /\ u.does = t.does /\ u.of = t.of
        /\ t.does \in OnUsers => u.byAdmin = t.byAdmin /\ u.role = t.role
        /\ t.does \in OnRoles => /\ u.wanted = t.wanted /\ u.found = t.found
                                 /\ u.overlapped = t.overlapped
    BY <1>1, SteppedTasks
  <1> HIDE DEF u
  <1>4. u # Idle
    BY <1>3, TaskKinds
  <1> QED
    BY <1>1, <1>2, <1>3, <1>4

(* A step that moves the request of desk d only, to a place it may have.     *)
Alone(d) ==
    /\ task' \in [Desks -> Tasks \cup {Idle}]
    /\ \A e \in Desks \ {d} : task'[e] = task[e]
    /\ task'[d] # Idle => Placed(task'[d])

Keeps(d) ==
    /\ task'[d].does = task[d].does /\ task'[d].of = task[d].of
    /\ task[d].does \in OnUsers =>
          task'[d].byAdmin = task[d].byAdmin /\ task'[d].role = task[d].role
    /\ task[d].does \in OnRoles =>
          /\ task'[d].wanted = task[d].wanted /\ task'[d].found = task[d].found
          /\ task'[d].overlapped = task[d].overlapped

LEMMA RespondsAlone ==
    ASSUME RolesTypeInv, NEW d \in Desks, Respond(d)
    PROVE  Alone(d) /\ task'[d] = Idle
  BY Responds DEF Alone

LEMMA ProceedsAlone ==
    ASSUME RolesTypeInv, NEW d \in Desks, Tasked(d), NEW step, Proceed(d, step),
           step \in TaskStages(task[d].does)
    PROVE  Alone(d) /\ Keeps(d) /\ task'[d] \in Tasks /\ task'[d] # Idle /\ task'[d].step = step
  BY Proceeds DEF Alone, Keeps

Begun(d, t) ==
    /\ task' = [task EXCEPT ![d] = t] /\ Placed(t)
    /\ t.step \in {"find", "write"}
    /\ t.does \in OnUsers \ {"createUser"} => t.step = "find"

LEMMA TaskBegins ==
    ASSUME RolesTypeInv, NEW d \in Desks, BeginTask(d)
    PROVE  /\ Alone(d) /\ task'[d] \in Tasks
           /\ task'[d].step \in {"find", "write"}
           /\ task'[d].does \in OnUsers \ {"createUser"} => task'[d].step = "find"
           /\ tasks' \in 0 .. MaxTasks
  <1>1. \E t \in Tasks : Begun(d, t)
    <2>1. ASSUME NEW author \in Staff, NEW does \in OnUsers, NEW p \in Staff,
                 NEW r \in RoleIds \cup {"same"}, does = "createUser" => r # "same",
                 task' = [task EXCEPT ![d] =
                    [does |-> does, step |-> IF does = "createUser" THEN "write" ELSE "find",
                     of |-> p, byAdmin |-> IsAdmin(author), role |-> r]]
          PROVE  \E t \in Tasks : Begun(d, t)
      <3> DEFINE step == IF does = "createUser" THEN "write" ELSE "find"
                 t == [does |-> does, step |-> step, of |-> p, byAdmin |-> IsAdmin(author),
                       role |-> r]
      <3>1. step \in {"find", "write"} /\ step \in TaskStages(does)
        BY DEF TaskStages, OnUsers
      <3>2. IsAdmin(author) \in BOOLEAN
        BY DEF IsAdmin
      <3>3. does # "createUser" => step = "find"
        OBVIOUS
      <3>4. task' = [task EXCEPT ![d] = t]
        BY <2>1
      <3> HIDE DEF step
      <3>5. t \in Tasks
        BY <3>1, <3>2 DEF Tasks
      <3>6. Placed(t) /\ t.step \in {"find", "write"}
            /\ (t.does \in OnUsers \ {"createUser"} => t.step = "find")
        BY <2>1, <3>1, <3>3 DEF Placed
      <3> HIDE DEF t
      <3> QED
        BY <3>4, <3>5, <3>6 DEF Begun
    <2>2. ASSUME NEW does \in OnRoles, NEW r \in CustomRoles, NEW wanted \in Offers,
                 task' = [task EXCEPT ![d] =
                    [does |-> does, step |-> IF does = "createRole" THEN "write" ELSE "find",
                     of |-> r, wanted |-> wanted, found |-> {}, overlapped |-> FALSE]]
          PROVE  \E t \in Tasks : Begun(d, t)
      <3> DEFINE step == IF does = "createRole" THEN "write" ELSE "find"
                 t == [does |-> does, step |-> step, of |-> r, wanted |-> wanted,
                       found |-> {}, overlapped |-> FALSE]
      <3>1. step \in {"find", "write"} /\ step \in TaskStages(does)
        BY DEF TaskStages, OnRoles
      <3>2. wanted \in SUBSET Rights
        BY DEF Offers
      <3>3. task' = [task EXCEPT ![d] = t]
        BY <2>2
      <3> HIDE DEF step
      <3>4. t \in Tasks
        BY <3>1, <3>2 DEF Tasks
      <3>5. Placed(t) /\ t.step \in {"find", "write"} /\ t.does \notin OnUsers
        BY <3>1 DEF Placed, OnRoles, OnUsers
      <3> HIDE DEF t
      <3> QED
        BY <3>3, <3>4, <3>5 DEF Begun
    <2> QED
      BY <2>1, <2>2 DEF BeginTask
  <1>2. tasks' \in 0 .. MaxTasks
    BY RolesAssumption DEF BeginTask, RolesTypeInv, RolesTypeOK
  <1>3. task \in [Desks -> Tasks \cup {Idle}]
    BY DEF RolesTypeInv, RolesTypeOK
  <1> QED
    BY <1>1, <1>2, <1>3 DEF Alone, Begun

(* A desk at a step is busy with a task of that kind.                        *)
LEMMA AtSteps ==
    ASSUME RolesTypeInv, NEW d \in Desks, NEW does \in SUBSET (OnUsers \cup OnRoles), NEW step,
           AtStep(d, does, step)
    PROVE  Tasked(d) /\ task[d] \in Tasks /\ Placed(task[d]) /\ task[d].step = step
           /\ task[d].does \in does
  BY Working DEF AtStep, Tasked

LEMMA FindsTarget ==
    ASSUME RolesTypeInv, NEW d \in Desks, FindTarget(d)
    PROVE  /\ Alone(d) /\ Tasked(d) /\ task[d].does \in OnUsers
           /\ task'[d] # Idle => Keeps(d) /\ Admits(task[d]) /\ task'[d] \in Tasks
  <1>1. Tasked(d) /\ task[d].does \in OnUsers /\ Placed(task[d]) /\ task[d].step = "find"
    BY AtSteps DEF FindTarget
  <1>2. "write" \in TaskStages(task[d].does)
    BY <1>1 DEF TaskStages, OnUsers, Placed
  <1>3. CASE Respond(d)
    BY <1>1, <1>3, RespondsAlone
  <1>4. CASE Proceed(d, "write") /\ Admits(task[d])
    BY <1>1, <1>2, <1>4, ProceedsAlone
  <1> QED
    BY <1>3, <1>4 DEF FindTarget

(* What a write of a user comes to.                                          *)
LEMMA WritesUser ==
    ASSUME RolesTypeInv, NEW d \in Desks, CreateUser(d) \/ ChangeUser(d)
    PROVE  /\ Alone(d) /\ task'[d] = Idle /\ Tasked(d)
           /\ task[d] \in Tasks /\ task[d].does \in OnUsers /\ task[d].step = "write"
           /\ task[d].of \in Staff
           /\ person' \in [Staff -> [state : {"absent", "live", "deleted"}, role : RoleIds]]
           /\ \A p \in Staff \ {task[d].of} : person'[p] = person[p]
           /\ \/ UNCHANGED <<person, blind, hasty>>
              \/ person'[task[d].of].state = "deleted" /\ UNCHANGED <<blind, hasty>>
              \/ /\ task[d].role \in RoleIds
                 /\ person'[task[d].of].state = "live"
                 /\ person'[task[d].of].role = task[d].role
                 /\ Given(d, task[d].of, task[d].role)
           /\ UNCHANGED <<roleRow, grants, tasks, setbacks, decided, muddled>>
  <1> DEFINE t == task[d]
  <1>1. Tasked(d) /\ t \in Tasks /\ Placed(t) /\ t.step = "write" /\ t.does \in OnUsers
    BY AtSteps DEF CreateUser, ChangeUser, OnUsers
  <1>2. t.of \in Staff /\ t.role \in RoleIds \cup {"same"}
    BY <1>1, TaskKinds
  <1>3. Alone(d) /\ task'[d] = Idle
    BY RespondsAlone DEF CreateUser, ChangeUser
  <1>4. person \in [Staff -> [state : {"absent", "live", "deleted"}, role : RoleIds]]
    BY DEF RolesTypeInv, RolesTypeOK
  <1>5. \/ UNCHANGED <<person, blind, hasty>>
        \/ /\ person' = [person EXCEPT ![t.of].state = "deleted"]
           /\ UNCHANGED <<blind, hasty>>
        \/ /\ t.role \in RoleIds /\ Given(d, t.of, t.role)
           /\ person' = [person EXCEPT ![t.of] = [state |-> "live", role |-> t.role]]
    <2>1. CASE CreateUser(d)
      <3>1. t.does = "createUser"
        BY <2>1 DEF CreateUser, AtStep
      <3>2. t.role \in RoleIds
        BY <1>1, <1>2, <3>1 DEF Placed
      <3> QED
        BY <2>1, <3>2 DEF CreateUser
    <2>2. CASE ChangeUser(d)
      <3>1. CASE Alive(t.of) /\ t.does = "deleteUser"
        BY <2>2, <3>1 DEF ChangeUser
      <3>2. CASE Alive(t.of) /\ t.role # "same" /\ t.does # "deleteUser"
        <4>1. person' = [person EXCEPT ![t.of].role = t.role] /\ Given(d, t.of, t.role)
          BY <2>2, <3>2 DEF ChangeUser
        <4>2. [person[t.of] EXCEPT !.role = t.role] = [state |-> "live", role |-> t.role]
          BY <1>2, <1>4, <3>2 DEF Alive
        <4>3. person' = [person EXCEPT ![t.of] = [person[t.of] EXCEPT !.role = t.role]]
          BY <4>1
        <4> QED
          BY <1>2, <3>2, <4>1, <4>2, <4>3
      <3> QED
        BY <2>2, <3>1, <3>2 DEF ChangeUser
    <2> QED
      BY <2>1, <2>2
  <1>6. UNCHANGED <<roleRow, grants, tasks, setbacks, decided, muddled>>
    BY DEF CreateUser, ChangeUser
  <1>7. CASE UNCHANGED <<person, blind, hasty>>
    BY <1>1, <1>2, <1>3, <1>4, <1>6, <1>7
  <1>8. CASE /\ person' = [person EXCEPT ![t.of].state = "deleted"]
             /\ UNCHANGED <<blind, hasty>>
    <2>1. /\ person' \in [Staff -> [state : {"absent", "live", "deleted"}, role : RoleIds]]
          /\ person'[t.of].state = "deleted"
          /\ \A p \in Staff \ {t.of} : person'[p] = person[p]
      BY <1>2, <1>4, <1>8
    <2> QED
      BY <1>1, <1>2, <1>3, <1>6, <1>8, <2>1
  <1>9. CASE /\ t.role \in RoleIds /\ Given(d, t.of, t.role)
             /\ person' = [person EXCEPT ![t.of] = [state |-> "live", role |-> t.role]]
    <2>1. /\ person' \in [Staff -> [state : {"absent", "live", "deleted"}, role : RoleIds]]
          /\ person'[t.of] = [state |-> "live", role |-> t.role]
          /\ \A p \in Staff \ {t.of} : person'[p] = person[p]
      BY <1>2, <1>4, <1>9
    <2> QED
      BY <1>1, <1>2, <1>3, <1>6, <1>9, <2>1
  <1> QED
    BY <1>5, <1>7, <1>8, <1>9

(* The steps on roles that move only their own request.                      *)
LEMMA RoleStepsAlone ==
    ASSUME RolesTypeInv, NEW d \in Desks,
           \/ CreateRole(d) \/ FindRole(d) \/ LookupFails(d) \/ TrimPermissions(d)
           \/ CountUsersByRoleID(d) \/ ClearFails(d) \/ DeleteRole(d)
    PROVE  /\ Alone(d) /\ Tasked(d) /\ task[d] \in Tasks /\ Placed(task[d])
           /\ task[d].does \in OnRoles /\ task[d].of \in CustomRoles
           /\ task'[d] # Idle => Keeps(d) /\ task'[d] \in Tasks
  <1>1. /\ Tasked(d) /\ task[d] \in Tasks /\ Placed(task[d]) /\ task[d].does \in OnRoles
    <2>1. Tasked(d) /\ task[d].does \in OnRoles
      BY DEF CreateRole, FindRole, LookupFails, TrimPermissions, CountUsersByRoleID,
             ClearFails, DeleteRole, AtStep, Tasked, OnRoles
    <2> QED
      BY <2>1, Working
  <1>2. task[d].of \in CustomRoles
    BY <1>1, TaskKinds
  <1>3. CASE Respond(d)
    BY <1>1, <1>2, <1>3, RespondsAlone
  <1>4. CASE ~ Respond(d)
    <2>1. \E step \in TaskStages(task[d].does) : Proceed(d, step)
      <3>1. CASE CreateRole(d)
        BY <1>4, <3>1 DEF CreateRole, AtStep, TaskStages
      <3>2. CASE FindRole(d)
        <4>1. task[d].step = "find"
          BY <3>2 DEF FindRole, AtStep
        <4>2. IF task[d].does = "deleteRole" THEN "count" \in TaskStages(task[d].does)
              ELSE "lookup" \in TaskStages(task[d].does)
          BY <1>1, <4>1 DEF TaskStages, OnRoles, Placed
        <4> QED
          BY <1>4, <3>2, <4>2 DEF FindRole
      <3>3. CASE LookupFails(d)
        BY <1>1, <3>3 DEF LookupFails, AtStep, TaskStages, Placed, OnRoles
      <3>4. CASE CountUsersByRoleID(d)
        BY <1>4, <3>4 DEF CountUsersByRoleID, AtStep, TaskStages
      <3>5. CASE ClearFails(d)
        BY <3>5 DEF ClearFails, AtStep, TaskStages
      <3> QED
        BY <1>4, <3>1, <3>2, <3>3, <3>4, <3>5 DEF TrimPermissions, DeleteRole
    <2> QED
      BY <1>1, <1>2, <2>1, ProceedsAlone
  <1> QED
    BY <1>3, <1>4


(* The two writes of permissions that tell the requests beside them.          *)
LEMMA MarksRivals ==
    ASSUME RolesTypeInv, NEW d \in Desks, AddPermissions(d) \/ ClearPermissions(d)
    PROVE  /\ Tasked(d) /\ task[d] \in Tasks /\ Placed(task[d]) /\ task[d].does \in OnRoles
           /\ task[d].of \in CustomRoles
           /\ task' \in [Desks -> Tasks \cup {Idle}]
           /\ task'[d] \in Tasks /\ task'[d] # Idle /\ Placed(task'[d])
           /\ task'[d].does = task[d].does /\ task'[d].of = task[d].of
           /\ task'[d].wanted = task[d].wanted /\ task'[d].found = task[d].found
           /\ AddPermissions(d) => /\ task'[d].step = "trim"
                                   /\ task'[d].overlapped = (Rivals(d) # {})
           /\ ClearPermissions(d) => task'[d].step = "remove"
           /\ \A e \in Desks \ {d} :
                 \/ task'[e] = task[e] /\ e \notin Rivals(d)
                 \/ /\ e \in Rivals(d) /\ Trimming(e) /\ Trimming(e)' /\ task[e].of = task[d].of
                    /\ task'[e] \in Tasks /\ task'[e] # Idle /\ Placed(task'[e])
                    /\ task'[e].does = task[e].does /\ task'[e].of = task[e].of
                    /\ task'[e].wanted = task[e].wanted /\ task'[e].found = task[e].found
                    /\ task'[e].step = "trim" /\ task'[e].overlapped
  <1> DEFINE t == task[d]
             Left(e) == [task[e] EXCEPT !.overlapped = TRUE]
  <1>1. /\ Tasked(d) /\ t \in Tasks /\ Placed(t) /\ t.does \in OnRoles
    <2>1. Tasked(d) /\ t.does \in OnRoles
      BY DEF AddPermissions, ClearPermissions, AtStep, Tasked, OnRoles
    <2> QED
      BY <2>1, Working
  <1>2. t.of \in CustomRoles
    BY <1>1, TaskKinds
  <1>3. ASSUME NEW e \in Rivals(d)
        PROVE  /\ e \in Desks \ {d} /\ Trimming(e) /\ task[e].of = t.of
               /\ Left(e) \in Tasks /\ Placed(Left(e)) /\ Left(e).does = task[e].does
               /\ Left(e).of = task[e].of /\ Left(e).wanted = task[e].wanted
               /\ Left(e).found = task[e].found /\ Left(e).step = "trim" /\ Left(e).overlapped
               /\ task[e].does \in OnRoles
    <2>1. e \in Desks \ {d} /\ Trimming(e) /\ task[e].of = t.of
      BY <1>3 DEF Rivals, Trimming
    <2>2. task[e] \in Tasks /\ Placed(task[e]) /\ task[e].does \in OnRoles /\ task[e].step = "trim"
      BY <2>1, Working DEF Trimming, AtStep, Tasked
    <2>3. /\ Left(e) \in Tasks /\ Left(e).does = task[e].does
          /\ Left(e).of = task[e].of /\ Left(e).wanted = task[e].wanted
          /\ Left(e).found = task[e].found /\ Left(e).step = "trim" /\ Left(e).overlapped
      BY <2>2 DEF Tasks, OnRoles, OnUsers
    <2> HIDE DEF Left
    <2>4. Placed(Left(e))
      BY <2>2, <2>3 DEF Placed, OnRoles
    <2> QED
      BY <2>1, <2>2, <2>3, <2>4
  <1>4. \E step \in {"trim", "remove"}, overlapped \in BOOLEAN :
           LET u == [t EXCEPT !.step = step, !.overlapped = overlapped] IN
           /\ u \in Tasks /\ Placed(u) /\ u.does = t.does /\ u.of = t.of
           /\ u.wanted = t.wanted /\ u.found = t.found /\ u.step = step
           /\ u.overlapped = overlapped
           /\ AddPermissions(d) => step = "trim" /\ overlapped = (Rivals(d) # {})
           /\ ClearPermissions(d) => step = "remove"
           /\ task' = [e \in Desks |-> IF e = d THEN u
                                       ELSE IF e \in Rivals(d) THEN Left(e) ELSE task[e]]
    <2>1. ASSUME NEW step \in {"trim", "remove"}, NEW overlapped \in BOOLEAN, step \in TaskStages(t.does)
          PROVE  LET u == [t EXCEPT !.step = step, !.overlapped = overlapped] IN
                 /\ u \in Tasks /\ Placed(u) /\ u.does = t.does /\ u.of = t.of
                 /\ u.wanted = t.wanted /\ u.found = t.found /\ u.step = step
                 /\ u.overlapped = overlapped
      <3> DEFINE u == [t EXCEPT !.step = step, !.overlapped = overlapped]
      <3>1. /\ u \in Tasks /\ u.does = t.does /\ u.of = t.of
            /\ u.wanted = t.wanted /\ u.found = t.found /\ u.step = step
            /\ u.overlapped = overlapped
        BY <1>1 DEF Tasks, OnRoles, OnUsers
      <3> HIDE DEF u
      <3>2. Placed(u)
        BY <1>1, <2>1, <3>1 DEF Placed, OnRoles
      <3> QED
        BY <3>1, <3>2 DEF u
    <2>2. CASE AddPermissions(d)
      <3>1. "trim" \in TaskStages(t.does) /\ t.step = "add"
        BY <1>1, <2>2 DEF AddPermissions, AtStep, TaskStages, Placed, OnRoles
      <3>2. ~ ClearPermissions(d)
        BY <3>1 DEF ClearPermissions, AtStep
      <3>3. (Rivals(d) # {}) \in BOOLEAN
        OBVIOUS
      <3>4. task' = [e \in Desks |->
               IF e = d THEN [t EXCEPT !.step = "trim", !.overlapped = (Rivals(d) # {})]
               ELSE IF e \in Rivals(d) THEN Left(e) ELSE task[e]]
        BY <2>2 DEF AddPermissions
      <3> HIDE DEF Left, t
      <3> QED
        BY <2>1, <2>2, <3>1, <3>2, <3>3, <3>4
    <2>3. CASE ClearPermissions(d)
      <3>1. "remove" \in TaskStages(t.does) /\ t.step = "clear"
        BY <2>3 DEF ClearPermissions, AtStep, TaskStages
      <3>2. ~ AddPermissions(d)
        BY <3>1 DEF AddPermissions, AtStep
      <3>3. t.overlapped \in BOOLEAN
        BY <1>1, TaskKinds
      <3>4. [t EXCEPT !.step = "remove"] = [t EXCEPT !.step = "remove", !.overlapped = t.overlapped]
        BY <1>1 DEF Tasks, OnRoles, OnUsers
      <3>5. task' = [e \in Desks |->
               IF e = d THEN [t EXCEPT !.step = "remove", !.overlapped = t.overlapped]
               ELSE IF e \in Rivals(d) THEN Left(e) ELSE task[e]]
        BY <2>3, <3>4 DEF ClearPermissions
      <3> HIDE DEF Left, t
      <3> QED
        BY <2>1, <2>3, <3>1, <3>2, <3>3, <3>5
    <2> QED
      BY <2>2, <2>3
  <1>5. PICK u \in Tasks :
           /\ Placed(u) /\ u.does = t.does /\ u.of = t.of
           /\ u.wanted = t.wanted /\ u.found = t.found
           /\ AddPermissions(d) => u.step = "trim" /\ u.overlapped = (Rivals(d) # {})
           /\ ClearPermissions(d) => u.step = "remove"
           /\ task' = [e \in Desks |-> IF e = d THEN u
                                       ELSE IF e \in Rivals(d) THEN Left(e) ELSE task[e]]
    <2>1. PICK step \in {"trim", "remove"}, overlapped \in BOOLEAN :
             LET u == [t EXCEPT !.step = step, !.overlapped = overlapped] IN
             /\ u \in Tasks /\ Placed(u) /\ u.does = t.does /\ u.of = t.of
             /\ u.wanted = t.wanted /\ u.found = t.found /\ u.step = step
             /\ u.overlapped = overlapped
             /\ AddPermissions(d) => step = "trim" /\ overlapped = (Rivals(d) # {})
             /\ ClearPermissions(d) => step = "remove"
             /\ task' = [e \in Desks |-> IF e = d THEN u
                                         ELSE IF e \in Rivals(d) THEN Left(e) ELSE task[e]]
      BY <1>4
    <2> DEFINE u == [t EXCEPT !.step = step, !.overlapped = overlapped]
    <2>2. /\ u \in Tasks /\ Placed(u) /\ u.does = t.does /\ u.of = t.of
          /\ u.wanted = t.wanted /\ u.found = t.found /\ u.step = step
          /\ u.overlapped = overlapped
          /\ AddPermissions(d) => step = "trim" /\ overlapped = (Rivals(d) # {})
          /\ ClearPermissions(d) => step = "remove"
          /\ task' = [e \in Desks |-> IF e = d THEN u
                                      ELSE IF e \in Rivals(d) THEN Left(e) ELSE task[e]]
      BY <2>1
    <2> HIDE DEF Left, u, t
    <2> QED
      BY <2>2
  <1> HIDE DEF Left
  <1>6. u # Idle /\ \A e \in Rivals(d) : Left(e) # Idle
    BY <1>3, TaskKinds
  <1>7. task \in [Desks -> Tasks \cup {Idle}]
    BY DEF RolesTypeInv, RolesTypeOK
  <1>8. task'[d] = u
    BY <1>5
  <1>9. ASSUME NEW e \in Desks \ {d}
        PROVE  task'[e] = IF e \in Rivals(d) THEN Left(e) ELSE task[e]
    BY <1>5
  <1>10. task' \in [Desks -> Tasks \cup {Idle}]
    BY <1>3, <1>5, <1>7
  <1>11. ASSUME NEW e \in Rivals(d) PROVE Trimming(e)'
    BY <1>3, <1>6, <1>9, <1>11 DEF Trimming, AtStep
  <1> QED
    BY <1>1, <1>2, <1>3, <1>5, <1>6, <1>8, <1>9, <1>10, <1>11


(* What every step comes to for the requests and the types of the rest.      *)
LEMMA FailsAlone ==
    ASSUME RolesTypeInv, NEW d \in Desks, TaskFails(d)
    PROVE  Alone(d) /\ task'[d] = Idle /\ Tasked(d) /\ task[d] \in Tasks
           /\ muddled' \subseteq CustomRoles /\ setbacks' \in 0 .. MaxSetbacks
  <1>1. Tasked(d) /\ task[d] \in Tasks /\ Placed(task[d])
    BY Working DEF TaskFails, Tasked
  <1>2. Alone(d) /\ task'[d] = Idle
    BY RespondsAlone DEF TaskFails
  <1>3. task[d].step \in {"lookup", "add", "trim"} => task[d].of \in CustomRoles
    BY <1>1, TaskKinds
  <1>4. setbacks' \in 0 .. MaxSetbacks
    BY RolesAssumption DEF TaskFails, RolesTypeInv, RolesTypeOK
  <1> QED
    BY <1>1, <1>2, <1>3, <1>4 DEF TaskFails, RolesTypeInv, RolesTypeOK

LEMMA PlacedTasks ==
    ASSUME RolesTypeInv, NEW d \in Desks, Alone(d)
    PROVE  /\ task' \in [Desks -> Tasks \cup {Idle}]
           /\ \A e \in Desks : task'[e] # Idle => Placed(task'[e])
  BY DEF Alone, RolesTypeInv, Tasked

LEMMA RoleStepTypes ==
    ASSUME RolesTypeInv, NEW d \in Desks,
           \/ CreateRole(d) \/ FindRole(d) \/ ListPermissionsByIDs(d) \/ LookupFails(d)
           \/ AddPermissions(d) \/ TrimPermissions(d)
           \/ CountUsersByRoleID(d) \/ ClearPermissions(d) \/ ClearFails(d) \/ DeleteRole(d),
           task[d] \in Tasks, task[d].does \in OnRoles
    PROVE  /\ roleRow' \in [CustomRoles -> {"absent", "live", "deleted"}]
           /\ grants' \in [CustomRoles -> SUBSET Rights]
           /\ decided' \in [CustomRoles -> SUBSET Rights]
           /\ muddled' \subseteq CustomRoles
           /\ tasks' \in 0 .. MaxTasks /\ setbacks' \in 0 .. MaxSetbacks
           /\ UNCHANGED <<person, blind, hasty, trespassed>>
  <1> DEFINE r == task[d].of
  <1>1. r \in CustomRoles /\ task[d].wanted \subseteq Rights /\ task[d].found \subseteq Rights
    BY TaskKinds
  <1>2. /\ roleRow \in [CustomRoles -> {"absent", "live", "deleted"}]
        /\ grants \in [CustomRoles -> SUBSET Rights]
        /\ decided \in [CustomRoles -> SUBSET Rights]
        /\ muddled \subseteq CustomRoles
        /\ tasks \in 0 .. MaxTasks /\ setbacks \in 0 .. MaxSetbacks
    BY DEF RolesTypeInv, RolesTypeOK
  <1>3. UNCHANGED <<person, blind, hasty, trespassed>> /\ tasks' = tasks
    BY DEF CreateRole, FindRole, ListPermissionsByIDs, LookupFails, AddPermissions,
           TrimPermissions, CountUsersByRoleID, ClearPermissions, ClearFails, DeleteRole
  <1>4. setbacks' \in 0 .. MaxSetbacks
    <2>1. setbacks' = setbacks \/ (setbacks < MaxSetbacks /\ setbacks' = setbacks + 1)
      BY DEF CreateRole, FindRole, ListPermissionsByIDs, LookupFails, AddPermissions,
             TrimPermissions, CountUsersByRoleID, ClearPermissions, ClearFails, DeleteRole
    <2> QED
      BY <1>2, <2>1, RolesAssumption
  <1>5. roleRow' = roleRow \/ (\E state \in {"live", "deleted"} : roleRow' = [roleRow EXCEPT ![r] = state])
    BY DEF CreateRole, FindRole, ListPermissionsByIDs, LookupFails, AddPermissions,
           TrimPermissions, CountUsersByRoleID, ClearPermissions, ClearFails, DeleteRole
  <1>6. grants' = grants \/ (\E new \in SUBSET Rights : grants' = [grants EXCEPT ![r] = new])
    <2>1. CASE AddPermissions(d)
      BY <1>1, <1>2, <2>1 DEF AddPermissions
    <2>2. CASE TrimPermissions(d)
      BY <1>1, <1>2, <2>2 DEF TrimPermissions, ReplacePermissions
    <2>3. CASE ClearPermissions(d)
      BY <2>3 DEF ClearPermissions
    <2>4. CASE ~ AddPermissions(d) /\ ~ TrimPermissions(d) /\ ~ ClearPermissions(d)
      BY <2>4 DEF CreateRole, FindRole, ListPermissionsByIDs, LookupFails,
                  CountUsersByRoleID, ClearFails, DeleteRole
    <2> QED
      BY <2>1, <2>2, <2>3, <2>4
  <1>7. decided' = decided \/ (\E new \in SUBSET Rights : decided' = [decided EXCEPT ![r] = new])
    BY <1>1 DEF CreateRole, FindRole, ListPermissionsByIDs, LookupFails, AddPermissions,
           TrimPermissions, CountUsersByRoleID, ClearPermissions, ClearFails, DeleteRole
  <1>8. muddled' \subseteq muddled \cup {r}
    BY DEF CreateRole, FindRole, ListPermissionsByIDs, LookupFails, AddPermissions,
           TrimPermissions, CountUsersByRoleID, ClearPermissions, ClearFails, DeleteRole
  <1> QED
    BY <1>1, <1>2, <1>3, <1>4, <1>5, <1>6, <1>7, <1>8

LEMMA FindsPermissions ==
    ASSUME RolesTypeInv, NEW d \in Desks, ListPermissionsByIDs(d)
    PROVE  /\ Alone(d) /\ Tasked(d) /\ task[d] \in Tasks /\ Placed(task[d])
           /\ task[d].does \in OnRoles /\ task[d].step = "lookup"
           /\ task'[d] \in Tasks /\ task'[d] # Idle /\ task'[d].step = "add"
           /\ task'[d].does = task[d].does /\ task'[d].of = task[d].of
  <1> DEFINE t == task[d]
             u == [t EXCEPT !.step = "add", !.found = t.wanted]
  <1>1. Tasked(d) /\ t.does \in OnRoles /\ t.step = "lookup"
    BY DEF ListPermissionsByIDs, AtStep, Tasked
  <1>2. t \in Tasks /\ Placed(t) /\ task \in [Desks -> Tasks \cup {Idle}]
    BY <1>1, Working
  <1>3. "add" \in TaskStages(t.does)
    BY <1>1, <1>2 DEF TaskStages, Placed, OnRoles
  <1>4. u \in Tasks /\ u.step = "add" /\ u.does = t.does /\ u.of = t.of
    BY <1>1, <1>2, TaskKinds DEF Tasks, OnRoles, OnUsers
  <1>5. task' = [task EXCEPT ![d] = u]
    BY DEF ListPermissionsByIDs
  <1> HIDE DEF u
  <1>6. u # Idle /\ Placed(u)
    BY <1>1, <1>3, <1>4, TaskKinds DEF Placed, OnRoles
  <1> QED
    BY <1>1, <1>2, <1>4, <1>5, <1>6 DEF Alone


LEMMA GivenTypes ==
    ASSUME RolesTypeInv, NEW d \in Desks, CreateUser(d) \/ ChangeUser(d)
    PROVE  blind' \subseteq Staff /\ hasty' \subseteq Staff /\ trespassed' \subseteq Staff
  <1>1. task[d].of \in Staff
    BY WritesUser
  <1>2. /\ blind' \subseteq blind \cup {task[d].of}
        /\ hasty' \subseteq hasty \cup {task[d].of}
    BY WritesUser DEF Given
  <1>3. trespassed' \subseteq trespassed \cup {task[d].of}
    BY DEF CreateUser, ChangeUser
  <1> QED
    BY <1>1, <1>2, <1>3 DEF RolesTypeInv, RolesTypeOK

LEMMA StepRolesTypes ==
    ASSUME RolesTypeInv, [RolesNext]_rolesVars
    PROVE  RolesTypeInv'
  <1>1. CASE UNCHANGED rolesVars
    BY <1>1 DEF RolesTypeInv, RolesTypeOK, Tasked, rolesVars
  <1> SUFFICES ASSUME NEW d \in Desks,
                      \/ BeginTask(d) \/ FindTarget(d) \/ CreateUser(d) \/ ChangeUser(d)
                      \/ CreateRole(d) \/ FindRole(d) \/ ListPermissionsByIDs(d) \/ LookupFails(d)
                      \/ AddPermissions(d) \/ TrimPermissions(d)
                      \/ CountUsersByRoleID(d) \/ ClearPermissions(d) \/ ClearFails(d)
                      \/ DeleteRole(d) \/ TaskFails(d)
               PROVE  RolesTypeInv'
    BY <1>1 DEF RolesNext
  <1>2. CASE BeginTask(d)
    <2>1. Alone(d) /\ tasks' \in 0 .. MaxTasks
      BY <1>2, TaskBegins
    <2>2. /\ task' \in [Desks -> Tasks \cup {Idle}]
          /\ \A e \in Desks : task'[e] # Idle => Placed(task'[e])
      BY <2>1, PlacedTasks
    <2>3. UNCHANGED <<person, roleRow, grants, setbacks, decided, muddled, blind, hasty, trespassed>>
      BY <1>2 DEF BeginTask
    <2> QED
      BY <2>1, <2>2, <2>3 DEF RolesTypeInv, RolesTypeOK, Tasked, Placed
  <1>3. CASE FindTarget(d)
    <2>1. Alone(d)
      BY <1>3, FindsTarget
    <2>2. /\ task' \in [Desks -> Tasks \cup {Idle}]
          /\ \A e \in Desks : task'[e] # Idle => Placed(task'[e])
      BY <2>1, PlacedTasks
    <2>3. UNCHANGED <<person, roleRow, grants, tasks, setbacks, decided, muddled, blind, hasty,
                      trespassed>>
      BY <1>3 DEF FindTarget
    <2> QED
      BY <2>2, <2>3 DEF RolesTypeInv, RolesTypeOK, Tasked, Placed
  <1>4. CASE CreateUser(d) \/ ChangeUser(d)
    <2>1. /\ Alone(d)
          /\ person' \in [Staff -> [state : {"absent", "live", "deleted"}, role : RoleIds]]
          /\ UNCHANGED <<roleRow, grants, tasks, setbacks, decided, muddled>>
      BY <1>4, WritesUser
    <2>2. /\ task' \in [Desks -> Tasks \cup {Idle}]
          /\ \A e \in Desks : task'[e] # Idle => Placed(task'[e])
      BY <2>1, PlacedTasks
    <2>3. blind' \subseteq Staff /\ hasty' \subseteq Staff /\ trespassed' \subseteq Staff
      BY <1>4, GivenTypes
    <2> QED
      BY <2>1, <2>2, <2>3 DEF RolesTypeInv, RolesTypeOK, Tasked, Placed
  <1>5. CASE \/ CreateRole(d) \/ FindRole(d) \/ ListPermissionsByIDs(d) \/ LookupFails(d)
             \/ AddPermissions(d) \/ TrimPermissions(d)
             \/ CountUsersByRoleID(d) \/ ClearPermissions(d) \/ ClearFails(d) \/ DeleteRole(d)
    <2>1. task[d] \in Tasks /\ task[d].does \in OnRoles
      BY <1>5, RoleStepsAlone, FindsPermissions, MarksRivals
    <2>2. /\ task' \in [Desks -> Tasks \cup {Idle}]
          /\ \A e \in Desks : task'[e] # Idle => Placed(task'[e])
      <3>1. CASE \/ CreateRole(d) \/ FindRole(d) \/ ListPermissionsByIDs(d) \/ LookupFails(d)
                 \/ TrimPermissions(d) \/ CountUsersByRoleID(d) \/ ClearFails(d) \/ DeleteRole(d)
        BY <3>1, RoleStepsAlone, FindsPermissions, PlacedTasks
      <3>2. CASE AddPermissions(d) \/ ClearPermissions(d)
        <4>1. /\ task' \in [Desks -> Tasks \cup {Idle}] /\ Placed(task'[d])
              /\ \A e \in Desks \ {d} : task'[e] = task[e] \/ Placed(task'[e])
          BY <3>2, MarksRivals
        <4> QED
          BY <4>1 DEF RolesTypeInv, Tasked
      <3> QED
        BY <1>5, <3>1, <3>2
    <2>3. /\ roleRow' \in [CustomRoles -> {"absent", "live", "deleted"}]
          /\ grants' \in [CustomRoles -> SUBSET Rights]
          /\ decided' \in [CustomRoles -> SUBSET Rights]
          /\ muddled' \subseteq CustomRoles
          /\ tasks' \in 0 .. MaxTasks /\ setbacks' \in 0 .. MaxSetbacks
          /\ UNCHANGED <<person, blind, hasty, trespassed>>
      BY <1>5, <2>1, RoleStepTypes
    <2> QED
      BY <2>2, <2>3 DEF RolesTypeInv, RolesTypeOK, Tasked, Placed
  <1>6. CASE TaskFails(d)
    <2>1. Alone(d) /\ muddled' \subseteq CustomRoles /\ setbacks' \in 0 .. MaxSetbacks
      BY <1>6, FailsAlone
    <2>2. /\ task' \in [Desks -> Tasks \cup {Idle}]
          /\ \A e \in Desks : task'[e] # Idle => Placed(task'[e])
      BY <2>1, PlacedTasks
    <2>3. UNCHANGED <<person, roleRow, grants, tasks, decided, blind, hasty, trespassed>>
      BY <1>6 DEF TaskFails
    <2> QED
      BY <2>1, <2>2, <2>3 DEF RolesTypeInv, RolesTypeOK, Tasked, Placed
  <1> QED
    BY <1>2, <1>3, <1>4, <1>5, <1>6

LEMMA InitRoles ==
    ASSUME RolesInit
    PROVE  RolesTypeInv /\ AdminInv /\ GoingInv /\ TrimInv /\ RolesHold
  <1>1. \A d \in Desks : task[d] = Idle
    BY DEF RolesInit
  <1>2. task \in [Desks -> Tasks \cup {Idle}]
    BY DEF RolesInit
  <1>3. /\ person \in [Staff -> [state : {"absent", "live", "deleted"}, role : RoleIds]]
        /\ roleRow \in [CustomRoles -> {"absent", "live", "deleted"}]
        /\ grants \in [CustomRoles -> SUBSET Rights]
        /\ decided = grants
        /\ \A r \in CustomRoles : roleRow[r] = "absent" => grants[r] = {}
        /\ \A p \in Staff : Alive(p) /\ person[p].role \in CustomRoles =>
              roleRow[person[p].role] = "live"
    <2>1. PICK roleState \in {"absent", "live"}, colleague \in RoleIds \cup {"none"} :
             /\ person = [p \in Staff |->
                   IF p = Seeded THEN [state |-> "live", role |-> "admin"]
                   ELSE IF colleague = "none" THEN [state |-> "absent", role |-> "subscriber"]
                   ELSE [state |-> "live", role |-> colleague]]
             /\ roleRow = [r \in CustomRoles |-> roleState]
             /\ grants = [r \in CustomRoles |-> IF roleState = "live" THEN {"users"} ELSE {}]
             /\ colleague \in CustomRoles => roleState = "live"
      BY DEF RolesInit
    <2>2. "admin" \in RoleIds /\ "subscriber" \in RoleIds
      BY DEF RoleIds
    <2>3. person \in [Staff -> [state : {"absent", "live", "deleted"}, role : RoleIds]]
      BY <2>1, <2>2
    <2>4. /\ roleRow \in [CustomRoles -> {"absent", "live", "deleted"}]
          /\ grants \in [CustomRoles -> SUBSET Rights]
          /\ \A r \in CustomRoles : roleRow[r] = "absent" => grants[r] = {}
      BY <2>1 DEF Rights
    <2>5. \A p \in Staff : Alive(p) /\ person[p].role \in CustomRoles =>
              roleRow[person[p].role] = "live"
      <3>1. "admin" \notin CustomRoles /\ "subscriber" \notin CustomRoles
        BY RolesAssumption
      <3>2. ASSUME NEW p \in Staff, person[p].role \in CustomRoles
            PROVE  person[p].role = colleague
        BY <2>1, <3>1, <3>2
      <3>3. \A r \in CustomRoles : roleRow[r] = roleState
        BY <2>1
      <3> QED
        BY <2>1, <3>2, <3>3
    <2> QED
      BY <2>3, <2>4, <2>5 DEF RolesInit
  <1>4. RolesTypeInv
    BY <1>1, <1>2, <1>3, RolesAssumption DEF RolesInit, RolesTypeInv, RolesTypeOK, Tasked
  <1>5. AdminInv /\ GoingInv /\ TrimInv
    BY <1>1, <1>3 DEF RolesInit, AdminInv, GoingInv, TrimInv, Tasked, AtStep, Trimming
  <1>6. RolesHold
    BY <1>3 DEF RolesInit, RolesHold, RightsAsDecided, NobodyIsStranded, AdminsAreKept
  <1> QED
    BY <1>4, <1>5, <1>6


(* Which requests may trespass: only those already past their check.          *)
LEMMA StepAdmin ==
    ASSUME RolesTypeInv, AdminInv, [RolesNext]_rolesVars
    PROVE  AdminInv'
  <1> DEFINE Past(e) == AtStep(e, OnUsers \ {"createUser"}, "write")
  <1>0. hasty \subseteq hasty'
    <2>1. ASSUME NEW d \in Desks, CreateUser(d) \/ ChangeUser(d)
          PROVE  hasty \subseteq hasty'
      BY <2>1, WritesUser DEF Given
    <2> QED
      BY <2>1 DEF RolesNext, rolesVars, BeginTask, FindTarget, CreateRole, FindRole,
         ListPermissionsByIDs, LookupFails, AddPermissions, TrimPermissions, CountUsersByRoleID,
         ClearPermissions, ClearFails, DeleteRole, TaskFails
  <1>1. CASE UNCHANGED rolesVars
    BY <1>1 DEF AdminInv, AtStep, Trespasses, IsAdmin, Alive, rolesVars
  <1> SUFFICES ASSUME NEW d \in Desks,
                      \/ BeginTask(d) \/ FindTarget(d) \/ CreateUser(d) \/ ChangeUser(d)
                      \/ CreateRole(d) \/ FindRole(d) \/ ListPermissionsByIDs(d) \/ LookupFails(d)
                      \/ AddPermissions(d) \/ TrimPermissions(d)
                      \/ CountUsersByRoleID(d) \/ ClearPermissions(d) \/ ClearFails(d)
                      \/ DeleteRole(d) \/ TaskFails(d)
               PROVE  AdminInv'
    BY <1>1 DEF RolesNext
  (* A step that changes nobody may bring only requests that passed the check. *)
  <1>2. ASSUME person' = person, trespassed' = trespassed,
               \A e \in Desks : Past(e)' /\ Trespasses(task[e])' =>
                  Past(e) /\ task[e].of = task'[e].of /\ Trespasses(task[e])
        PROVE  AdminInv'
    BY <1>0, <1>2 DEF AdminInv
  <1>3. CASE BeginTask(d)
    <2>1. person' = person /\ trespassed' = trespassed
      BY <1>3 DEF BeginTask
    <2>2. /\ \A e \in Desks \ {d} : task'[e] = task[e]
          /\ task'[d].does \in OnUsers \ {"createUser"} => task'[d].step = "find"
      BY <1>3, TaskBegins DEF Alone
    <2>3. ASSUME NEW e \in Desks, Past(e)', Trespasses(task[e])'
          PROVE  Past(e) /\ task[e].of = task'[e].of /\ Trespasses(task[e])
      <3>1. e # d
        BY <2>2, <2>3 DEF AtStep
      <3>2. task'[e] = task[e]
        BY <2>2, <3>1
      <3> QED
        BY <2>1, <2>3, <3>2 DEF AtStep, Trespasses, IsAdmin, Alive
    <2> QED
      BY <1>2, <2>1, <2>3
  <1>4. CASE FindTarget(d)
    <2>1. person' = person /\ trespassed' = trespassed
      BY <1>4 DEF FindTarget
    <2>2. /\ \A e \in Desks \ {d} : task'[e] = task[e]
          /\ task'[d] # Idle => Keeps(d) /\ Admits(task[d])
          /\ task[d].does \in OnUsers
      BY <1>4, FindsTarget DEF Alone
    <2>3. ASSUME NEW e \in Desks, Past(e)', Trespasses(task[e])'
          PROVE  Past(e) /\ task[e].of = task'[e].of /\ Trespasses(task[e])
      <3>1. CASE e = d
        <4>1. task'[d] # Idle
          BY <2>3, <3>1 DEF AtStep
        <4>2. ~ Trespasses(task[d])
          BY <2>2, <4>1 DEF Admits, Trespasses
        <4>3. /\ task'[d].of = task[d].of /\ task'[d].does = task[d].does
              /\ task'[d].byAdmin = task[d].byAdmin
          BY <2>2, <4>1 DEF Keeps
        <4> QED
          BY <2>1, <2>3, <3>1, <4>2, <4>3 DEF Trespasses, IsAdmin, Alive
      <3>2. CASE e # d
        <4>1. task'[e] = task[e]
          BY <2>2, <3>2
        <4> QED
          BY <2>1, <2>3, <4>1 DEF AtStep, Trespasses, IsAdmin, Alive
      <3> QED
        BY <3>1, <3>2
    <2> QED
      BY <1>2, <2>1, <2>3
  <1>5. CASE CreateUser(d) \/ ChangeUser(d)
    <2> DEFINE p == task[d].of
    <2>1. /\ task'[d] = Idle /\ \A e \in Desks \ {d} : task'[e] = task[e]
          /\ \A q \in Staff \ {p} : person'[q] = person[q]
      BY <1>5, WritesUser DEF Alone
    <2>2. trespassed' \subseteq hasty'
      <3>1. trespassed' = trespassed \/ (ChangeUser(d) /\ Trespasses(task[d])
                                         /\ trespassed' = trespassed \cup {p})
        BY <1>5 DEF CreateUser, ChangeUser
      <3>2. ChangeUser(d) /\ Trespasses(task[d]) => p \in hasty
        BY DEF ChangeUser, AdminInv
      <3> QED
        BY <1>0, <3>1, <3>2 DEF AdminInv
    <2>3. ASSUME NEW e \in Desks, Past(e)', Trespasses(task[e])'
          PROVE  task'[e].of \in hasty'
      <3>1. e # d
        BY <2>1, <2>3 DEF AtStep
      <3>2. task'[e] = task[e]
        BY <2>1, <3>1
      <3>3. Past(e)
        BY <2>3, <3>2 DEF AtStep
      <3>4. task[e].of \in Staff
        <4>1. task[e] \in Tasks /\ task[e].does \in OnUsers
          BY <3>3, Working DEF AtStep, Tasked
        <4> QED
          BY <4>1, TaskKinds
      <3>5. CASE Trespasses(task[e])
        BY <1>0, <3>2, <3>3, <3>5 DEF AdminInv
      <3>6. CASE ~ Trespasses(task[e])
        (* The change made an admin of whom request e is about to change.       *)
        <4>1. task[e].of = p /\ person'[p] # person[p]
          BY <2>1, <2>3, <3>2, <3>4, <3>6 DEF Trespasses, IsAdmin, Alive
        <4>2. person'[p].state = "live" /\ person'[p].role = "admin"
          BY <2>3, <3>2, <4>1 DEF Trespasses, IsAdmin, Alive
        <4>3. task[d].role = "admin" /\ Given(d, p, task[d].role)
          BY <1>5, <4>1, <4>2, WritesUser
        <4>4. e \in AboutToChange(d, p)
          BY <3>1, <3>3, <4>1 DEF AboutToChange
        <4> QED
          BY <3>2, <4>1, <4>3, <4>4 DEF Given
      <3> QED
        BY <3>5, <3>6
    <2> QED
      BY <2>2, <2>3 DEF AdminInv
  <1>6. CASE \/ CreateRole(d) \/ FindRole(d) \/ ListPermissionsByIDs(d) \/ LookupFails(d)
             \/ AddPermissions(d) \/ TrimPermissions(d)
             \/ CountUsersByRoleID(d) \/ ClearPermissions(d) \/ ClearFails(d) \/ DeleteRole(d)
             \/ TaskFails(d)
    <2>1. person' = person /\ trespassed' = trespassed
      BY <1>6 DEF CreateRole, FindRole, ListPermissionsByIDs, LookupFails, AddPermissions,
         TrimPermissions, CountUsersByRoleID, ClearPermissions, ClearFails, DeleteRole, TaskFails
    <2>2. ASSUME NEW e \in Desks, task'[e] # task[e], task'[e] # Idle
          PROVE  task'[e].does \in OnRoles
      <3>1. CASE AddPermissions(d) \/ ClearPermissions(d)
        <4>1. task'[d].does \in OnRoles
          BY <3>1, MarksRivals
        <4>2. CASE e # d
          <5>1. e \in Rivals(d) /\ task'[e].does = task[e].does
            BY <2>2, <3>1, <4>2, MarksRivals
          <5> QED
            BY <5>1 DEF Rivals, AtStep
        <4> QED
          BY <4>1, <4>2
      <3>2. CASE \/ CreateRole(d) \/ FindRole(d) \/ LookupFails(d) \/ TrimPermissions(d)
                 \/ CountUsersByRoleID(d) \/ ClearFails(d) \/ DeleteRole(d)
        <4>1. Alone(d) /\ task[d].does \in OnRoles /\ (task'[d] # Idle => Keeps(d))
          BY <3>2, RoleStepsAlone
        <4>2. e = d
          BY <2>2, <4>1 DEF Alone
        <4> QED
          BY <2>2, <4>1, <4>2 DEF Keeps
      <3>3. CASE ListPermissionsByIDs(d)
        <4>1. Alone(d) /\ task[d].does \in OnRoles /\ task'[d].does = task[d].does
          BY <3>3, FindsPermissions
        <4>2. e = d
          BY <2>2, <4>1 DEF Alone
        <4> QED
          BY <4>1, <4>2
      <3>4. CASE TaskFails(d)
        <4>1. Alone(d) /\ task'[d] = Idle
          BY <3>4, FailsAlone
        <4> QED
          BY <2>2, <4>1 DEF Alone
      <3> QED
        BY <1>6, <3>1, <3>2, <3>3, <3>4
    <2>3. ASSUME NEW e \in Desks, Past(e)', Trespasses(task[e])'
          PROVE  Past(e) /\ task[e].of = task'[e].of /\ Trespasses(task[e])
      <3>1. task'[e] # Idle /\ task'[e].does \notin OnRoles
        BY <2>3 DEF AtStep, OnUsers, OnRoles
      <3>2. task'[e] = task[e]
        BY <2>2, <3>1
      <3> QED
        BY <2>1, <2>3, <3>2 DEF AtStep, Trespasses, IsAdmin, Alive
    <2> QED
      BY <1>2, <2>1, <2>3
  <1> QED
    BY <1>3, <1>4, <1>5, <1>6


(* Who has a role that goes or is gone was given it blindly.                 *)
LEMMA StepGoing ==
    ASSUME RolesTypeInv, GoingInv, NobodyIsStranded, [RolesNext]_rolesVars
    PROVE  GoingInv' /\ NobodyIsStranded'
  <1> DEFINE Going(e) == Tasked(e) /\ task[e].step \in {"clear", "remove"}
  <1>1. CASE UNCHANGED rolesVars
    BY <1>1 DEF GoingInv, NobodyIsStranded, Tasked, Alive, rolesVars
  <1>2. ASSUME NEW e \in Desks, Going(e)
        PROVE  task[e].does = "deleteRole" /\ task[e].of \in CustomRoles
    <2>1. task[e] \in Tasks /\ Placed(task[e])
      BY <1>2, Working
    <2>2. task[e].does = "deleteRole"
      BY <1>2, <2>1, TaskKinds DEF Placed, TaskStages, OnUsers, OnRoles
    <2> QED
      BY <2>1, <2>2, TaskKinds DEF OnRoles
  <1> SUFFICES ASSUME NEW d \in Desks,
                      \/ BeginTask(d) \/ FindTarget(d) \/ CreateUser(d) \/ ChangeUser(d)
                      \/ CreateRole(d) \/ FindRole(d) \/ ListPermissionsByIDs(d) \/ LookupFails(d)
                      \/ AddPermissions(d) \/ TrimPermissions(d)
                      \/ CountUsersByRoleID(d) \/ ClearPermissions(d) \/ ClearFails(d)
                      \/ DeleteRole(d) \/ TaskFails(d)
               PROVE  GoingInv' /\ NobodyIsStranded'
    BY <1>1 DEF RolesNext
  <1>3. CASE CreateUser(d) \/ ChangeUser(d)
    <2>0. PICK p \in Staff : p = task[d].of
      BY <1>3, WritesUser
    <2>1. /\ task'[d] = Idle /\ \A e \in Desks \ {d} : task'[e] = task[e]
          /\ \A q \in Staff \ {p} : person'[q] = person[q]
          /\ roleRow' = roleRow
      BY <1>3, <2>0, WritesUser DEF Alone
    <2>2. \/ UNCHANGED <<person, blind>>
          \/ person'[p].state = "deleted" /\ UNCHANGED blind
          \/ person'[p].role = task[d].role /\ Given(d, p, task[d].role)
      BY <1>3, <2>0, WritesUser
    <2>3. \A q \in Staff \ {p} : q \in blind => q \in blind'
      BY <2>2 DEF Given
    (* The one who was changed was given his role blindly if it is going.        *)
    <2>4. ASSUME Alive(p)', ~ UNCHANGED <<person, blind>>
          PROVE  ~ Vouched(person'[p].role) => p \in blind'
      BY <2>2, <2>4 DEF Given, Alive
    <2>5. ASSUME NEW e \in Desks, Going(e)', NEW q \in Staff, Alive(q)',
                 person'[q].role = task'[e].of
          PROVE  q \in blind'
      <3>1. e # d
        BY <2>1, <2>5 DEF Tasked
      <3>2. task'[e] = task[e] /\ Going(e)
        BY <2>1, <2>5, <3>1 DEF Tasked
      <3>3. task[e].of \in CustomRoles
        BY <1>2, <3>2
      <3>4. ~ Vouched(task[e].of)
        BY <3>2, <3>3 DEF Vouched, Tasked
      <3>5. CASE q # p \/ UNCHANGED <<person, blind>>
        <4>1. person'[q] = person[q] /\ (q \in blind => q \in blind')
          BY <2>1, <2>3, <3>5
        <4>2. Alive(q) /\ person[q].role = task[e].of
          BY <2>5, <3>2, <4>1 DEF Alive
        <4>3. q \in blind
          BY <3>2, <4>2 DEF GoingInv
        <4> QED
          BY <4>1, <4>3
      <3>6. CASE q = p /\ ~ UNCHANGED <<person, blind>>
        BY <2>4, <2>5, <3>2, <3>4, <3>6
      <3> QED
        BY <3>5, <3>6
    <2>6. ASSUME NEW q \in Staff, Alive(q)', person'[q].role \in CustomRoles,
                 roleRow'[person'[q].role] # "live"
          PROVE  q \in blind'
      <3>1. CASE q # p \/ UNCHANGED <<person, blind>>
        <4>1. person'[q] = person[q] /\ (q \in blind => q \in blind')
          BY <2>1, <2>3, <3>1
        <4>2. Alive(q)
          BY <2>6, <4>1 DEF Alive
        <4> QED
          BY <2>1, <2>6, <4>1, <4>2 DEF NobodyIsStranded
      <3>2. CASE q = p /\ ~ UNCHANGED <<person, blind>>
        <4>1. ~ Vouched(person'[p].role)
          BY <2>1, <2>6, <3>2 DEF Vouched
        <4> QED
          BY <2>4, <2>6, <3>2, <4>1
      <3> QED
        BY <3>1, <3>2
    <2> QED
      BY <2>5, <2>6 DEF GoingInv, NobodyIsStranded
  (* The other steps leave everybody what he is.                               *)
  <1>4. CASE ~ (CreateUser(d) \/ ChangeUser(d))
    <2>1. person' = person /\ blind' = blind
      BY <1>4 DEF BeginTask, FindTarget, CreateRole, FindRole,
         ListPermissionsByIDs, LookupFails, AddPermissions, TrimPermissions, CountUsersByRoleID,
         ClearPermissions, ClearFails, DeleteRole, TaskFails
    <2>2. ASSUME NEW e \in Desks, Going(e)'
          PROVE  \/ Going(e) /\ task'[e].of = task[e].of
                 \/ task'[e].of = task[d].of /\ Unused(task[d].of)
      <3>1. CASE task'[e] = task[e]
        BY <2>2, <3>1 DEF Tasked
      <3>2. CASE task'[e] # task[e]
        <4>1. CASE BeginTask(d)
          <5>1. task'[d].step \in {"find", "write"} /\ \A f \in Desks \ {d} : task'[f] = task[f]
            BY <4>1, TaskBegins DEF Alone
          <5> QED
            BY <2>2, <3>2, <5>1
        <4>2. CASE FindTarget(d) \/ TaskFails(d) \/ CreateRole(d) \/ FindRole(d)
                   \/ LookupFails(d) \/ TrimPermissions(d) \/ DeleteRole(d)
          <5>1. Alone(d)
            BY <4>2, FindsTarget, FailsAlone, RoleStepsAlone
          <5>2. e = d
            BY <3>2, <5>1 DEF Alone
          <5>3. task[d] # Idle
            BY <4>2 DEF FindTarget, TaskFails, CreateRole, FindRole, LookupFails,
               TrimPermissions, DeleteRole, AtStep
          <5>4. \/ Respond(d)
                \/ \E step \in {"write", "lookup", "add", "count"} : Proceed(d, step)
            BY <4>2 DEF FindTarget, TaskFails, CreateRole, FindRole, LookupFails,
               TrimPermissions, DeleteRole
          <5>5. task'[d] = Idle \/ task'[d].step \in {"write", "lookup", "add", "count"}
            <6>1. task \in [Desks -> Tasks \cup {Idle}] /\ task[d] \in Tasks
              BY <5>3, Working DEF Tasked
            <6>2. CASE Respond(d)
              BY <6>2, RespondsAlone
            <6>3. ASSUME NEW step \in {"write", "lookup", "add", "count"}, Proceed(d, step)
                  PROVE  task'[d].step = step
              <7>1. task'[d] = [task[d] EXCEPT !.step = step]
                BY <6>1, <6>3 DEF Proceed
              <7> QED
                BY <6>1, <7>1 DEF Tasks
            <6> QED
              BY <5>4, <6>2, <6>3
          <5> QED
            BY <2>2, <5>2, <5>5 DEF Tasked
        <4>3. CASE CountUsersByRoleID(d)
          <5>1. Alone(d) /\ (task'[d] # Idle => Keeps(d))
            BY <4>3, RoleStepsAlone
          <5>2. e = d
            BY <3>2, <5>1 DEF Alone
          <5>3. task'[d] # Idle /\ task'[d].of = task[d].of
            BY <2>2, <5>1, <5>2 DEF Tasked, Keeps
          <5>4. ~ Respond(d)
            BY <5>3, RespondsAlone
          <5> QED
            BY <4>3, <5>2, <5>3, <5>4 DEF CountUsersByRoleID
        <4>4. CASE ListPermissionsByIDs(d)
          <5>1. Alone(d) /\ task'[d].step = "add"
            BY <4>4, FindsPermissions
          <5> QED
            BY <2>2, <3>2, <5>1 DEF Alone
        <4>5. CASE AddPermissions(d)
          <5>1. task'[d].step = "trim" /\ \A f \in Desks \ {d} : task'[f] = task[f] \/ task'[f].step = "trim"
            BY <4>5, MarksRivals
          <5> QED
            BY <2>2, <3>2, <5>1
        <4>6. CASE ClearPermissions(d)
          <5>1. /\ task'[d].of = task[d].of /\ Tasked(d)
                /\ \A f \in Desks \ {d} : task'[f] = task[f] \/ task'[f].step = "trim"
            BY <4>6, MarksRivals
          <5>2. task[d].step = "clear"
            BY <4>6 DEF ClearPermissions, AtStep
          <5>3. e = d
            BY <2>2, <3>2, <5>1
          <5> QED
            BY <5>1, <5>2, <5>3
        <4>7. CASE ClearFails(d)
          <5>1. Alone(d) /\ Tasked(d) /\ (task'[d] # Idle => Keeps(d))
            BY <4>7, RoleStepsAlone
          <5>2. e = d /\ task[d].step = "clear"
            BY <3>2, <4>7, <5>1 DEF Alone, ClearFails, AtStep
          <5> QED
            BY <2>2, <5>1, <5>2 DEF Tasked, Keeps
        <4> QED
          BY <1>4, <4>1, <4>2, <4>3, <4>4, <4>5, <4>6, <4>7
      <3> QED
        BY <3>1, <3>2
    <2>3. GoingInv'
      BY <2>1, <2>2 DEF GoingInv, Unused, Alive
    <2>4. ASSUME NEW r \in CustomRoles, roleRow'[r] # "live", roleRow[r] = "live"
          PROVE  Going(d) /\ task[d].of = r
      <3>1. DeleteRole(d) /\ task[d].of = r
        <4>1. roleRow \in [CustomRoles -> {"absent", "live", "deleted"}]
          BY DEF RolesTypeInv, RolesTypeOK
        <4>2. DeleteRole(d) \/ CreateRole(d)
          BY <1>4, <2>4 DEF BeginTask, FindTarget, FindRole,
             ListPermissionsByIDs, LookupFails, AddPermissions, TrimPermissions,
             CountUsersByRoleID, ClearPermissions, ClearFails, TaskFails
        <4>3. ~ CreateRole(d)
          BY <2>4, <4>1 DEF CreateRole
        <4> QED
          BY <2>4, <4>1, <4>2, <4>3 DEF DeleteRole
      <3> QED
        BY <3>1 DEF DeleteRole, AtStep, Tasked
    <2>5. NobodyIsStranded'
      <3> SUFFICES ASSUME NEW q \in Staff, Alive(q)', person'[q].role \in CustomRoles,
                          roleRow'[person'[q].role] # "live"
                   PROVE  q \in blind'
        BY DEF NobodyIsStranded
      <3>1. Alive(q) /\ person'[q] = person[q]
        BY <2>1 DEF Alive
      <3>2. CASE roleRow[person[q].role] # "live"
        BY <2>1, <3>1, <3>2 DEF NobodyIsStranded
      <3>3. CASE roleRow[person[q].role] = "live"
        BY <2>1, <2>4, <3>1, <3>3 DEF GoingInv
      <3> QED
        BY <3>2, <3>3
    <2> QED
      BY <2>3, <2>5
  <1> QED
    BY <1>3, <1>4


LEMMA ProceedsTo ==
    ASSUME RolesTypeInv, NEW d \in Desks, task[d] # Idle, NEW step, Proceed(d, step)
    PROVE  task'[d].step = step
  <1>1. task \in [Desks -> Tasks \cup {Idle}] /\ task[d] \in Tasks
    BY Working DEF Tasked
  <1>2. task'[d] = [task[d] EXCEPT !.step = step]
    BY <1>1 DEF Proceed
  <1> QED
    BY <1>1, <1>2 DEF Tasks

(* A request comes to the trimming by its insertion, and keeps what it trims to. *)
LEMMA Trims ==
    ASSUME RolesTypeInv, NEW d \in Desks,
           \/ BeginTask(d) \/ FindTarget(d) \/ CreateUser(d) \/ ChangeUser(d)
           \/ CreateRole(d) \/ FindRole(d) \/ ListPermissionsByIDs(d) \/ LookupFails(d)
           \/ AddPermissions(d) \/ TrimPermissions(d)
           \/ CountUsersByRoleID(d) \/ ClearPermissions(d) \/ ClearFails(d)
           \/ DeleteRole(d) \/ TaskFails(d),
           NEW e \in Desks, Trimming(e)'
    PROVE  \/ e = d /\ AddPermissions(d)
           \/ /\ Trimming(e) /\ e # d
              /\ task'[e].of = task[e].of /\ task'[e].found = task[e].found
              /\ (task[e].overlapped => task'[e].overlapped)
  <1>0. task'[e] # Idle /\ task'[e].does \in OnRoles /\ task'[e].step = "trim"
    BY DEF Trimming, AtStep
  <1>1. CASE e # d /\ task'[e] = task[e]
    BY <1>0, <1>1 DEF Trimming, AtStep
  <1>2. CASE AddPermissions(d) \/ ClearPermissions(d)
    <2>1. CASE e = d
      <3>1. ClearPermissions(d) => task'[d].step = "remove"
        BY MarksRivals
      <3> QED
        BY <1>0, <1>2, <2>1, <3>1
    <2>2. CASE e # d
      <3>1. \/ task'[e] = task[e]
            \/ /\ Trimming(e) /\ task'[e].of = task[e].of /\ task'[e].found = task[e].found
               /\ task'[e].overlapped
        BY <1>2, <2>2, MarksRivals
      <3> QED
        BY <1>1, <2>2, <3>1
    <2> QED
      BY <2>1, <2>2
  <1>3. CASE e = d /\ ~ AddPermissions(d) /\ ~ ClearPermissions(d)
    <2>1. CASE BeginTask(d)
      BY <1>0, <1>3, <2>1, TaskBegins
    <2>2. CASE FindTarget(d)
      <3>1. task'[d].does = task[d].does /\ task[d].does \in OnUsers
        BY <1>0, <1>3, <2>2, FindsTarget DEF Keeps
      <3> QED
        BY <1>0, <1>3, <3>1 DEF OnUsers, OnRoles
    <2>3. CASE CreateUser(d) \/ ChangeUser(d) \/ TaskFails(d)
      BY <1>0, <1>3, <2>3, WritesUser, FailsAlone
    <2>4. CASE ListPermissionsByIDs(d)
      BY <1>0, <1>3, <2>4, FindsPermissions
    <2>5. CASE \/ CreateRole(d) \/ FindRole(d) \/ LookupFails(d) \/ TrimPermissions(d)
               \/ CountUsersByRoleID(d) \/ ClearFails(d) \/ DeleteRole(d)
      <3>1. \/ Respond(d)
            \/ \E step \in {"lookup", "count", "add", "clear", "remove"} : Proceed(d, step)
        BY <2>5 DEF CreateRole, FindRole, LookupFails, TrimPermissions, CountUsersByRoleID,
           ClearFails, DeleteRole
      <3>2. task[d] # Idle
        BY <2>5, RoleStepsAlone DEF Tasked
      <3> QED
        BY <1>0, <1>3, <3>1, <3>2, ProceedsTo, RespondsAlone
    <2> QED
      BY <1>3, <2>1, <2>2, <2>3, <2>4, <2>5
  <1>4. CASE e # d /\ ~ AddPermissions(d) /\ ~ ClearPermissions(d)
    <2>1. Alone(d)
      BY <1>4, TaskBegins, FindsTarget, WritesUser, FindsPermissions, RoleStepsAlone, FailsAlone
    <2> QED
      BY <1>1, <1>4, <2>1 DEF Alone
  <1> QED
    BY <1>2, <1>3, <1>4

(* Beyond its first look at it, a request is about a role that was there.     *)
Late(t) == t.does \in OnRoles /\ t.step \notin {"find", "write"}

LEMMA Latens ==
    ASSUME RolesTypeInv, NEW d \in Desks,
           \/ BeginTask(d) \/ FindTarget(d) \/ CreateUser(d) \/ ChangeUser(d)
           \/ CreateRole(d) \/ FindRole(d) \/ ListPermissionsByIDs(d) \/ LookupFails(d)
           \/ AddPermissions(d) \/ TrimPermissions(d)
           \/ CountUsersByRoleID(d) \/ ClearPermissions(d) \/ ClearFails(d)
           \/ DeleteRole(d) \/ TaskFails(d),
           NEW e \in Desks, task'[e] # Idle, Late(task'[e])
    PROVE  \/ Tasked(e) /\ Late(task[e]) /\ task'[e].of = task[e].of
           \/ roleRow'[task'[e].of] # "absent"
  <1>1. CASE task'[e] = task[e]
    BY <1>1 DEF Tasked
  <1>2. CASE task'[e] # task[e]
    <2>1. CASE AddPermissions(d) \/ ClearPermissions(d)
      <3>1. task[d] # Idle /\ Late(task[d])
        BY <2>1, MarksRivals DEF AddPermissions, ClearPermissions, AtStep, Late
      <3>2. CASE e = d
        BY <2>1, <3>1, <3>2, MarksRivals DEF Tasked
      <3>3. CASE e # d
        <4>1. Trimming(e) /\ task'[e].of = task[e].of
          BY <1>2, <2>1, <3>3, MarksRivals
        <4> QED
          BY <4>1 DEF Trimming, AtStep, Tasked, Late
      <3> QED
        BY <3>2, <3>3
    <2>2. CASE BeginTask(d)
      <3>1. Alone(d) /\ task'[d].step \in {"find", "write"}
        BY <2>2, TaskBegins
      <3> QED
        BY <1>2, <3>1 DEF Alone, Late
    <2>3. CASE FindTarget(d)
      <3>1. Alone(d) /\ task[d].does \in OnUsers /\ (task'[d] # Idle => Keeps(d))
        BY <2>3, FindsTarget
      <3>2. e = d
        BY <1>2, <3>1 DEF Alone
      <3> QED
        BY <3>1, <3>2 DEF Keeps, Late, OnUsers, OnRoles
    <2>4. CASE CreateUser(d) \/ ChangeUser(d) \/ TaskFails(d)
      <3>1. Alone(d) /\ task'[d] = Idle
        BY <2>4, WritesUser, FailsAlone
      <3> QED
        BY <1>2, <3>1 DEF Alone
    <2>5. CASE ListPermissionsByIDs(d)
      <3>1. /\ Alone(d) /\ Tasked(d) /\ task[d].does \in OnRoles /\ task[d].step = "lookup"
            /\ task'[d].of = task[d].of
        BY <2>5, FindsPermissions
      <3>2. e = d
        BY <1>2, <3>1 DEF Alone
      <3> QED
        BY <3>1, <3>2 DEF Late
    <2>6. CASE \/ LookupFails(d) \/ TrimPermissions(d)
               \/ CountUsersByRoleID(d) \/ ClearFails(d) \/ DeleteRole(d)
      <3>1. Alone(d) /\ Tasked(d) /\ task[d].does \in OnRoles /\ (task'[d] # Idle => Keeps(d))
        BY <2>6, RoleStepsAlone
      <3>2. e = d
        BY <1>2, <3>1 DEF Alone
      <3>3. task[d].step \in {"lookup", "trim", "count", "clear", "remove"}
        BY <2>6 DEF LookupFails, TrimPermissions, CountUsersByRoleID, ClearFails, DeleteRole, AtStep
      <3> QED
        BY <3>1, <3>2, <3>3 DEF Late, Keeps
    <2>7. CASE CreateRole(d) \/ FindRole(d)
      <3>1. /\ Alone(d) /\ task[d].of \in CustomRoles /\ (task'[d] # Idle => Keeps(d))
            /\ (Respond(d) => task'[d] = Idle)
        BY <2>7, RoleStepsAlone, RespondsAlone
      <3>2. e = d
        BY <1>2, <3>1 DEF Alone
      <3>3. ~ Respond(d) /\ task'[d].of = task[d].of
        BY <3>1, <3>2 DEF Keeps
      <3>4. roleRow \in [CustomRoles -> {"absent", "live", "deleted"}]
        BY DEF RolesTypeInv, RolesTypeOK
      <3>5. roleRow'[task[d].of] = "live"
        BY <2>7, <3>1, <3>3, <3>4 DEF CreateRole, FindRole
      <3> QED
        BY <3>2, <3>3, <3>5
    <2> QED
      BY <2>1, <2>2, <2>3, <2>4, <2>5, <2>6, <2>7
  <1> QED
    BY <1>1, <1>2


(* What happens to the permissions of a role.                                *)
LEMMA Regrants ==
    ASSUME RolesTypeInv, NEW d \in Desks,
           \/ BeginTask(d) \/ FindTarget(d) \/ CreateUser(d) \/ ChangeUser(d)
           \/ CreateRole(d) \/ FindRole(d) \/ ListPermissionsByIDs(d) \/ LookupFails(d)
           \/ AddPermissions(d) \/ TrimPermissions(d)
           \/ CountUsersByRoleID(d) \/ ClearPermissions(d) \/ ClearFails(d)
           \/ DeleteRole(d) \/ TaskFails(d),
           NEW r \in CustomRoles
    PROVE  /\ roleRow[r] # "absent" => roleRow'[r] # "absent"
           /\ \/ grants'[r] = grants[r]
              \/ Tasked(d) /\ Late(task[d]) /\ task[d].of = r
           /\ AddPermissions(d) /\ task[d].of = r => grants'[r] = grants[r] \cup task[d].found
           /\ TrimPermissions(d) /\ task[d].of = r => grants'[r] = grants[r] \cap task[d].found
           /\ ClearPermissions(d) /\ task[d].of = r => grants'[r] = {} /\ r \in muddled'
  <1>1. /\ roleRow \in [CustomRoles -> {"absent", "live", "deleted"}]
        /\ grants \in [CustomRoles -> SUBSET Rights]
    BY DEF RolesTypeInv, RolesTypeOK
  <1>2. roleRow[r] # "absent" => roleRow'[r] # "absent"
    <2>1. \/ roleRow' = roleRow
          \/ roleRow' = [roleRow EXCEPT ![task[d].of] = "live"]
          \/ roleRow' = [roleRow EXCEPT ![task[d].of] = "deleted"]
      <3>1. CASE CreateRole(d)
        BY <3>1 DEF CreateRole
      <3>2. CASE DeleteRole(d)
        BY <3>2 DEF DeleteRole
      <3>3. CASE ~ CreateRole(d) /\ ~ DeleteRole(d)
        BY <3>3 DEF BeginTask, FindTarget, CreateUser, ChangeUser, FindRole,
           ListPermissionsByIDs, LookupFails, AddPermissions, TrimPermissions,
           CountUsersByRoleID, ClearPermissions, ClearFails, TaskFails
      <3> QED
        BY <3>1, <3>2, <3>3
    <2> QED
      BY <1>1, <2>1
  <1>3. /\ \/ grants'[r] = grants[r]
           \/ Tasked(d) /\ Late(task[d]) /\ task[d].of = r
        /\ AddPermissions(d) /\ task[d].of = r => grants'[r] = grants[r] \cup task[d].found
        /\ TrimPermissions(d) /\ task[d].of = r => grants'[r] = grants[r] \cap task[d].found
        /\ ClearPermissions(d) /\ task[d].of = r => grants'[r] = {} /\ r \in muddled'
    <2>1. CASE AddPermissions(d) \/ TrimPermissions(d) \/ ClearPermissions(d)
      <3>1. Tasked(d) /\ Late(task[d])
        BY <2>1 DEF AddPermissions, TrimPermissions, ClearPermissions, AtStep, Tasked, Late, OnRoles
      <3>2. \E new : grants' = [grants EXCEPT ![task[d].of] = new]
        BY <2>1 DEF AddPermissions, TrimPermissions, ClearPermissions
      <3>3. grants'[r] = grants[r] \/ task[d].of = r
        BY <1>1, <3>2
      <3>4. AddPermissions(d) /\ task[d].of = r => grants'[r] = grants[r] \cup task[d].found
        BY <1>1 DEF AddPermissions
      <3>5. TrimPermissions(d) /\ task[d].of = r => grants'[r] = grants[r] \cap task[d].found
        BY <1>1 DEF TrimPermissions, ReplacePermissions
      <3>6. ClearPermissions(d) /\ task[d].of = r => grants'[r] = {} /\ r \in muddled'
        BY <1>1 DEF ClearPermissions
      <3> QED
        BY <3>1, <3>3, <3>4, <3>5, <3>6
    <2>2. CASE ~ AddPermissions(d) /\ ~ TrimPermissions(d) /\ ~ ClearPermissions(d)
      BY <2>2 DEF BeginTask, FindTarget, CreateUser, ChangeUser, CreateRole, FindRole,
         ListPermissionsByIDs, LookupFails, CountUsersByRoleID, ClearFails, DeleteRole, TaskFails
    <2> QED
      BY <2>1, <2>2
  <1> QED
    BY <1>2, <1>3

LEMMA StepTrim ==
    ASSUME RolesTypeInv, TrimInv, [RolesNext]_rolesVars
    PROVE  TrimInv'
  <1>1. CASE UNCHANGED rolesVars
    BY <1>1 DEF TrimInv, Trimming, AtStep, Tasked, rolesVars
  <1> SUFFICES ASSUME NEW d \in Desks,
                      \/ BeginTask(d) \/ FindTarget(d) \/ CreateUser(d) \/ ChangeUser(d)
                      \/ CreateRole(d) \/ FindRole(d) \/ ListPermissionsByIDs(d) \/ LookupFails(d)
                      \/ AddPermissions(d) \/ TrimPermissions(d)
                      \/ CountUsersByRoleID(d) \/ ClearPermissions(d) \/ ClearFails(d)
                      \/ DeleteRole(d) \/ TaskFails(d)
               PROVE  TrimInv'
    BY <1>1 DEF RolesNext
  <1>2. ASSUME NEW e \in Desks, task[e] # Idle, Late(task[e])
        PROVE  task[e].of \in CustomRoles /\ roleRow[task[e].of] # "absent"
    <2>1. task[e] \in Tasks
      BY <1>2, Working DEF Tasked
    <2> QED
      BY <1>2, <2>1, TaskKinds DEF TrimInv, Tasked, Late
  <1>3. ASSUME NEW r \in CustomRoles, roleRow'[r] = "absent"
        PROVE  grants'[r] = {}
    <2>1. roleRow[r] = "absent"
      BY <1>3, Regrants
    <2>2. grants'[r] = grants[r]
      BY <1>2, <2>1, Regrants DEF Tasked
    <2> QED
      BY <2>1, <2>2 DEF TrimInv
  <1>4. ASSUME NEW e \in Desks, task'[e] # Idle, Late(task'[e])
        PROVE  roleRow'[task'[e].of] # "absent"
    <2>1. CASE Tasked(e) /\ Late(task[e]) /\ task'[e].of = task[e].of
      BY <1>2, <2>1, Regrants DEF Tasked
    <2> QED
      BY <1>4, <2>1, Latens
  <1>5. ASSUME NEW e \in Desks, Trimming(e)', ~ task'[e].overlapped
        PROVE  task'[e].found \subseteq grants'[task'[e].of]
    <2>1. CASE e = d /\ AddPermissions(d)
      <3>1. /\ task'[d].found = task[d].found /\ task'[d].of = task[d].of
            /\ task[d].of \in CustomRoles
        BY <2>1, MarksRivals
      <3>2. grants'[task[d].of] = grants[task[d].of] \cup task[d].found
        BY <2>1, <3>1, Regrants
      <3> QED
        BY <2>1, <3>1, <3>2
    <2>2. CASE Trimming(e) /\ e # d
      <3>1. /\ task'[e].of = task[e].of /\ task'[e].found = task[e].found
            /\ (task[e].overlapped => task'[e].overlapped)
        BY <1>5, <2>2, Trims
      <3>2. task[e] # Idle /\ Late(task[e])
        BY <2>2 DEF Trimming, AtStep, Late
      <3>3. task[e].of \in CustomRoles
        BY <1>2, <3>2
      <3>4. task[e].found \subseteq grants[task[e].of]
        BY <1>5, <2>2, <3>1 DEF TrimInv
      (* Nobody else has touched the permissions of the role but by inserting.     *)
      <3>5. grants[task[e].of] \subseteq grants'[task[e].of]
        <4>1. CASE task[d].of = task[e].of /\ TrimPermissions(d)
          <5>1. Trimming(d)
            BY <4>1 DEF TrimPermissions, Trimming
          <5>2. task[e].overlapped
            BY <2>2, <4>1, <5>1 DEF TrimInv
          <5> QED
            BY <1>5, <3>1, <5>2
        <4>2. CASE task[d].of = task[e].of /\ ClearPermissions(d)
          <5>1. e \in Rivals(d)
            BY <2>2, <4>2 DEF Rivals, Trimming
          <5>2. task'[e].overlapped
            BY <2>2, <4>2, <5>1, MarksRivals
          <5> QED
            BY <1>5, <5>2
        <4>3. CASE task[d].of = task[e].of /\ AddPermissions(d)
          BY <3>3, <4>3, Regrants
        <4>4. CASE ~ TrimPermissions(d) /\ ~ ClearPermissions(d) /\ ~ AddPermissions(d)
          BY <4>4 DEF BeginTask, FindTarget, CreateUser, ChangeUser, CreateRole, FindRole,
             ListPermissionsByIDs, LookupFails, CountUsersByRoleID, ClearFails, DeleteRole, TaskFails
        <4>5. CASE task[d].of # task[e].of
          BY <3>3, <4>5, Regrants
        <4> QED
          BY <4>1, <4>2, <4>3, <4>4, <4>5
      <3> QED
        BY <3>1, <3>4, <3>5
    <2> QED
      BY <1>5, <2>1, <2>2, Trims
  <1>6. ASSUME NEW e \in Desks, NEW f \in Desks, e # f, Trimming(e)', Trimming(f)',
               task'[e].of = task'[f].of
        PROVE  task'[e].overlapped
    <2>1. CASE e # d /\ f # d
      <3>1. /\ Trimming(e) /\ task'[e].of = task[e].of /\ (task[e].overlapped => task'[e].overlapped)
            /\ Trimming(f) /\ task'[f].of = task[f].of
        BY <1>6, <2>1, Trims
      <3> QED
        BY <1>6, <3>1 DEF TrimInv
    <2>2. CASE e = d
      <3>1. AddPermissions(d) /\ Trimming(f) /\ task'[f].of = task[f].of
        BY <1>6, <2>2, Trims
      <3>2. task'[d].overlapped = (Rivals(d) # {}) /\ task'[d].of = task[d].of
        BY <3>1, MarksRivals
      <3>3. f \in Rivals(d)
        BY <1>6, <2>2, <3>1, <3>2 DEF Rivals, Trimming
      <3> QED
        BY <2>2, <3>2, <3>3
    <2>3. CASE f = d
      <3>1. AddPermissions(d) /\ Trimming(e) /\ task'[e].of = task[e].of
        BY <1>6, <2>3, Trims
      <3>2. task'[d].of = task[d].of
        BY <3>1, MarksRivals
      <3>3. e \in Rivals(d)
        BY <1>6, <2>3, <3>1, <3>2 DEF Rivals, Trimming
      <3> QED
        BY <1>6, <2>3, <3>1, <3>3, MarksRivals
    <2> QED
      BY <2>1, <2>2, <2>3
  <1> QED
    BY <1>3, <1>4, <1>5, <1>6 DEF TrimInv, Tasked, Late

LEMMA StepRights ==
    ASSUME RolesTypeInv, TrimInv, RightsAsDecided, [RolesNext]_rolesVars
    PROVE  RightsAsDecided'
  <1>1. CASE UNCHANGED rolesVars
    BY <1>1 DEF RightsAsDecided, AtStep, rolesVars
  <1> SUFFICES ASSUME NEW d \in Desks,
                      \/ BeginTask(d) \/ FindTarget(d) \/ CreateUser(d) \/ ChangeUser(d)
                      \/ CreateRole(d) \/ FindRole(d) \/ ListPermissionsByIDs(d) \/ LookupFails(d)
                      \/ AddPermissions(d) \/ TrimPermissions(d)
                      \/ CountUsersByRoleID(d) \/ ClearPermissions(d) \/ ClearFails(d)
                      \/ DeleteRole(d) \/ TaskFails(d),
                      NEW r \in CustomRoles, roleRow'[r] = "live",
                      ~ \E e \in Desks : Trimming(e)' /\ task'[e].of = r
               PROVE  grants'[r] = decided'[r] \/ r \in muddled'
    BY <1>1 DEF RolesNext, RightsAsDecided, Trimming
  <1>2. /\ roleRow \in [CustomRoles -> {"absent", "live", "deleted"}]
        /\ grants \in [CustomRoles -> SUBSET Rights]
        /\ decided \in [CustomRoles -> SUBSET Rights]
    BY DEF RolesTypeInv, RolesTypeOK
  <1>3. CASE AddPermissions(d)
    <2>1. task[d].of # r
      <3>1. Trimming(d)' /\ task'[d].of = task[d].of
        <4>1. /\ task'[d] # Idle /\ task'[d].does = task[d].does /\ task[d].does \in OnRoles
              /\ task'[d].step = "trim" /\ task'[d].of = task[d].of
          BY <1>3, MarksRivals
        <4> QED
          BY <4>1 DEF Trimming, AtStep
      <3> QED
        BY <3>1
    <2>2. \A e \in Desks : Trimming(e) /\ task[e].of = r => Trimming(e)' /\ task'[e].of = r
      <3> SUFFICES ASSUME NEW e \in Desks, Trimming(e), task[e].of = r
                   PROVE  Trimming(e)' /\ task'[e].of = r
        OBVIOUS
      <3>1. e # d
        BY <2>1
      <3>2. task'[e] = task[e] \/ (Trimming(e)' /\ task'[e].of = task[e].of)
        BY <1>3, <3>1, MarksRivals
      <3> QED
        BY <3>2 DEF Trimming, AtStep
    <2>3. grants'[r] = grants[r]
      BY <2>1, Regrants
    <2>4. UNCHANGED <<roleRow, decided, muddled>>
      BY <1>3 DEF AddPermissions
    <2> QED
      BY <2>2, <2>3, <2>4 DEF RightsAsDecided, Trimming
  <1>4. CASE ClearPermissions(d)
    <2>1. CASE task[d].of = r
      BY <1>4, <2>1, Regrants
    <2>2. CASE task[d].of # r
      <3>1. \A e \in Desks : Trimming(e) /\ task[e].of = r => Trimming(e)' /\ task'[e].of = r
        <4> SUFFICES ASSUME NEW e \in Desks, Trimming(e), task[e].of = r
                     PROVE  Trimming(e)' /\ task'[e].of = r
          OBVIOUS
        <4>1. e # d
          BY <2>2
        <4>2. task'[e] = task[e] \/ (Trimming(e)' /\ task'[e].of = task[e].of)
          BY <1>4, <4>1, MarksRivals
        <4> QED
          BY <4>2 DEF Trimming, AtStep
      <3>2. grants'[r] = grants[r]
        BY <2>2, Regrants
      <3>3. UNCHANGED <<roleRow, decided>> /\ muddled \subseteq muddled'
        BY <1>4 DEF ClearPermissions
      <3> QED
        BY <3>1, <3>2, <3>3 DEF RightsAsDecided, Trimming
    <2> QED
      BY <2>1, <2>2
  <1>5. CASE TrimPermissions(d)
    <2> DEFINE t == task[d]
    <2>1. Alone(d) /\ t.of \in CustomRoles /\ t \in Tasks /\ t.does \in OnRoles /\ Trimming(d)
      BY <1>5, RoleStepsAlone DEF TrimPermissions, Trimming
    <2>2. CASE t.of = r
      <3>1. CASE t.overlapped \/ t.found # t.wanted
        BY <1>5, <2>2, <3>1 DEF TrimPermissions
      <3>2. CASE ~ t.overlapped /\ t.found = t.wanted
        <4>1. t.found \subseteq grants[r]
          BY <2>1, <2>2, <3>2 DEF TrimInv
        <4>2. grants'[r] = grants[r] \cap t.found
          BY <1>5, <2>2, Regrants
        <4>3. decided'[r] = t.wanted
          BY <1>2, <1>5, <2>2 DEF TrimPermissions
        <4> QED
          BY <3>2, <4>1, <4>2, <4>3
      <3> QED
        BY <3>1, <3>2
    <2>3. CASE t.of # r
      <3>1. \A e \in Desks : Trimming(e) /\ task[e].of = r => Trimming(e)' /\ task'[e].of = r
        <4> SUFFICES ASSUME NEW e \in Desks, Trimming(e), task[e].of = r
                     PROVE  Trimming(e)' /\ task'[e].of = r
          OBVIOUS
        <4>1. task'[e] = task[e]
          BY <2>1, <2>3 DEF Alone
        <4> QED
          BY <4>1 DEF Trimming, AtStep
      <3>2. grants'[r] = grants[r]
        BY <2>3, Regrants
      <3>3. decided'[r] = decided[r]
        BY <1>2, <1>5, <2>3 DEF TrimPermissions
      <3>4. roleRow' = roleRow /\ (r \in muddled => r \in muddled')
        BY <1>5, <2>3 DEF TrimPermissions
      <3> QED
        BY <3>1, <3>2, <3>3, <3>4 DEF RightsAsDecided, Trimming
    <2> QED
      BY <2>2, <2>3
  <1>6. CASE ~ AddPermissions(d) /\ ~ ClearPermissions(d) /\ ~ TrimPermissions(d)
    <2>1. Alone(d) /\ grants' = grants
      <3>1. Alone(d)
        BY <1>6, TaskBegins, FindsTarget, WritesUser, FindsPermissions, RoleStepsAlone, FailsAlone
      <3>2. grants' = grants
        BY <1>6 DEF BeginTask, FindTarget, CreateUser, ChangeUser, CreateRole, FindRole,
           ListPermissionsByIDs, LookupFails, CountUsersByRoleID, ClearFails, DeleteRole, TaskFails
      <3> QED
        BY <3>1, <3>2
    <2>2. muddled \subseteq muddled'
      BY <1>6 DEF BeginTask, FindTarget, CreateUser, ChangeUser, CreateRole, FindRole,
         ListPermissionsByIDs, LookupFails, CountUsersByRoleID, ClearFails, DeleteRole, TaskFails
    (* A request that was about to trim and is not any more has failed.          *)
    <2>3. Trimming(d) => TaskFails(d) \/ task'[d] = task[d]
      <3>1. ASSUME Trimming(d)
            PROVE  /\ task[d] # Idle /\ task[d].step = "trim" /\ task[d].does \notin OnUsers
        BY <3>1 DEF Trimming, AtStep, OnUsers, OnRoles
      <3> QED
        BY <1>6, <3>1 DEF BeginTask, FindTarget, CreateUser, ChangeUser, CreateRole, FindRole,
           ListPermissionsByIDs, LookupFails, CountUsersByRoleID, ClearFails, DeleteRole, AtStep
    <2>4. CASE TaskFails(d) /\ Trimming(d) /\ task[d].of = r
      BY <2>4 DEF TaskFails, Trimming, AtStep
    <2>5. CASE ~ (TaskFails(d) /\ Trimming(d) /\ task[d].of = r)
      <3>1. \A e \in Desks : Trimming(e) /\ task[e].of = r => Trimming(e)' /\ task'[e].of = r
        <4> SUFFICES ASSUME NEW e \in Desks, Trimming(e), task[e].of = r
                     PROVE  Trimming(e)' /\ task'[e].of = r
          OBVIOUS
        <4>1. task'[e] = task[e]
          BY <2>1, <2>3, <2>5 DEF Alone
        <4> QED
          BY <4>1 DEF Trimming, AtStep
      <3>2. CASE roleRow' = roleRow /\ decided' = decided
        BY <2>1, <2>2, <3>1, <3>2 DEF RightsAsDecided, Trimming
      <3>3. CASE CreateRole(d) /\ roleRow[task[d].of] = "absent"
        <4>1. task[d].of \in CustomRoles
          BY <3>3, RoleStepsAlone
        <4>2. CASE task[d].of = r
          <5>1. decided'[r] = {} /\ grants[r] = {}
            BY <1>2, <3>3, <4>2 DEF CreateRole, TrimInv
          <5> QED
            BY <2>1, <5>1
        <4>3. CASE task[d].of # r
          <5>1. roleRow'[r] = roleRow[r] /\ decided'[r] = decided[r]
            BY <1>2, <3>3, <4>3 DEF CreateRole
          <5> QED
            BY <2>1, <2>2, <3>1, <5>1 DEF RightsAsDecided, Trimming
        <4> QED
          BY <4>2, <4>3
      <3>4. CASE DeleteRole(d)
        <4>1. task[d].of # r /\ roleRow'[r] = roleRow[r] /\ decided' = decided
          BY <1>2, <3>4 DEF DeleteRole
        <4> QED
          BY <2>1, <2>2, <3>1, <4>1 DEF RightsAsDecided, Trimming
      <3>5. \/ roleRow' = roleRow /\ decided' = decided
            \/ CreateRole(d) /\ roleRow[task[d].of] = "absent"
            \/ DeleteRole(d)
        BY <1>6 DEF BeginTask, FindTarget, CreateUser, ChangeUser, CreateRole, FindRole,
           ListPermissionsByIDs, LookupFails, CountUsersByRoleID, ClearFails, TaskFails
      <3> QED
        BY <3>2, <3>3, <3>4, <3>5
    <2> QED
      BY <2>4, <2>5
  <1> QED
    BY <1>3, <1>4, <1>5, <1>6

(* People, roles, permissions and requests keep their types.                 *)
THEOREM RolesTypeCorrect == RolesSpec => []RolesTypeOK
  <1>1. RolesInit => RolesTypeInv
    BY InitRoles
  <1>2. RolesTypeInv /\ [RolesNext]_rolesVars => RolesTypeInv'
    BY StepRolesTypes
  <1>3. RolesTypeInv => RolesTypeOK
    BY DEF RolesTypeInv
  <1> QED
    BY <1>1, <1>2, <1>3, PTL DEF RolesSpec

(* Users and roles hold what they should: a role grants what was last        *)
(* answered for it unless a failure or an overlap touched it, nobody has a   *)
(* role that is gone unless it was given unchecked, and no admin is changed  *)
(* who was one when the request was checked.                                 *)
THEOREM RolesAreHeld == RolesSpec => []RolesHold
  <1>1. RolesInit => RolesTypeInv /\ AdminInv /\ GoingInv /\ TrimInv /\ RolesHold
    BY InitRoles
  <1>2. RolesTypeInv /\ AdminInv /\ GoingInv /\ TrimInv /\ RolesHold /\ [RolesNext]_rolesVars
        => (RolesTypeInv /\ AdminInv /\ GoingInv /\ TrimInv /\ RolesHold)'
    <2>1. AdminInv' => AdminsAreKept'
      BY DEF AdminInv, AdminsAreKept
    <2> QED
      BY <2>1, StepRolesTypes, StepAdmin, StepGoing, StepTrim, StepRights DEF RolesHold
  <1> QED
    BY <1>1, <1>2, PTL DEF RolesSpec

---------------------------------------------------------------------------------
(* The roster of a tenant.                                                   *)

(* What an operation on a subject may ask for, and where it may stand.       *)

RosterStages(does) ==
    CASE does = "add"              -> {"account", "membership", "write", "audit"}
      [] does = "setRole"          -> {"membership", "write", "audit"}
      [] does = "remove"           -> {"membership", "list", "count", "write", "audit"}
      [] does \in {"update", "rename"} -> {"load", "write", "audit"}

Asked(o) ==
    /\ o.step \in RosterStages(o.does)
    /\ (o.of = "tenant") = (o.does \in {"update", "rename"})
    /\ o.does \in {"add", "setRole"} => o.role \in Roles
    /\ o.does = "remove" => o.role = "removed"
    /\ o.does \in {"update", "rename"} => o.role \in {"active", "suspended"}

Manages(m) == order[m] # Free

RosterTypeInv ==
    /\ RosterTypeOK
    /\ order \in [Managers -> Order \cup {Free}]
    /\ \A m \in Managers : Manages(m) => Asked(order[m])

(* A removal that may leave the tenant without an admin has counted two.     *)
CountInv ==
    \A m \in Managers : Manages(m) /\ order[m].does = "remove" =>
        order[m].counted = 0 \/ order[m].counted > 1

---------------------------------------------------------------------------------
(* How an operation goes on: what it is about stays, and only it moves.      *)

RosterGoes(k) ==
    /\ Manages(k) /\ order' \in [Managers -> Order \cup {Free}]
    /\ \A n \in Managers \ {k} : order'[n] = order[n]
    /\ order'[k] # Free =>
          /\ order'[k].does = order[k].does /\ order'[k].of = order[k].of
          /\ order'[k].overlapped = order[k].overlapped
          /\ Asked(order'[k])

Acts(k) ==
    \/ FindAccount(k) \/ HasMembership(k) \/ ListMembers(k) \/ CountAdmins(k) \/ LoadTenant(k)
    \/ SaveTenant(k) \/ AddMember(k) \/ WriteMember(k) \/ LogReliable(k) \/ AuditFails(k)

LEMMA FreeIsNoOrder == Free \notin Order
  <1>1. \A o \in Order : o.step # "free"
    BY DEF Order
  <1> QED
    BY <1>1 DEF Free

LEMMA OrdersAreAsked ==
    ASSUME RosterTypeInv, NEW k \in Managers, Manages(k)
    PROVE  /\ order[k] \in Order /\ Asked(order[k]) /\ order[k].of \in Subjects
           /\ order[k].of # "tenant" => order[k].of \in Users
           /\ order[k].does \in {"add", "setRole", "remove", "update", "rename"}
  <1>1. order[k] \in Order /\ Asked(order[k])
    BY DEF RosterTypeInv, Manages
  <1> QED
    BY <1>1 DEF Order, Subjects

LEMMA Ends ==
    ASSUME RosterTypeInv, NEW k \in Managers, Manages(k), Done(k)
    PROVE  RosterGoes(k) /\ order'[k] = Free
  BY DEF RosterTypeInv, Done, RosterGoes

LEMMA RosterTurns ==
    ASSUME RosterTypeInv, NEW k \in Managers, Manages(k), NEW step \in RosterStages(order[k].does),
           GoTo(k, step)
    PROVE  /\ RosterGoes(k) /\ order'[k] # Free /\ order'[k].step = step
           /\ order'[k].role = order[k].role /\ order'[k].counted = order[k].counted
  <1> DEFINE o == order[k]
             p == [o EXCEPT !.step = step]
  <1>1. o \in Order /\ Asked(o) /\ o.does \in {"add", "setRole", "remove", "update", "rename"}
    BY OrdersAreAsked
  <1>2. step \in {"account", "membership", "list", "count", "load", "write", "audit"}
    BY <1>1 DEF RosterStages
  <1>3. /\ p \in Order /\ p.step = step /\ p.does = o.does /\ p.of = o.of /\ p.role = o.role
        /\ p.counted = o.counted /\ p.overlapped = o.overlapped
    BY <1>1, <1>2 DEF Order
  <1>4. order' = [order EXCEPT ![k] = p]
    BY DEF GoTo
  <1> HIDE DEF p
  <1>5. Asked(p)
    BY <1>1, <1>3 DEF Asked
  <1> QED
    BY <1>3, <1>4, <1>5, FreeIsNoOrder DEF RosterTypeInv, RosterGoes

LEMMA CountsFit == Cardinality(Admins) \in 0 .. Cardinality(Users) /\ Cardinality(Admins) \in Nat
  <1>1. Admins \subseteq Users
    BY DEF Admins
  <1>2. /\ IsFiniteSet(Admins) /\ Cardinality(Admins) \in Nat /\ Cardinality(Users) \in Nat
        /\ Cardinality(Admins) <= Cardinality(Users)
    BY <1>1, UsersAssumption, FS_Subset, FS_CardinalityType
  <1> QED
    BY <1>2

LEMMA Counts ==
    ASSUME RosterTypeInv, NEW k \in Managers, CountAdmins(k)
    PROVE  /\ RosterGoes(k) /\ order[k].step = "count"
           /\ order'[k] # Free =>
                 /\ order'[k].step = "write" /\ order'[k].role = order[k].role
                 /\ order'[k].counted = Cardinality(Admins) /\ Enough(Cardinality(Admins))
  <1> DEFINE o == order[k]
             n == Cardinality(Admins)
             p == [o EXCEPT !.step = "write", !.counted = n]
  <1>1. /\ Manages(k) /\ o \in Order /\ Asked(o) /\ o.step = "count" /\ o.does = "remove"
    <2>1. Manages(k) /\ o.step = "count"
      BY DEF CountAdmins, Step, Manages
    <2> QED
      BY <2>1, OrdersAreAsked DEF Asked, RosterStages
  <1>2. CASE ~ Enough(n)
    BY <1>1, <1>2, Ends DEF CountAdmins
  <1>3. CASE Enough(n)
    <2>1. order' = [order EXCEPT ![k] = p]
      BY <1>3 DEF CountAdmins
    <2>2. n \in 0 .. Cardinality(Users)
      BY CountsFit
    <2>3. /\ p \in Order /\ p.step = "write" /\ p.does = o.does /\ p.of = o.of /\ p.role = o.role
          /\ p.counted = n /\ p.overlapped = o.overlapped
      <3> HIDE DEF n
      <3> QED
        BY <1>1, <2>2 DEF Order
    <2> HIDE DEF p
    <2>4. Asked(p)
      BY <1>1, <2>3 DEF Asked, RosterStages
    <2> HIDE DEF n
    <2> QED
      BY <1>1, <1>3, <2>1, <2>3, <2>4 DEF RosterTypeInv, RosterGoes, n
  <1> QED
    BY <1>2, <1>3

LEMMA Loads ==
    ASSUME RosterTypeInv, NEW k \in Managers, LoadTenant(k)
    PROVE  /\ RosterGoes(k) /\ order'[k].step = "write" /\ order'[k].counted = order[k].counted
           /\ order[k].does = "rename" => order'[k].role = status
  <1> DEFINE o == order[k]
             v == IF o.does = "rename" THEN status ELSE o.role
             p == [o EXCEPT !.step = "write", !.role = v]
  <1>1. Manages(k) /\ o \in Order /\ Asked(o) /\ o.step = "load" /\ o.does \in {"update", "rename"}
    <2>1. Manages(k) /\ o.step = "load"
      BY DEF LoadTenant, Step, Manages
    <2> QED
      BY <2>1, OrdersAreAsked DEF Asked, RosterStages
  <1>2. order' = [order EXCEPT ![k] = p]
    BY DEF LoadTenant
  <1>3. v \in {"active", "suspended"} /\ (o.does = "rename" => v = status)
    BY <1>1 DEF RosterTypeInv, RosterTypeOK, Asked
  <1> HIDE DEF v
  <1>4. /\ p \in Order /\ p.step = "write" /\ p.does = o.does /\ p.of = o.of /\ p.role = v
        /\ p.counted = o.counted /\ p.overlapped = o.overlapped
    BY <1>1, <1>3 DEF Order, Values
  <1> HIDE DEF p
  <1>5. Asked(p)
    BY <1>1, <1>3, <1>4 DEF Asked, RosterStages
  <1> QED
    BY <1>1, <1>2, <1>3, <1>4, <1>5 DEF RosterTypeInv, RosterGoes

LEMMA Reads ==
    ASSUME RosterTypeInv, NEW k \in Managers, FindAccount(k) \/ HasMembership(k) \/ ListMembers(k)
    PROVE  /\ RosterGoes(k) /\ order[k].step # "audit"
           /\ order'[k] # Free =>
                 /\ order'[k].step \in {"membership", "list", "count", "write"}
                 /\ order'[k].role = order[k].role /\ order'[k].counted = order[k].counted
                 /\ HasMembership(k) /\ order[k].does \in {"setRole", "remove"} => Member(order[k].of)
                 /\ FindAccount(k) => order'[k].step = "membership"
  <1> DEFINE o == order[k]
  <1>1. Manages(k) /\ o.step \in {"account", "membership", "list"}
    BY DEF FindAccount, HasMembership, ListMembers, Step, Manages
  <1>2. /\ o.does \in {"add", "setRole", "remove", "update", "rename"}
        /\ o.step \in RosterStages(o.does)
    BY <1>1, OrdersAreAsked DEF Asked
  <1>3. CASE Done(k)
    BY <1>1, <1>3, Ends
  <1>4. CASE FindAccount(k) /\ GoTo(k, "membership")
    <2>1. "membership" \in RosterStages(o.does) /\ o.step = "account"
      BY <1>2, <1>4 DEF FindAccount, Step, RosterStages
    <2> QED
      BY <1>1, <1>4, <2>1, RosterTurns DEF HasMembership, Step
  <1>5. CASE /\ HasMembership(k) /\ Member(o.of) # (o.does = "add")
             /\ GoTo(k, IF o.does = "remove" THEN "list" ELSE "write")
    <2> DEFINE step == IF o.does = "remove" THEN "list" ELSE "write"
    <2>1. o.step = "membership" /\ step \in RosterStages(o.does) /\ step \in {"list", "write"}
      BY <1>2, <1>5 DEF HasMembership, Step, RosterStages
    <2>2. o.does \in {"setRole", "remove"} => Member(o.of)
      BY <1>5 DEF Member
    <2>3. GoTo(k, step)
      BY <1>5
    <2> HIDE DEF step
    <2> QED
      BY <1>1, <2>1, <2>2, <2>3, RosterTurns DEF FindAccount, Step
  <1>6. CASE ListMembers(k)
    <2> DEFINE step == IF roster[o.of] = "admin" THEN "count" ELSE "write"
    <2>1. o.step = "list" /\ step \in RosterStages(o.does) /\ step \in {"count", "write"}
      BY <1>2, <1>6 DEF ListMembers, Step, RosterStages
    <2>2. GoTo(k, step)
      BY <1>6 DEF ListMembers
    <2> HIDE DEF step
    <2> QED
      BY <1>1, <2>1, <2>2, RosterTurns DEF FindAccount, HasMembership, Step
  <1> QED
    BY <1>3, <1>4, <1>5, <1>6 DEF FindAccount, HasMembership

LEMMA Writes ==
    ASSUME RosterTypeInv, NEW k \in Managers, SaveTenant(k) \/ AddMember(k) \/ WriteMember(k)
    PROVE  /\ RosterGoes(k) /\ Manages(k) /\ order[k].step = "write"
           /\ order'[k] = Free => AddMember(k) /\ UNCHANGED roster
           /\ order'[k] # Free =>
                 /\ order'[k].step = "audit"
                 /\ order'[k].role = order[k].role /\ order'[k].counted = order[k].counted
  <1> DEFINE o == order[k]
  <1>1. Manages(k) /\ o.step = "write"
    BY DEF SaveTenant, AddMember, WriteMember, Step, Manages
  <1>2. "audit" \in RosterStages(o.does)
    BY <1>1, OrdersAreAsked DEF Asked, RosterStages
  <1>3. CASE GoTo(k, "audit")
    BY <1>1, <1>2, <1>3, RosterTurns
  <1>4. CASE AddMember(k) /\ Done(k) /\ UNCHANGED roster
    BY <1>1, <1>4, Ends
  <1> QED
    BY <1>3, <1>4 DEF SaveTenant, AddMember, WriteMember

LEMMA Closes ==
    ASSUME RosterTypeInv, NEW k \in Managers, LogReliable(k) \/ AuditFails(k)
    PROVE  RosterGoes(k) /\ order'[k] = Free
  BY Ends DEF LogReliable, AuditFails, Step, Manages

(* How an operation starts.                                                  *)
LEMMA Starts ==
    ASSUME RosterTypeInv, NEW k \in Managers, StartOrder(k)
    PROVE  /\ order[k] = Free /\ order' \in [Managers -> Order \cup {Free}]
           /\ order'[k] # Free /\ Asked(order'[k]) /\ order'[k].counted = 0
           /\ order'[k].step \in {"account", "load", "membership"}
           /\ order'[k].of \in Subjects
           /\ order'[k].overlapped = (Others(k, order'[k].of) # {})
           /\ \A n \in Managers \ {k} :
                 \/ order'[n] = order[n] /\ n \notin Others(k, order'[k].of)
                 \/ /\ Manages(n) /\ order'[n] # Free /\ order'[n].overlapped
                    /\ order'[n].step = order[n].step /\ order'[n].does = order[n].does
                    /\ order'[n].of = order[n].of /\ order'[n].role = order[n].role
                    /\ order'[n].counted = order[n].counted
  <1>1. PICK does \in {"add", "setRole", "remove", "update", "rename"}, s \in Subjects,
             v \in Roles \cup {"removed", "active", "suspended"} :
          /\ (s = "tenant") = (does \in {"update", "rename"})
          /\ does \in {"add", "setRole"} => v \in Roles
          /\ does = "remove" => v = "removed"
          /\ does \in {"update", "rename"} => v \in {"active", "suspended"}
          /\ order' = [n \in Managers |->
                IF n = k THEN [step |-> CASE does = "add" -> "account"
                                          [] s = "tenant" -> "load"
                                          [] OTHER        -> "membership",
                               does |-> does, of |-> s, role |-> v, counted |-> 0,
                               overlapped |-> Others(k, s) # {}]
                ELSE IF n \in Others(k, s) THEN [order[n] EXCEPT !.overlapped = TRUE]
                ELSE order[n]]
    BY DEF StartOrder
  <1> DEFINE step == CASE does = "add" -> "account" [] s = "tenant" -> "load" [] OTHER -> "membership"
             y == Others(k, s) # {}
             p == [step |-> step, does |-> does, of |-> s, role |-> v, counted |-> 0, overlapped |-> y]
  <1>2. step \in {"account", "load", "membership"} /\ step \in RosterStages(does)
    BY <1>1 DEF RosterStages
  <1>3. order'[k] = p
    BY <1>1
  <1>4. y \in BOOLEAN /\ 0 \in 0 .. Cardinality(Users)
    BY UsersAssumption, FS_CardinalityType
  <1>5. v \in Values
    BY DEF Values
  <1> HIDE DEF step, y
  <1>6. /\ p \in Order /\ p.step = step /\ p.does = does /\ p.of = s /\ p.role = v /\ p.counted = 0
        /\ p.overlapped = y
    BY <1>2, <1>4, <1>5 DEF Order
  <1> HIDE DEF p
  <1>7. Asked(p)
    BY <1>1, <1>2, <1>6 DEF Asked
  <1>8. ASSUME NEW n \in Managers, n # k
        PROVE  /\ order'[n] \in Order \cup {Free}
               /\ \/ order'[n] = order[n] /\ n \notin Others(k, s)
                  \/ /\ Manages(n) /\ order'[n] # Free /\ order'[n].overlapped
                     /\ order'[n].step = order[n].step /\ order'[n].does = order[n].does
                     /\ order'[n].of = order[n].of /\ order'[n].role = order[n].role
                     /\ order'[n].counted = order[n].counted
    <2>1. CASE n \in Others(k, s)
      <3> DEFINE q == [order[n] EXCEPT !.overlapped = TRUE]
      <3>1. Manages(n) /\ order[n] \in Order /\ order'[n] = q
        BY <1>1, <1>8, <2>1, OrdersAreAsked DEF Others, Manages
      <3>2. /\ q \in Order /\ q.overlapped
            /\ q.step = order[n].step /\ q.does = order[n].does
            /\ q.of = order[n].of /\ q.role = order[n].role /\ q.counted = order[n].counted
        BY <3>1 DEF Order
      <3> HIDE DEF q
      <3> QED
        BY <3>1, <3>2, FreeIsNoOrder
    <2>2. CASE n \notin Others(k, s)
      BY <1>1, <1>8, <2>2 DEF RosterTypeInv
    <2> QED
      BY <2>1, <2>2
  <1>9. order' \in [Managers -> Order \cup {Free}]
    <2>1. DOMAIN order' = Managers /\ \A n \in Managers : order'[n] \in Order \cup {Free}
      BY <1>1, <1>3, <1>6, <1>8
    <2>2. order' = [n \in Managers |-> order'[n]]
      BY <1>1
    <2> QED
      BY <2>1, <2>2
  <1>a. order[k] = Free
    BY DEF StartOrder
  <1> QED
    BY <1>2, <1>3, <1>6, <1>7, <1>8, <1>9, <1>a, FreeIsNoOrder DEF y

LEMMA StepKinds ==
    ASSUME [RosterNext]_rosterVars
    PROVE  \/ UNCHANGED rosterVars
           \/ \E k \in Managers : StartOrder(k) \/ Acts(k)
           \/ \E u \in Users : DeleteUser(u)
  BY DEF RosterNext, Acts

LEMMA ActsGo ==
    ASSUME RosterTypeInv, NEW k \in Managers, Acts(k)
    PROVE  /\ RosterGoes(k)
           /\ order'[k] # Free => order'[k].counted = order[k].counted \/ CountAdmins(k)
  <1> QED
    BY Reads, Counts, Loads, Writes, Closes DEF Acts

LEMMA InitRoster == RosterInit => RosterTypeInv
  <1> SUFFICES ASSUME RosterInit PROVE RosterTypeInv
    OBVIOUS
  <1>1. orders \in 0 .. MaxOrders /\ mishaps \in 0 .. MaxMishaps
    BY RosterBounds DEF RosterInit
  <1>2. trail \in [Subjects -> Values]
    BY DEF RosterInit, Subjects, Values
  <1>3. order \in [Managers -> Order \cup {Free}] /\ \A m \in Managers : order[m] = Free
    BY DEF RosterInit
  <1> QED
    BY <1>1, <1>2, <1>3 DEF RosterInit, RosterTypeInv, RosterTypeOK, Manages

LEMMA StepOrders ==
    ASSUME RosterTypeInv, [RosterNext]_rosterVars
    PROVE  /\ order' \in [Managers -> Order \cup {Free}]
           /\ \A m \in Managers : order'[m] # Free => Asked(order'[m])
  <1>1. CASE UNCHANGED order
    BY <1>1 DEF RosterTypeInv, Manages
  <1>2. ASSUME NEW k \in Managers, Acts(k)
        PROVE  /\ order' \in [Managers -> Order \cup {Free}]
               /\ \A m \in Managers : order'[m] # Free => Asked(order'[m])
    BY <1>2, ActsGo DEF RosterGoes, RosterTypeInv, Manages
  <1>3. ASSUME NEW k \in Managers, StartOrder(k)
        PROVE  /\ order' \in [Managers -> Order \cup {Free}]
               /\ \A m \in Managers : order'[m] # Free => Asked(order'[m])
    <2>1. ASSUME NEW m \in Managers, m # k, order'[m] # Free
          PROVE  Asked(order'[m])
      <3>1. \/ order'[m] = order[m]
            \/ /\ Manages(m)
               /\ order'[m].step = order[m].step /\ order'[m].does = order[m].does
               /\ order'[m].of = order[m].of /\ order'[m].role = order[m].role
        BY <1>3, <2>1, Starts
      <3> QED
        BY <2>1, <3>1 DEF RosterTypeInv, Manages, Asked
    <2> QED
      BY <1>3, <2>1, Starts
  <1> QED
    BY <1>1, <1>2, <1>3, StepKinds DEF rosterVars, DeleteUser

(* What a step writes is in the roster, the row of the tenant or the trail.  *)
LEMMA StepRoster ==
    ASSUME RosterTypeInv, [RosterNext]_rosterVars
    PROVE  /\ roster' \in [Users -> Roles \cup {"none", "removed"}]
           /\ status' \in {"active", "suspended"}
           /\ trail' \in [Subjects -> Values]
           /\ excused' \subseteq Subjects
           /\ uncounted' \in {"no", "demotion", "race"}
  <1>1. /\ roster \in [Users -> Roles \cup {"none", "removed"}] /\ status \in {"active", "suspended"}
        /\ trail \in [Subjects -> Values] /\ excused \subseteq Subjects
        /\ uncounted \in {"no", "demotion", "race"}
    BY DEF RosterTypeInv, RosterTypeOK
  <1>2. ASSUME NEW k \in Managers, Manages(k)
        PROVE  /\ order[k].of \in Subjects /\ order[k].role \in Values
               /\ order[k].of = "tenant" => order[k].role \in {"active", "suspended"}
               /\ order[k].does \in {"add", "setRole", "remove"} =>
                     order[k].of \in Users /\ order[k].role \in Roles \cup {"removed"}
    BY <1>2, OrdersAreAsked DEF Asked, Order, Subjects
  <1>3. ASSUME NEW k \in Managers, SaveTenant(k)
        PROVE  status' \in {"active", "suspended"} /\ UNCHANGED <<roster, trail, excused, uncounted>>
    BY <1>2, <1>3 DEF SaveTenant, Step, Manages
  <1>4. ASSUME NEW k \in Managers, AddMember(k) \/ WriteMember(k)
        PROVE  /\ roster' \in [Users -> Roles \cup {"none", "removed"}]
               /\ uncounted' \in {"no", "demotion", "race"} /\ UNCHANGED <<status, trail, excused>>
    <2>1. Manages(k) /\ order[k].does \in {"add", "setRole", "remove"}
      BY <1>4 DEF AddMember, WriteMember, Step, Manages
    <2>2. order[k].of \in Users /\ order[k].role \in Roles \cup {"removed"}
      BY <1>2, <2>1
    <2>3. roster' \in {roster, [roster EXCEPT ![order[k].of] = order[k].role]}
      BY <1>4 DEF AddMember, WriteMember
    <2> QED
      BY <1>1, <1>4, <2>2, <2>3 DEF AddMember, WriteMember
  <1>5. ASSUME NEW k \in Managers, LogReliable(k) \/ AuditFails(k)
        PROVE  /\ trail' \in [Subjects -> Values] /\ excused' \subseteq Subjects
               /\ UNCHANGED <<roster, status, uncounted>>
    <2>1. Manages(k)
      BY <1>5 DEF LogReliable, AuditFails, Step, Manages
    <2>2. order[k].of \in Subjects /\ order[k].role \in Values
      BY <1>2, <2>1
    <2> QED
      BY <1>1, <1>5, <2>2 DEF LogReliable, AuditFails
  <1>6. CASE \/ UNCHANGED rosterVars \/ (\E u \in Users : DeleteUser(u))
             \/ \E k \in Managers : StartOrder(k) \/ FindAccount(k) \/ HasMembership(k)
                                    \/ ListMembers(k) \/ CountAdmins(k) \/ LoadTenant(k)
    BY <1>1, <1>6 DEF rosterVars, DeleteUser, StartOrder, FindAccount, HasMembership, ListMembers,
                      CountAdmins, LoadTenant
  <1> QED
    BY <1>1, <1>3, <1>4, <1>5, <1>6 DEF RosterNext

LEMMA RosterSteps ==
    ASSUME RosterTypeInv, [RosterNext]_rosterVars
    PROVE  RosterTypeInv'
  <1>1. /\ orders' \in 0 .. MaxOrders /\ mishaps' \in 0 .. MaxMishaps
        /\ account' \in [Users -> {"none", "live", "deleted"}]
    <2>1. /\ orders \in 0 .. MaxOrders /\ mishaps \in 0 .. MaxMishaps
          /\ account \in [Users -> {"none", "live", "deleted"}]
          /\ MaxOrders \in Nat /\ MaxMishaps \in Nat
      BY RosterBounds DEF RosterTypeInv, RosterTypeOK
    <2>2. /\ orders' = orders \/ (orders < MaxOrders /\ orders' = orders + 1)
          /\ mishaps' = mishaps \/ (mishaps < MaxMishaps /\ mishaps' = mishaps + 1)
          /\ account' = account \/ \E u \in Users : account' = [account EXCEPT ![u] = "deleted"]
      BY DEF RosterNext, rosterVars, DeleteUser, StartOrder, FindAccount, HasMembership, ListMembers,
             CountAdmins, LoadTenant, SaveTenant, AddMember, WriteMember, LogReliable, AuditFails
    <2> QED
      BY <2>1, <2>2
  <1>2. \A m \in Managers : order'[m] = Free \/ order'[m] \in Order
    BY StepOrders
  <1> QED
    BY <1>1, <1>2, StepOrders, StepRoster DEF RosterTypeInv, RosterTypeOK, Manages

(* The rows, the operations and the trail are of their types in every        *)
(* reachable state.                                                          *)
THEOREM RosterTypeCorrect == RosterSpec => []RosterTypeOK
  <1>1. RosterTypeInv => RosterTypeOK
    BY DEF RosterTypeInv
  <1> QED
    BY <1>1, InitRoster, RosterSteps, PTL DEF RosterSpec

---------------------------------------------------------------------------------
LEMMA StepCounted ==
    ASSUME RosterTypeInv, CountInv, [RosterNext]_rosterVars
    PROVE  CountInv'
  <1> SUFFICES ASSUME NEW m \in Managers, order'[m] # Free, order'[m].does = "remove"
               PROVE  order'[m].counted = 0 \/ order'[m].counted > 1
    BY DEF CountInv, Manages
  <1>1. ASSUME Manages(m), order[m].does = "remove", order'[m].counted = order[m].counted
        PROVE  order'[m].counted = 0 \/ order'[m].counted > 1
    BY <1>1 DEF CountInv
  <1>2. CASE order'[m] = order[m]
    BY <1>1, <1>2 DEF Manages
  <1>3. ASSUME NEW k \in Managers, Acts(k)
        PROVE  order'[m].counted = 0 \/ order'[m].counted > 1
    <2>1. CASE m # k
      BY <1>2, <1>3, <2>1, ActsGo DEF RosterGoes
    <2>2. CASE m = k /\ CountAdmins(k)
      BY <2>2, Counts DEF Enough
    <2>3. CASE m = k /\ ~ CountAdmins(k)
      BY <1>1, <1>3, <2>3, ActsGo DEF RosterGoes
    <2> QED
      BY <2>1, <2>2, <2>3
  <1>4. ASSUME NEW k \in Managers, StartOrder(k)
        PROVE  order'[m].counted = 0 \/ order'[m].counted > 1
    <2>1. CASE m = k
      BY <1>4, <2>1, Starts
    <2>2. CASE m # k
      <3>1. \/ order'[m] = order[m]
            \/ /\ Manages(m) /\ order'[m].does = order[m].does
               /\ order'[m].counted = order[m].counted
        BY <1>4, <2>2, Starts
      <3> QED
        BY <1>1, <1>2, <3>1
    <2> QED
      BY <2>1, <2>2
  <1>5. CASE UNCHANGED rosterVars \/ \E u \in Users : DeleteUser(u)
    BY <1>2, <1>5 DEF rosterVars, DeleteUser
  <1> QED
    BY <1>3, <1>4, <1>5, StepKinds

(* The only step that takes an admin away is the write of a demotion or of a *)
(* removal.                                                                  *)
LEMMA LastAdmin ==
    ASSUME RosterTypeInv, CountInv, [RosterNext]_rosterVars, Admins # {}, Admins' = {}
    PROVE  uncounted' # "no"
  <1>1. roster \in [Users -> Roles \cup {"none", "removed"}]
    BY DEF RosterTypeInv, RosterTypeOK
  <1>2. PICK a \in Users : roster[a] = "admin"
    BY DEF Admins
  <1>3. \A u \in Users : roster'[u] # "admin"
    BY DEF Admins
  <1>4. PICK k \in Managers : WriteMember(k)
    <2>1. ASSUME NEW k \in Managers, AddMember(k)
          PROVE  FALSE
      BY <1>1, <1>2, <1>3, <2>1 DEF AddMember
    <2>2. roster' # roster
      BY <1>2, <1>3
    <2> QED
      BY <2>1, <2>2 DEF RosterNext, rosterVars, DeleteUser, StartOrder, FindAccount, HasMembership,
             ListMembers, CountAdmins, LoadTenant, SaveTenant, LogReliable, AuditFails
  <1> DEFINE o == order[k]
  <1>5. Manages(k) /\ o.does \in {"setRole", "remove"} /\ Asked(o) /\ o.of \in Users
    <2>1. Manages(k) /\ o.does \in {"setRole", "remove"}
      BY <1>4 DEF WriteMember, Step, Manages
    <2> QED
      BY <2>1, OrdersAreAsked DEF Asked, Subjects
  <1>6. roster' = IF Member(o.of) THEN [roster EXCEPT ![o.of] = o.role] ELSE roster
    BY <1>4 DEF WriteMember
  <1>7. \A u \in Users : roster[u] = "admin" => u = o.of /\ o.role # "admin"
    BY <1>1, <1>3, <1>5, <1>6
  <1>8. Admins = {o.of}
    BY <1>2, <1>5, <1>7 DEF Admins
  <1>9. Cardinality(Admins) = 1
    BY <1>8, FS_Singleton
  <1>a. o.does = "remove" => o.counted = 0 \/ o.counted > 1
    BY <1>5 DEF CountInv
  <1>b. o.counted # 1 => o.counted # Cardinality(Admins)
    BY <1>9
  <1>c. uncounted' = IF roster[o.of] # "admin" \/ o.role = "admin" THEN "no"
                     ELSE IF o.does = "setRole" THEN "demotion"
                     ELSE IF o.counted # Cardinality(Admins) THEN "race" ELSE "no"
    BY <1>4 DEF WriteMember
  <1>d. o.does = "remove" => o.counted # 1
    BY <1>a
  <1> QED
    BY <1>2, <1>5, <1>7, <1>9, <1>c, <1>d

(* However many managers are at work, a tenant with an admin loses its last  *)
(* one only to a demotion, or to a removal whose count others made wrong.    *)
THEOREM OrphansAreExplained == RosterSpec => OrphanedOnlyByDemotionOrRace
  <1>1. RosterInit => CountInv
    BY DEF RosterInit, CountInv, Manages
  <1>2. RosterTypeInv /\ CountInv /\ [RosterNext]_rosterVars => CountInv'
    BY StepCounted
  <1>3. RosterTypeInv /\ CountInv /\ [RosterNext]_rosterVars =>
            [Admins # {} /\ Admins' = {} => uncounted' # "no"]_rosterVars
    BY LastAdmin
  <1> QED
    BY <1>1, <1>2, <1>3, InitRoster, RosterSteps, PTL DEF RosterSpec, OrphanedOnlyByDemotionOrRace

---------------------------------------------------------------------------------
(* An operation that overlapped no other of its subject finds the subject as *)
(* it left it.                                                               *)

Undisturbed(o) ==
    /\ o.does \in {"setRole", "remove"} /\ o.step \in {"list", "count", "write"} => Member(o.of)
    /\ o.does = "rename" /\ o.step = "write" => o.role = status
    /\ o.step = "audit" /\ o.does # "rename" => ValueOf(o.of) = o.role

AloneInv ==
    \A m \in Managers : Manages(m) /\ ~ order[m].overlapped =>
        Others(m, order[m].of) = {} /\ Undisturbed(order[m])

(* An operation writes its own subject only.                                 *)
LEMMA ActsOn ==
    ASSUME RosterTypeInv, NEW k \in Managers, Acts(k), NEW s \in Subjects, s # order[k].of
    PROVE  /\ ValueOf(s)' = ValueOf(s) /\ trail'[s] = trail[s]
           /\ s \in excused' <=> s \in excused
  <1>1. /\ Manages(k) /\ order[k].of \in Subjects
        /\ order[k].does \in {"add", "setRole", "remove"} => order[k].of \in Users
    <2>1. Manages(k)
      BY ActsGo DEF RosterGoes
    <2> QED
      BY <2>1, OrdersAreAsked DEF Asked, Subjects
  <1>2. /\ roster \in [Users -> Roles \cup {"none", "removed"}] /\ trail \in [Subjects -> Values]
    BY DEF RosterTypeInv, RosterTypeOK
  <1>3. CASE SaveTenant(k)
    <2>1. s \in Users /\ UNCHANGED <<roster, trail, excused>>
      BY <1>3 DEF SaveTenant, Subjects
    <2> QED
      BY <2>1 DEF ValueOf
  <1>4. CASE AddMember(k) \/ WriteMember(k)
    <2>1. roster' \in {roster, [roster EXCEPT ![order[k].of] = order[k].role]}
          /\ UNCHANGED <<status, trail, excused>>
      BY <1>4 DEF AddMember, WriteMember
    <2> QED
      BY <1>2, <2>1 DEF ValueOf
  <1>5. CASE LogReliable(k) \/ AuditFails(k)
    <2>1. UNCHANGED <<roster, status>>
      BY <1>5 DEF LogReliable, AuditFails
    <2>2. trail' \in {trail, [trail EXCEPT ![order[k].of] = order[k].role]}
          /\ excused' \in {excused, excused \cup {order[k].of}, excused \ {order[k].of}}
      BY <1>5 DEF LogReliable, AuditFails
    <2> QED
      BY <1>2, <2>1, <2>2 DEF ValueOf
  <1>6. CASE FindAccount(k) \/ HasMembership(k) \/ ListMembers(k) \/ CountAdmins(k) \/ LoadTenant(k)
    BY <1>6 DEF FindAccount, HasMembership, ListMembers, CountAdmins, LoadTenant, ValueOf
  <1> QED
    BY <1>3, <1>4, <1>5, <1>6 DEF Acts

(* An operation alone with its subject stays undisturbed by itself.          *)
LEMMA StaysUndisturbed ==
    ASSUME RosterTypeInv, NEW k \in Managers, Acts(k), ~ order[k].overlapped, Undisturbed(order[k]),
           order'[k] # Free
    PROVE  Undisturbed(order[k])'
  <1> DEFINE o == order[k]
             p == order'[k]
  <1>1. /\ Manages(k) /\ p.does = o.does /\ p.of = o.of /\ o.of \in Subjects /\ Asked(o)
        /\ o.does \in {"add", "setRole", "remove"} => o.of \in Users
        /\ o.does \in {"add", "setRole", "remove", "update", "rename"} /\ o.step \in RosterStages(o.does)
    <2>1. Manages(k) /\ p.does = o.does /\ p.of = o.of
      BY ActsGo DEF RosterGoes
    <2> QED
      BY <2>1, OrdersAreAsked DEF Asked, Subjects
  <1>2. /\ roster \in [Users -> Roles \cup {"none", "removed"}]
    BY DEF RosterTypeInv, RosterTypeOK
  <1>3. CASE FindAccount(k) \/ HasMembership(k) \/ ListMembers(k)
    <2>1. UNCHANGED <<roster, status>> /\ p.step # "audit" /\ (p.does = "rename" => p.step # "write")
      <3>1. UNCHANGED <<roster, status>> /\ p.step # "audit"
        BY <1>3, Reads DEF FindAccount, HasMembership, ListMembers
      <3>2. o.does # "rename"
        BY <1>1, <1>3 DEF FindAccount, HasMembership, ListMembers, Step, Asked, RosterStages
      <3> QED
        BY <1>1, <3>1, <3>2
    <2>2. p.does \in {"setRole", "remove"} /\ p.step \in {"list", "count", "write"} => Member(o.of)
      <3>1. CASE ListMembers(k)
        BY <1>1, <3>1 DEF ListMembers, Step, Undisturbed
      <3>2. CASE ~ ListMembers(k)
        BY <1>1, <1>3, <3>2, Reads
      <3> QED
        BY <3>1, <3>2
    <2> QED
      BY <1>1, <2>1, <2>2 DEF Undisturbed, Member
  <1>4. CASE CountAdmins(k)
    <2>1. /\ o.step = "count" /\ p.step = "write" /\ UNCHANGED <<roster, status>> /\ o.does = "remove"
      <3>1. o.step = "count" /\ p.step = "write" /\ UNCHANGED <<roster, status>>
        BY <1>4, Counts DEF CountAdmins
      <3>2. o.does = "remove"
        BY <1>1, <3>1 DEF RosterStages
      <3> QED
        BY <3>1, <3>2
    <2> QED
      BY <1>1, <2>1 DEF Undisturbed, Member
  <1>5. CASE LoadTenant(k)
    <2>1. /\ p.step = "write" /\ UNCHANGED <<roster, status>> /\ o.does \in {"update", "rename"}
          /\ o.does = "rename" => p.role = status
      <3>1. o.step = "load" /\ p.step = "write" /\ UNCHANGED <<roster, status>>
            /\ (o.does = "rename" => p.role = status)
        BY <1>5, Loads DEF LoadTenant, Step
      <3>2. o.does \in {"update", "rename"}
        BY <1>1, <3>1 DEF RosterStages
      <3> QED
        BY <3>1, <3>2
    <2> QED
      BY <1>1, <2>1 DEF Undisturbed
  <1>6. CASE SaveTenant(k)
    <2>1. /\ p.step = "audit" /\ p.role = o.role /\ status' = o.role /\ o.of = "tenant"
      BY <1>1, <1>6, Writes DEF SaveTenant
    <2>2. ValueOf(o.of)' = status'
      BY <1>1, <2>1, UsersAssumption DEF ValueOf
    <2> QED
      BY <1>1, <2>1, <2>2 DEF Undisturbed, ValueOf
  <1>7. CASE AddMember(k) \/ WriteMember(k)
    <2>1. /\ p.step = "audit" /\ p.role = o.role /\ o.step = "write"
          /\ o.does \in {"add", "setRole", "remove"}
      BY <1>1, <1>7, Writes DEF AddMember, WriteMember
    <2>2. roster' = [roster EXCEPT ![o.of] = o.role]
      <3>1. CASE AddMember(k)
        <4>1. ~ Done(k)
          BY <1>1 DEF Done, RosterTypeInv
        <4> QED
          BY <3>1, <4>1 DEF AddMember
      <3>2. CASE WriteMember(k)
        <4>1. Member(o.of)
          BY <2>1, <3>2 DEF Undisturbed, WriteMember
        <4> QED
          BY <3>2, <4>1 DEF WriteMember
      <3> QED
        BY <1>7, <3>1, <3>2
    <2>3. roster'[p.of] = p.role
      BY <1>1, <1>2, <2>1, <2>2
    <2> QED
      BY <1>1, <2>1, <2>3 DEF Undisturbed, ValueOf
  <1>8. CASE LogReliable(k) \/ AuditFails(k)
    BY <1>8, Closes
  <1> QED
    BY <1>3, <1>4, <1>5, <1>6, <1>7, <1>8 DEF Acts

LEMMA StepAlone ==
    ASSUME RosterTypeInv, AloneInv, [RosterNext]_rosterVars
    PROVE  AloneInv'
  <1> SUFFICES ASSUME NEW m \in Managers, order'[m] # Free, ~ order'[m].overlapped
               PROVE  /\ \A n \in Managers \ {m} : order'[n] = Free \/ order'[n].of # order'[m].of
                      /\ Undisturbed(order[m])'
    BY DEF AloneInv, Manages, Others
  <1>1. ASSUME Manages(m), ~ order[m].overlapped
        PROVE  /\ \A n \in Managers \ {m} : order[n] = Free \/ order[n].of # order[m].of
               /\ Undisturbed(order[m])
    BY <1>1 DEF AloneInv, Others
  <1>2. ASSUME order'[m] = order[m], ValueOf(order[m].of)' = ValueOf(order[m].of), Manages(m),
               Undisturbed(order[m])
        PROVE  Undisturbed(order[m])'
    <2>1. /\ Asked(order[m]) /\ order[m].of \in Subjects
          /\ order[m].of # "tenant" => order[m].of \in Users
      BY <1>2, OrdersAreAsked
    <2>2. /\ order[m].does \in {"setRole", "remove"} => roster'[order[m].of] = roster[order[m].of]
          /\ order[m].does = "rename" => status' = status
      BY <1>2, <2>1, UsersAssumption DEF Asked, ValueOf
    <2> QED
      BY <1>2, <2>2 DEF Undisturbed, Member
  <1>3. CASE UNCHANGED <<order, roster, status>>
    BY <1>1, <1>2, <1>3 DEF ValueOf, Manages
  <1>4. ASSUME NEW k \in Managers, Acts(k)
        PROVE  /\ \A n \in Managers \ {m} : order'[n] = Free \/ order'[n].of # order'[m].of
               /\ Undisturbed(order[m])'
    <2>1. /\ RosterGoes(k) /\ \A n \in Managers \ {k} : order'[n] = order[n]
          /\ order'[k] # Free => order'[k].of = order[k].of
                                 /\ order'[k].overlapped = order[k].overlapped
          /\ order[k] # Free
      BY <1>4, ActsGo DEF RosterGoes, Manages
    <2>2. Manages(m) /\ ~ order[m].overlapped /\ order'[m].of = order[m].of
      BY <2>1 DEF Manages
    <2>3. ASSUME NEW n \in Managers \ {m}
          PROVE  order'[n] = Free \/ order'[n].of # order'[m].of
      <3>1. order[n] = Free \/ order[n].of # order[m].of
        BY <1>1, <2>2
      <3>2. order'[n] = Free \/ (order[n] # Free /\ order'[n].of = order[n].of)
        BY <2>1
      <3> QED
        BY <2>2, <3>1, <3>2
    <2>4. CASE m = k
      BY <1>1, <1>4, <2>2, <2>3, <2>4, StaysUndisturbed
    <2>5. CASE m # k
      <3>1. order[m].of \in Subjects /\ order[m].of # order[k].of
        BY <1>1, <2>1, <2>2, <2>5, OrdersAreAsked
      <3>2. ValueOf(order[m].of)' = ValueOf(order[m].of)
        <4>1. PICK s \in Subjects : s = order[m].of
          BY <3>1
        <4>2. ValueOf(s)' = ValueOf(s)
          BY <1>4, <3>1, <4>1, ActsOn
        <4> QED
          BY <2>1, <2>5, <4>1, <4>2 DEF ValueOf
      <3> QED
        BY <1>1, <1>2, <2>1, <2>2, <2>3, <2>5, <3>2
    <2> QED
      BY <2>3, <2>4, <2>5
  <1>5. ASSUME NEW k \in Managers, StartOrder(k)
        PROVE  /\ \A n \in Managers \ {m} : order'[n] = Free \/ order'[n].of # order'[m].of
               /\ Undisturbed(order[m])'
    <2>1. \A n \in Managers \ {k} : \/ order'[n] = order[n]
                                    \/ Manages(n) /\ order'[n].of = order[n].of
      BY <1>5, Starts
    <2>2. CASE m = k
      <3>1. Others(k, order'[k].of) = {}
        BY <1>5, <2>2, Starts
      <3>2. \A n \in Managers \ {k} : order'[n] = Free \/ order'[n].of # order'[k].of
        BY <2>1, <3>1 DEF Others, Manages
      <3>3. Undisturbed(order[k])'
        BY <1>5, Starts DEF Undisturbed
      <3> QED
        BY <2>2, <3>2, <3>3
    <2>3. CASE m # k
      <3>1. order'[m] = order[m] /\ m \notin Others(k, order'[k].of) /\ Manages(m)
        BY <1>5, <2>3, Starts DEF Manages
      <3>2. order'[k].of # order[m].of
        BY <2>3, <3>1 DEF Others, Manages
      <3>3. \A n \in Managers \ {m} : order'[n] = Free \/ order'[n].of # order'[m].of
        BY <1>1, <2>1, <3>1, <3>2 DEF Manages
      <3>4. UNCHANGED <<roster, status>>
        BY <1>5 DEF StartOrder
      <3> QED
        BY <1>1, <1>2, <3>1, <3>3, <3>4 DEF ValueOf
    <2> QED
      BY <2>2, <2>3
  <1> QED
    BY <1>3, <1>4, <1>5, StepKinds DEF rosterVars, DeleteUser

---------------------------------------------------------------------------------
(* Who has an event to write that will tell, or excuse, what the trail does  *)
(* not say.                                                                  *)
Owes(m, s) ==
    /\ Manages(m) /\ order[m].of = s /\ order[m].step = "audit"
    /\ order[m].overlapped \/ order[m].does # "rename"

TrailInv ==
    \A s \in Subjects \ excused : trail[s] = ValueOf(s) \/ \E m \in Managers : Owes(m, s)

LEMMA InitTrail == RosterInit => AloneInv /\ TrailInv
  BY DEF RosterInit, AloneInv, TrailInv, Manages, ValueOf, Subjects

LEMMA StepTrail ==
    ASSUME RosterTypeInv, AloneInv, TrailInv, [RosterNext]_rosterVars
    PROVE  TrailInv'
  <1> SUFFICES ASSUME NEW s \in Subjects, s \notin excused'
               PROVE  trail'[s] = ValueOf(s)' \/ \E m \in Managers : Owes(m, s)'
    BY DEF TrailInv
  <1>1. s \notin excused => trail[s] = ValueOf(s) \/ \E m \in Managers : Owes(m, s)
    BY DEF TrailInv
  <1>2. CASE UNCHANGED <<order, roster, status, trail, excused>>
    BY <1>1, <1>2 DEF ValueOf, Owes, Manages
  <1>3. ASSUME NEW k \in Managers, StartOrder(k)
        PROVE  trail'[s] = ValueOf(s)' \/ \E m \in Managers : Owes(m, s)'
    <2>1. UNCHANGED <<roster, status, trail, excused>>
      BY <1>3 DEF StartOrder
    <2>2. ASSUME NEW m \in Managers, Owes(m, s)
          PROVE  Owes(m, s)'
      <3>1. m # k
        BY <1>3, <2>2, Starts DEF Owes, Manages
      <3>2. \/ order'[m] = order[m]
            \/ /\ Manages(m) /\ order'[m] # Free /\ order'[m].overlapped
               /\ order'[m].step = order[m].step /\ order'[m].of = order[m].of
        BY <1>3, <3>1, Starts
      <3> QED
        BY <2>2, <3>2 DEF Owes, Manages
    <2> QED
      BY <1>1, <2>1, <2>2 DEF ValueOf
  <1>4. ASSUME NEW k \in Managers, Acts(k)
        PROVE  trail'[s] = ValueOf(s)' \/ \E m \in Managers : Owes(m, s)'
    <2> DEFINE o == order[k]
    <2>1. RosterGoes(k) /\ Manages(k) /\ Asked(o) /\ o \in Order
      BY <1>4, ActsGo, OrdersAreAsked DEF RosterGoes
    <2>2. ASSUME NEW m \in Managers, Owes(m, s), m # k
          PROVE  Owes(m, s)'
      BY <2>1, <2>2 DEF RosterGoes, Owes, Manages
    <2>3. CASE s # o.of
      <3>1. ValueOf(s)' = ValueOf(s) /\ trail'[s] = trail[s] /\ s \notin excused
        BY <1>4, <2>3, ActsOn
      <3>2. ~ Owes(k, s)
        BY <2>3 DEF Owes
      <3> QED
        BY <1>1, <2>2, <3>1, <3>2
    <2>4. ASSUME s = o.of, UNCHANGED <<roster, status, trail, excused>>, ~ Owes(k, s)
          PROVE  trail'[s] = ValueOf(s)' \/ \E m \in Managers : Owes(m, s)'
      <3>1. ValueOf(s)' = ValueOf(s)
        BY <2>4 DEF ValueOf
      <3> QED
        BY <1>1, <2>2, <2>4, <3>1
    <2>5. ~ o.overlapped => Undisturbed(o)
      BY <2>1 DEF AloneInv
    <2>6. CASE s = o.of /\ (FindAccount(k) \/ HasMembership(k) \/ ListMembers(k) \/ CountAdmins(k)
                            \/ LoadTenant(k))
      <3>1. o.step # "audit"
        BY <2>6 DEF FindAccount, HasMembership, ListMembers, CountAdmins, LoadTenant, Step
      <3>2. UNCHANGED <<roster, status, trail, excused>>
        BY <2>6 DEF FindAccount, HasMembership, ListMembers, CountAdmins, LoadTenant
      <3> QED
        BY <2>4, <2>6, <3>1, <3>2 DEF Owes
    <2>7. CASE s = o.of /\ (SaveTenant(k) \/ AddMember(k) \/ WriteMember(k))
      <3>1. o.step = "write" /\ UNCHANGED <<trail, excused>>
        BY <2>7, Writes DEF SaveTenant, AddMember, WriteMember
      <3>2. CASE order'[k] = Free
        <4>1. UNCHANGED <<roster, status>>
          BY <2>7, <3>2, Writes DEF AddMember
        <4> QED
          BY <2>4, <2>7, <3>1, <4>1 DEF Owes
      <3>3. CASE order'[k] # Free /\ (o.overlapped \/ o.does # "rename")
        <4>1. Owes(k, s)'
          <5>1. /\ order'[k].step = "audit" /\ order'[k].of = o.of /\ order'[k].does = o.does
                /\ order'[k].overlapped = o.overlapped
            BY <2>1, <2>7, <3>3, Writes DEF RosterGoes
          <5> QED
            BY <2>7, <3>3, <5>1 DEF Owes, Manages
        <4> QED
          BY <4>1
      <3>4. CASE ~ o.overlapped /\ o.does = "rename"
        <4>1. SaveTenant(k) /\ o.role = status
          BY <2>5, <2>7, <3>1, <3>4 DEF Undisturbed, AddMember, WriteMember
        <4>2. UNCHANGED <<roster, status>>
          BY <4>1 DEF SaveTenant
        <4> QED
          BY <2>4, <2>7, <3>1, <4>2 DEF Owes
      <3> QED
        BY <3>2, <3>3, <3>4
    <2>8. CASE s = o.of /\ LogReliable(k)
      <3>1. /\ o.step = "audit" /\ UNCHANGED <<roster, status>>
            /\ trail' = (IF o.does = "rename" THEN trail ELSE [trail EXCEPT ![o.of] = o.role])
            /\ excused' = IF o.overlapped THEN excused \cup {o.of}
                          ELSE IF o.does = "rename" THEN excused
                          ELSE excused \ {o.of}
        BY <2>8 DEF LogReliable, Step
      <3>2. ~ o.overlapped
        BY <2>8, <3>1
      <3>3. CASE o.does = "rename"
        BY <2>4, <2>8, <3>1, <3>2, <3>3 DEF Owes
      <3>4. CASE o.does # "rename"
        <4>1. ValueOf(s) = o.role /\ trail'[s] = o.role
          BY <2>5, <2>8, <3>1, <3>2, <3>4 DEF Undisturbed, RosterTypeInv, RosterTypeOK
        <4>2. ValueOf(s)' = ValueOf(s)
          BY <3>1 DEF ValueOf
        <4> QED
          BY <4>1, <4>2
      <3> QED
        BY <3>3, <3>4
    <2>9. CASE s = o.of /\ AuditFails(k)
      <3>1. UNCHANGED <<roster, status, trail>>
            /\ excused' = IF Step(k, "audit") \/ o.overlapped
                          THEN excused \cup {o.of} ELSE excused
        BY <2>9 DEF AuditFails
      <3>2. UNCHANGED excused /\ ~ Step(k, "audit")
        BY <2>9, <3>1
      <3> QED
        BY <2>1, <2>4, <2>9, <3>1, <3>2 DEF Owes, Step, Manages
    <2> QED
      BY <1>4, <2>3, <2>6, <2>7, <2>8, <2>9 DEF Acts
  <1> QED
    BY <1>2, <1>3, <1>4, StepKinds DEF rosterVars, DeleteUser

(* What the trail says last of a member or of the tenant is so, but for what *)
(* is on its way or has an excuse, whoever is at work and whatever fails.    *)
THEOREM TrailExplainsAll == RosterSpec => []TrailExplainsRoster
  <1>1. RosterTypeInv /\ AloneInv /\ [RosterNext]_rosterVars => AloneInv'
    BY StepAlone
  <1>2. RosterTypeInv /\ AloneInv /\ TrailInv /\ [RosterNext]_rosterVars => TrailInv'
    BY StepTrail
  <1>3. TrailInv => TrailExplainsRoster
    BY DEF TrailInv, TrailExplainsRoster, Owes, Manages
  <1> QED
    BY <1>1, <1>2, <1>3, InitRoster, InitTrail, RosterSteps, PTL DEF RosterSpec

---------------------------------------------------------------------------------
(* The guard of logins.                                                      *)

GuardRecords == [count : Nat, first : Times, until : Later]

GuardTypeInv == GuardTypeOK /\ admitted \in [Times -> Nat]

LEMMA GuardTimes ==
    ASSUME NEW t \in Times
    PROVE  /\ t \in Nat /\ t \in Later /\ 0 \in Later /\ Never \in Later
           /\ t + lockDuration \in Later /\ t + windowDuration \in Later
  BY GuardAssumption, SMT DEF Times, Later, Never

LEMMA GuardFailureTypes ==
    ASSUME GuardTypeInv, NEW lock \in BOOLEAN, Reported(lock), UNCHANGED now
    PROVE  /\ failed' \in [Times -> 0 .. MaxFailures] /\ admitted' \in [Times -> Nat]
           /\ \A t \in Times : admitted'[t] \in 0 .. failed'[t]
  <1>1. /\ now \in Times /\ failed \in [Times -> 0 .. MaxFailures] /\ MaxFailures \in Nat
        /\ admitted \in [Times -> Nat] /\ \A t \in Times : admitted[t] \in 0 .. failed[t]
    BY GuardAssumption DEF GuardTypeInv, GuardTypeOK
  <1>2. /\ failed[now] < MaxFailures
        /\ failed' = [failed EXCEPT ![now] = failed[now] + 1]
        /\ admitted' = [admitted EXCEPT ![now] = IF lock THEN admitted[now] ELSE admitted[now] + 1]
    BY DEF Reported
  <1>3. failed[now] + 1 \in 0 .. MaxFailures
    BY <1>1, <1>2
  <1>4. (IF lock THEN admitted[now] ELSE admitted[now] + 1) \in 0 .. failed[now] + 1
    BY <1>1
  <1>5. (IF lock THEN admitted[now] ELSE admitted[now] + 1) \in Nat
    BY <1>4, <1>1
  <1>6. failed' \in [Times -> 0 .. MaxFailures] /\ admitted' \in [Times -> Nat]
    BY <1>1, <1>2, <1>3, <1>5
  <1>7. ASSUME NEW t \in Times
        PROVE  admitted'[t] \in 0 .. failed'[t]
    <2>1. CASE t = now
      BY <2>1, <1>1, <1>2, <1>4
    <2>2. CASE t # now
      BY <2>2, <1>1, <1>2
    <2> QED
      BY <2>1, <2>2
  <1> QED
    BY <1>6, <1>7

LEMMA TakenTypes ==
    ASSUME GuardTypeInv, NEW i \in Guards, Take(i)
    PROVE  pending' \in [Guards -> 0 .. MaxPending] /\ challenged' \in [Guards -> Nat]
  <1>1. pending \in [Guards -> 0 .. MaxPending] /\ challenged \in [Guards -> Nat] /\ MaxPending \in Nat
    BY GuardAssumption DEF GuardTypeInv, GuardTypeOK
  <1>2. CASE TakePassword(i) /\ UNCHANGED challenged
    BY <1>1, <1>2 DEF TakePassword
  <1>3. CASE TakeCode(i) /\ UNCHANGED pending
    BY <1>1, <1>3 DEF TakeCode
  <1> QED
    BY <1>2, <1>3 DEF Take

LEMMA RightPasswordTypes ==
    ASSUME GuardTypeInv, NEW i \in Guards, RecordSuccess(i)
    PROVE  pending' \in [Guards -> 0 .. MaxPending] /\ challenged' \in [Guards -> Nat]
  <1>1. pending \in [Guards -> 0 .. MaxPending] /\ challenged \in [Guards -> Nat] /\ MaxPending \in Nat
    BY GuardAssumption DEF GuardTypeInv, GuardTypeOK
  <1>2. TakePassword(i) /\ challenged' \in {challenged, [challenged EXCEPT ![i] = challenged[i] + 1]}
    BY DEF RecordSuccess
  <1> QED
    BY <1>1, <1>2 DEF TakePassword

LEMMA CheckedTypes ==
    ASSUME GuardTypeInv, NEW i \in Guards, LetIn(i)
    PROVE  pending' \in [Guards -> 0 .. MaxPending] /\ challenged' \in [Guards -> Nat]
  <1>1. pending \in [Guards -> 0 .. MaxPending] /\ challenged \in [Guards -> Nat] /\ MaxPending \in Nat
    BY GuardAssumption DEF GuardTypeInv, GuardTypeOK
  <1>2. pending[i] + 1 \in 0 .. MaxPending
    BY <1>1 DEF LetIn
  <1> QED
    BY <1>1, <1>2 DEF LetIn

LEMMA ErrorTypes ==
    ASSUME GuardTypeInv, Error \/ UNCHANGED errors
    PROVE  errors' \in 0 .. MaxErrors
  BY GuardAssumption DEF GuardTypeInv, GuardTypeOK, Error

LEMMA RecordTypes ==
    ASSUME GuardTypeInv, NEW i \in Guards, RecordFailedHere(i)
    PROVE  record' \in [Guards -> GuardRecords]
  <1>1. now \in Times /\ record \in [Guards -> GuardRecords] /\ record[i] \in GuardRecords
    BY DEF GuardTypeInv, GuardTypeOK, GuardRecords
  <1>2. Current(record[i]) \in GuardRecords
    BY <1>1, GuardTimes DEF Current, GuardRecords
  <1> DEFINE r == Current(record[i])
             n == r.count + 1
             e == IF Locks(n) THEN now + lockDuration ELSE r.until
  <1>3. n \in Nat /\ e \in Later
    BY <1>1, <1>2, GuardTimes DEF GuardRecords
  <1>4. [r EXCEPT !.count = n, !.until = e] \in GuardRecords
    BY <1>2, <1>3 DEF GuardRecords
  <1>5. record' = [record EXCEPT ![i] = [r EXCEPT !.count = n, !.until = e]]
    BY DEF RecordFailedHere
  <1> QED
    BY <1>1, <1>4, <1>5

LEMMA NoRecordFits == NoRecord \in GuardRecords
  BY GuardAssumption, SMT DEF NoRecord, GuardRecords, Times, Later, Never

LEMMA ClearedRecordTypes ==
    ASSUME GuardTypeInv, NEW i \in Guards, record' = [record EXCEPT ![i] = NoRecord]
    PROVE  record' \in [Guards -> GuardRecords]
  BY NoRecordFits DEF GuardTypeInv, GuardTypeOK, GuardRecords

LEMMA SharedCountTypes ==
    ASSUME GuardTypeInv, NEW i \in Guards, RecordFailedThere(i)
    PROVE  failKey' \in [count : Nat, ends : Later] /\ lockKey' \in Later /\ endless' \in BOOLEAN
  <1>1. /\ now \in Times /\ failKey \in [count : Nat, ends : Later] /\ lockKey \in Later
        /\ endless \in BOOLEAN
    BY DEF GuardTypeInv, GuardTypeOK
  <1>2. CountThere \in Nat
    BY <1>1 DEF CountThere
  <1>3. CountThere + 1 \in Nat
    BY <1>2
  <1>4. PICK n \in Nat : n = CountThere + 1
    BY <1>3
  <1>5. \/ /\ failKey' = [count |-> n, ends |-> IF n = 1 THEN now + windowDuration ELSE failKey.ends]
           /\ endless' = IF n = 1 THEN FALSE ELSE endless
        \/ failKey' = [count |-> n, ends |-> Never] /\ endless' = TRUE
    BY <1>4 DEF RecordFailedThere
  <1>6. lockKey' = IF Locks(n) THEN now + lockDuration ELSE lockKey
    BY <1>4 DEF RecordFailedThere
  <1>7. lockKey' \in Later
    BY <1>1, <1>6, GuardTimes
  <1>8. PICK ends \in Later : failKey' = [count |-> n, ends |-> ends]
    <2>1. (IF n = 1 THEN now + windowDuration ELSE failKey.ends) \in Later
      BY <1>1, GuardTimes
    <2> QED
      BY <1>1, <1>5, <2>1, GuardTimes
  <1>9. failKey' \in [count : Nat, ends : Later]
    BY <1>4, <1>8
  <1>10. endless' \in BOOLEAN
    BY <1>1, <1>5
  <1> QED
    BY <1>7, <1>9, <1>10

LEMMA InitGuard == GuardInit => GuardTypeInv
  <1> SUFFICES ASSUME GuardInit
               PROVE  GuardTypeInv
    OBVIOUS
  <1>1. 0 \in Times /\ {MaxPending, MaxFailures, MaxErrors} \subseteq Nat
    BY GuardAssumption DEF Times
  <1>2. 0 \in Nat /\ 0 \in Later
    BY <1>1, GuardTimes
  <1>3. record \in [Guards -> GuardRecords]
    BY NoRecordFits DEF GuardInit
  <1>4. now \in Times /\ lockKey \in Later /\ errors \in 0 .. MaxErrors
    BY <1>1, <1>2 DEF GuardInit
  <1>8. withRedis \in BOOLEAN /\ endless \in BOOLEAN
    BY DEF GuardInit
  <1>6. failKey \in [count : Nat, ends : Later]
    BY <1>2 DEF GuardInit
  <1>7. pending \in [Guards -> 0 .. MaxPending] /\ challenged \in [Guards -> Nat]
    BY <1>1 DEF GuardInit
  <1>5. /\ failed \in [Times -> 0 .. MaxFailures] /\ admitted \in [Times -> Nat]
        /\ \A t \in Times : admitted[t] \in 0 .. failed[t]
    BY <1>1 DEF GuardInit
  <1> QED
    BY <1>3, <1>4, <1>5, <1>6, <1>7, <1>8 DEF GuardTypeInv, GuardTypeOK, GuardRecords

LEMMA StepGuard ==
    ASSUME GuardTypeInv, [GuardNext]_guardVars
    PROVE  GuardTypeInv'
  <1> SUFFICES ASSUME GuardNext
               PROVE  GuardTypeInv'
    BY DEF guardVars, GuardTypeInv, GuardTypeOK, Times, Later, Never
  <1>a. /\ withRedis \in BOOLEAN /\ now \in Times /\ record \in [Guards -> GuardRecords]
        /\ failKey \in [count : Nat, ends : Later] /\ lockKey \in Later
        /\ pending \in [Guards -> 0 .. MaxPending] /\ challenged \in [Guards -> Nat] /\ errors \in 0 .. MaxErrors
        /\ failed \in [Times -> 0 .. MaxFailures]
        /\ \A t \in Times : admitted[t] \in 0 .. failed[t]
        /\ endless \in BOOLEAN /\ admitted \in [Times -> Nat] /\ withRedis' = withRedis
    BY DEF GuardTypeInv, GuardTypeOK, GuardRecords, GuardNext
  <1>b. ASSUME /\ now' \in Times /\ record' \in [Guards -> GuardRecords]
               /\ failKey' \in [count : Nat, ends : Later] /\ lockKey' \in Later
               /\ pending' \in [Guards -> 0 .. MaxPending] /\ challenged' \in [Guards -> Nat] /\ errors' \in 0 .. MaxErrors
               /\ failed' \in [Times -> 0 .. MaxFailures]
               /\ \A t \in Times : admitted'[t] \in 0 .. failed'[t]
               /\ endless' \in BOOLEAN /\ admitted' \in [Times -> Nat]
        PROVE  GuardTypeInv'
    BY <1>a, <1>b DEF GuardTypeInv, GuardTypeOK, GuardRecords, Times, Later, Never
  <1>1. CASE TickGuard
    <2>1. now' \in Times
      BY <1>1, <1>a, GuardAssumption DEF TickGuard, Times
    <2> QED
      BY <1>1, <1>a, <1>b, <2>1 DEF TickGuard
  <1>2. ASSUME NEW i \in Guards, CheckHere(i)
        PROVE  GuardTypeInv'
    <2>1. pending' \in [Guards -> 0 .. MaxPending] /\ challenged' \in [Guards -> Nat] /\ errors' \in 0 .. MaxErrors
      BY <1>2, CheckedTypes, ErrorTypes DEF CheckHere, AskMemory
    <2> QED
      BY <1>2, <1>a, <1>b, <2>1 DEF CheckHere
  <1>3. ASSUME NEW i \in Guards, CheckThere(i)
        PROVE  GuardTypeInv'
    <2>1. pending' \in [Guards -> 0 .. MaxPending] /\ challenged' \in [Guards -> Nat]
      BY <1>3, CheckedTypes DEF CheckThere
    <2> QED
      BY <1>3, <1>a, <1>b, <2>1 DEF CheckThere
  <1>4. ASSUME NEW i \in Guards, RecordFailedHere(i)
        PROVE  GuardTypeInv'
    <2>1. PICK lock \in BOOLEAN : Reported(lock)
      <3>1. Reported(Locks(Current(record[i]).count + 1))
        BY <1>4 DEF RecordFailedHere
      <3>2. Locks(Current(record[i]).count + 1) \in BOOLEAN
        BY DEF Locks
      <3> QED
        BY <3>1, <3>2
    <2>2. /\ pending' \in [Guards -> 0 .. MaxPending] /\ challenged' \in [Guards -> Nat] /\ errors' \in 0 .. MaxErrors
          /\ record' \in [Guards -> GuardRecords] /\ now' = now
      BY <1>4, TakenTypes, ErrorTypes, RecordTypes DEF RecordFailedHere, AskMemory
    <2>3. failKey' = failKey /\ lockKey' = lockKey /\ endless' = endless
      BY <1>4 DEF RecordFailedHere
    <2> QED
      BY <1>a, <1>b, <2>1, <2>2, <2>3, GuardFailureTypes
  <1>5. ASSUME NEW i \in Guards, RecordFailedThere(i)
        PROVE  GuardTypeInv'
    <2>1. PICK lock \in BOOLEAN : Reported(lock)
      <3>1. Reported(Locks(CountThere + 1))
        BY <1>5 DEF RecordFailedThere
      <3>2. Locks(CountThere + 1) \in BOOLEAN
        BY DEF Locks
      <3> QED
        BY <3>1, <3>2
    <2>2. /\ pending' \in [Guards -> 0 .. MaxPending] /\ challenged' \in [Guards -> Nat] /\ errors' \in 0 .. MaxErrors
          /\ record' = record /\ now' = now
      BY <1>5, TakenTypes, ErrorTypes DEF RecordFailedThere
    <2> QED
      BY <1>5, <1>a, <1>b, <2>1, <2>2, GuardFailureTypes, SharedCountTypes
  <1>6. ASSUME NEW i \in Guards, RecordFailedUnlocked(i)
        PROVE  GuardTypeInv'
    <2>1. /\ pending' \in [Guards -> 0 .. MaxPending] /\ challenged' \in [Guards -> Nat] /\ errors' \in 0 .. MaxErrors
          /\ record' = record /\ now' = now /\ lockKey' = lockKey /\ endless' = endless
          /\ Reported(TRUE) /\ failKey' = [failKey EXCEPT !.count = failKey.count + 1]
      BY <1>6, TakenTypes, ErrorTypes DEF RecordFailedUnlocked
    <2>2. failKey' \in [count : Nat, ends : Later]
      BY <1>a, <2>1
    <2> QED
      BY <1>a, <1>b, <2>1, <2>2, GuardFailureTypes
  <1>7. ASSUME NEW i \in Guards, RecordSuccess(i)
        PROVE  GuardTypeInv'
    <2>1. /\ pending' \in [Guards -> 0 .. MaxPending] /\ challenged' \in [Guards -> Nat] /\ errors' \in 0 .. MaxErrors
          /\ record' \in [Guards -> GuardRecords] /\ now' = now /\ failed' = failed
      BY <1>7, RightPasswordTypes, ErrorTypes, ClearedRecordTypes DEF RecordSuccess, AskMemory
    <2>2. /\ failKey' \in [count : Nat, ends : Later] /\ lockKey' \in Later
          /\ endless' \in BOOLEAN
      <3>1. CASE /\ failKey' = [count |-> 0, ends |-> 0]
                 /\ lockKey' = 0 /\ endless' = FALSE
        BY <3>1, <1>a, GuardTimes
      <3>2. CASE UNCHANGED <<failKey, lockKey, endless>>
        BY <3>2, <1>a
      <3> QED
        BY <1>7, <3>1, <3>2 DEF RecordSuccess
    <2>3. admitted' \in [Times -> Nat] /\ \A t \in Times : admitted'[t] \in 0 .. failed'[t]
      <3>1. admitted' = [t \in Times |-> 0]
        BY <1>7 DEF RecordSuccess
      <3>2. \A t \in Times : failed[t] \in Nat
        BY <1>a, GuardAssumption
      <3> QED
        BY <3>1, <3>2, <2>1
    <2> QED
      BY <1>a, <1>b, <2>1, <2>2, <2>3
  <1>8. ASSUME NEW i \in Guards, CleanUp(i)
        PROVE  GuardTypeInv'
    <2>1. record' \in [Guards -> GuardRecords]
      BY <1>8, ClearedRecordTypes DEF CleanUp
    <2> QED
      BY <1>8, <1>a, <1>b, <2>1 DEF CleanUp
  <1>9. ASSUME NEW i \in Guards, ReportNothing(i)
        PROVE  GuardTypeInv'
    <2>1. pending' \in [Guards -> 0 .. MaxPending] /\ challenged' \in [Guards -> Nat]
      BY <1>9, TakenTypes DEF ReportNothing
    <2> QED
      BY <1>9, <1>a, <1>b, <2>1 DEF ReportNothing
  <1> QED
    BY <1>1, <1>2, <1>3, <1>4, <1>5, <1>6, <1>7, <1>8, <1>9 DEF GuardNext

---------------------------------------------------------------------------------
(* Failures in a window of time, as a sum that its own equation defines.     *)

(* The library's theorem on well-founded relations, for a set of numbers.    *)
LEMMA LeastNumber ==
    ASSUME NEW S, S \subseteq Nat, S # {}
    PROVE  \E t \in S : \A s \in S : t <= s
  <1> DEFINE R == {ss \in Nat \X Nat : ss[1] < ss[2]}
  <1>1. IsWellFoundedOn(R, Nat)
    BY NatLessThanWellFounded DEF OpToRel
  <1> HIDE DEF R
  <1>2. PICK t \in S : \A s \in S : ~ (<<s, t>> \in R)
    BY <1>1, WFMin
  <1> SUFFICES ASSUME NEW s \in S PROVE t <= s
    OBVIOUS
  <1>3. s \in Nat /\ t \in Nat /\ <<s, t>> \notin R
    BY <1>2
  <1>4. ~ (s < t)
    BY <1>3 DEF R
  <1> QED
    BY <1>3, <1>4

(* A function that adds up f from a on, and what it is before.               *)
AddsUp(u, f, a, b) ==
    u = [t \in a - 1 .. b |-> IF t < a THEN 0 ELSE f[t] + u[t - 1]]

(* There is such a function for every stretch of time, and only one.         *)
LEMMA SumsExist ==
    ASSUME NEW f, NEW a \in Nat, NEW k \in Nat
    PROVE  \E u : AddsUp(u, f, a, a - 1 + k)
  <1> DEFINE Good(n) == \E u : AddsUp(u, f, a, a - 1 + n)
             Bad == {n \in Nat : ~ Good(n)}
  <1>1. Good(0)
    <2> DEFINE u == [t \in a - 1 .. a - 1 |-> 0]
    <2>1. AddsUp(u, f, a, a - 1)
      BY DEF AddsUp
    <2>2. a - 1 + 0 = a - 1
      OBVIOUS
    <2> QED
      BY <2>1, <2>2
  <1>2. ASSUME NEW n \in Nat, Good(n)
        PROVE  Good(n + 1)
    <2>1. PICK u : AddsUp(u, f, a, a - 1 + n)
      BY <1>2
    <2> DEFINE b == a - 1 + n
               v == [t \in a - 1 .. b + 1 |-> IF t = b + 1 THEN f[t] + u[b] ELSE u[t]]
    <2>2. \A t \in a - 1 .. b : u[t] = IF t < a THEN 0 ELSE f[t] + u[t - 1]
      BY <2>1 DEF AddsUp
    <2>3. b \in Int /\ a - 1 <= b
      OBVIOUS
    <2> HIDE DEF b
    <2>4. \A t \in a - 1 .. b + 1 : v[t] = IF t < a THEN 0 ELSE f[t] + v[t - 1]
      <3> SUFFICES ASSUME NEW t \in a - 1 .. b + 1
                   PROVE  v[t] = IF t < a THEN 0 ELSE f[t] + v[t - 1]
        OBVIOUS
      <3>1. CASE t = b + 1
        <4>1. v[t] = f[t] + u[b] /\ v[t - 1] = u[b] /\ ~ (t < a)
          BY <2>3, <3>1
        <4> QED
          BY <4>1
      <3>2. CASE t # b + 1
        <4>1. t \in a - 1 .. b /\ v[t] = u[t]
          BY <2>3, <3>2
        <4>2. CASE t < a
          BY <4>1, <4>2, <2>2
        <4>3. CASE ~ (t < a)
          <5>1. t - 1 \in a - 1 .. b /\ t - 1 # b + 1 /\ t - 1 \in a - 1 .. b + 1
            BY <4>1, <4>3, <2>3
          <5>2. v[t - 1] = u[t - 1]
            BY <5>1
          <5> QED
            BY <4>1, <4>3, <5>2, <2>2
        <4> QED
          BY <4>2, <4>3
      <3> QED
        BY <3>1, <3>2
    <2>5. v = [t \in a - 1 .. b + 1 |-> IF t < a THEN 0 ELSE f[t] + v[t - 1]]
      <3> DEFINE w == [t \in a - 1 .. b + 1 |-> IF t < a THEN 0 ELSE f[t] + v[t - 1]]
      <3>1. DOMAIN v = a - 1 .. b + 1 /\ DOMAIN w = a - 1 .. b + 1
        OBVIOUS
      <3>2. \A t \in a - 1 .. b + 1 : v[t] = w[t]
        <4> HIDE DEF v
        <4> QED
          BY <2>4
      <3>3. v = [t \in a - 1 .. b + 1 |-> v[t]] /\ w = [t \in a - 1 .. b + 1 |-> w[t]]
        OBVIOUS
      <3> HIDE DEF v, w
      <3>4. v = w
        BY <3>2, <3>3
      <3> QED
        BY <3>4 DEF w
    <2> HIDE DEF v
    <2>6. b + 1 = a - 1 + (n + 1)
      BY DEF b
    <2>7. AddsUp(v, f, a, a - 1 + (n + 1))
      BY <2>5, <2>6 DEF AddsUp
    <2> QED
      BY <2>7
  <1>3. Bad = {}
    <2> SUFFICES ASSUME Bad # {}
                 PROVE  FALSE
      OBVIOUS
    <2>1. PICK m \in Bad : \A n \in Bad : m <= n
      BY LeastNumber
    <2> HIDE DEF Good
    <2>2. m \in Nat /\ ~ Good(m) /\ m # 0
      BY <1>1
    <2>3. m - 1 \in Nat /\ m - 1 \notin Bad
      BY <2>1, <2>2
    <2>4. Good(m - 1) /\ m = (m - 1) + 1
      BY <2>2, <2>3
    <2> QED
      BY <1>2, <2>2, <2>3, <2>4
  <1> QED
    BY <1>3

LEMMA SumsAgree ==
    ASSUME NEW f, NEW a \in Nat, NEW b \in Int, NEW c \in Int, NEW u, NEW v,
           AddsUp(u, f, a, b), AddsUp(v, f, a, c)
    PROVE  \A t \in a - 1 .. b : t <= c => u[t] = v[t]
  <1> DEFINE Bad == {n \in Nat : a - 1 + n <= b /\ a - 1 + n <= c /\ u[a - 1 + n] # v[a - 1 + n]}
  <1>1. \A t \in a - 1 .. b : u[t] = IF t < a THEN 0 ELSE f[t] + u[t - 1]
    BY DEF AddsUp
  <1>2. \A t \in a - 1 .. c : v[t] = IF t < a THEN 0 ELSE f[t] + v[t - 1]
    BY DEF AddsUp
  <1>3. Bad = {}
    <2> SUFFICES ASSUME Bad # {}
                 PROVE  FALSE
      OBVIOUS
    <2>1. PICK m \in Bad : \A n \in Bad : m <= n
      BY LeastNumber
    <2> DEFINE t == a - 1 + m
    <2>2. m \in Nat /\ t \in a - 1 .. b /\ t \in a - 1 .. c /\ u[t] # v[t]
      BY <2>1
    <2>3. m # 0
      BY <2>2, <1>1, <1>2
    <2>4. m - 1 \in Nat /\ m - 1 \notin Bad /\ a - 1 + (m - 1) = t - 1
      BY <2>1, <2>2, <2>3
    <2>5. u[t - 1] = v[t - 1]
      BY <2>2, <2>4
    <2>6. ~ (t < a)
      BY <2>2, <2>3
    <2> HIDE DEF t
    <2> QED
      BY <2>2, <2>5, <2>6, <1>1, <1>2
  <1> SUFFICES ASSUME NEW t \in a - 1 .. b, t <= c, u[t] # v[t]
               PROVE  FALSE
    OBVIOUS
  <1>4. t - (a - 1) \in Nat /\ a - 1 + (t - (a - 1)) = t
    OBVIOUS
  <1>5. t - (a - 1) \in Bad
    BY <1>4
  <1> QED
    BY <1>3, <1>5

(* So the sum is the last value of such a function.                          *)
LEMMA SumIsOne ==
    ASSUME NEW f, NEW a \in Nat, NEW b \in Int, a - 1 <= b
    PROVE  \E u : AddsUp(u, f, a, b) /\ FailuresIn(f, a, b) = u[b]
  <1>1. b - (a - 1) \in Nat /\ a - 1 + (b - (a - 1)) = b
    OBVIOUS
  <1>2. \E u : AddsUp(u, f, a, b)
    BY <1>1, SumsExist
  <1> DEFINE u == CHOOSE u : AddsUp(u, f, a, b)
  <1>3. AddsUp(u, f, a, b)
    BY <1>2
  <1>4. FailuresIn(f, a, b) = u[b]
    BY DEF FailuresIn, AddsUp
  <1> QED
    BY <1>3, <1>4

(* Nothing happens in no time, and each moment adds what happens in it.      *)
LEMMA SumOfNone ==
    ASSUME NEW f, NEW a \in Nat
    PROVE  FailuresIn(f, a, a - 1) = 0
  <1>1. PICK u : AddsUp(u, f, a, a - 1) /\ FailuresIn(f, a, a - 1) = u[a - 1]
    BY SumIsOne
  <1> QED
    BY <1>1 DEF AddsUp

LEMMA SumGrows ==
    ASSUME NEW f, NEW a \in Nat, NEW b \in Int, a <= b
    PROVE  FailuresIn(f, a, b) = f[b] + FailuresIn(f, a, b - 1)
  <1>1. PICK u : AddsUp(u, f, a, b) /\ FailuresIn(f, a, b) = u[b]
    BY SumIsOne
  <1>2. PICK v : AddsUp(v, f, a, b - 1) /\ FailuresIn(f, a, b - 1) = v[b - 1]
    BY SumIsOne
  <1>3. u[b - 1] = v[b - 1]
    BY <1>1, <1>2, SumsAgree
  <1>4. u[b] = f[b] + u[b - 1]
    BY <1>1 DEF AddsUp
  <1> QED
    BY <1>1, <1>2, <1>3, <1>4

(* Sums of counts of failures.                                               *)
FailureCounts == [Times -> Nat]

LEMMA SumIsNat ==
    ASSUME NEW f \in FailureCounts, NEW a \in Nat, NEW b \in Int, a - 1 <= b, b <= MaxTime
    PROVE  FailuresIn(f, a, b) \in Nat
  <1> DEFINE Bad == {n \in Nat : a - 1 + n <= MaxTime /\ FailuresIn(f, a, a - 1 + n) \notin Nat}
  <1>0. MaxTime \in Nat
    BY GuardAssumption
  <1>1. Bad = {}
    <2> SUFFICES ASSUME Bad # {}
                 PROVE  FALSE
      OBVIOUS
    <2>1. PICK m \in Bad : \A n \in Bad : m <= n
      BY LeastNumber
    <2> DEFINE t == a - 1 + m
    <2>2. m \in Nat /\ t \in Int /\ t <= MaxTime /\ FailuresIn(f, a, t) \notin Nat
      BY <2>1
    <2>3. m # 0
      BY <2>2, SumOfNone
    <2>4. m - 1 \in Nat /\ m - 1 \notin Bad /\ a - 1 + (m - 1) = t - 1
      BY <2>1, <2>2, <2>3
    <2>5. FailuresIn(f, a, t - 1) \in Nat
      BY <2>4, <2>2, <1>0
    <2>6. a <= t /\ t \in Times
      BY <2>2, <2>3, <1>0 DEF Times
    <2>7. FailuresIn(f, a, t) = f[t] + FailuresIn(f, a, t - 1)
      BY <2>6, <2>2, SumGrows
    <2>8. f[t] \in Nat
      BY <2>6 DEF FailureCounts
    <2> HIDE DEF t
    <2> QED
      BY <2>2, <2>5, <2>7, <2>8
  <1>2. b - (a - 1) \in Nat /\ a - 1 + (b - (a - 1)) = b
    OBVIOUS
  <1>3. b - (a - 1) \notin Bad
    BY <1>1
  <1> QED
    BY <1>2, <1>3

(* One more failure now is one more in every window that ends now, and takes   *)
(* none from any.                                                             *)
LEMMA SumWithOneMore ==
    ASSUME NEW f \in FailureCounts, NEW p \in Times,
           NEW a \in Nat, NEW b \in Int, a - 1 <= b, b <= MaxTime
    PROVE  FailuresIn([f EXCEPT ![p] = f[p] + 1], a, b)
              = FailuresIn(f, a, b) + (IF a <= p /\ p <= b THEN 1 ELSE 0)
  <1> DEFINE g == [f EXCEPT ![p] = f[p] + 1]
  <1> DEFINE More(t) == IF a <= p /\ p <= t THEN 1 ELSE 0
  <1>0. MaxTime \in Nat /\ p \in Nat /\ g \in FailureCounts
    BY GuardAssumption DEF Times, FailureCounts
  <1>g. \A t \in Times : g[t] = f[t] + (IF t = p THEN 1 ELSE 0)
    <2>1. \A t \in Times : f[t] \in Nat
      BY DEF FailureCounts
    <2> QED
      BY <2>1 DEF FailureCounts
  <1> HIDE DEF g
  <1>a. More(a - 1) = 0
    BY <1>0
  <1>b. \A t \in Int : More(t) \in Nat /\ (a <= t => More(t) = More(t - 1) + (IF t = p THEN 1 ELSE 0))
    BY <1>0
  <1> HIDE DEF More
  <1> DEFINE Bad == {n \in Nat : a - 1 + n <= MaxTime /\
                        FailuresIn(g, a, a - 1 + n) # FailuresIn(f, a, a - 1 + n) + More(a - 1 + n)}
  <1>1. Bad = {}
    <2> SUFFICES ASSUME Bad # {}
                 PROVE  FALSE
      OBVIOUS
    <2>1. PICK m \in Bad : \A n \in Bad : m <= n
      BY LeastNumber
    <2> DEFINE t == a - 1 + m
    <2>2. m \in Nat /\ t \in Int /\ t <= MaxTime /\ FailuresIn(g, a, t) # FailuresIn(f, a, t) + More(t)
      BY <2>1
    <2>3. m # 0
      <3>1. ASSUME m = 0 PROVE FALSE
        <4>1. t = a - 1
          BY <3>1
        <4> HIDE DEF t
        <4> QED
          BY <4>1, <2>2, <1>a, SumOfNone
      <3> QED
        BY <3>1
    <2>4. m - 1 \in Nat /\ m - 1 \notin Bad /\ a - 1 + (m - 1) = t - 1
      <3>1. m - 1 \in Nat /\ a - 1 + (m - 1) = t - 1
        BY <2>2, <2>3
      <3> HIDE DEF Bad, t
      <3> QED
        BY <2>1, <2>2, <3>1
    <2>b. a - 1 + (m - 1) <= MaxTime
      BY <2>2, <2>4, <1>0
    <2>c. FailuresIn(g, a, a - 1 + (m - 1)) = FailuresIn(f, a, a - 1 + (m - 1)) + More(a - 1 + (m - 1))
      BY <2>4, <2>b
    <2>5. FailuresIn(g, a, t - 1) = FailuresIn(f, a, t - 1) + More(t - 1)
      BY <2>4, <2>c
    <2>6. a <= t /\ t \in Times
      BY <2>2, <2>3, <1>0 DEF Times
    <2> HIDE DEF t, Bad
    <2>d. t \in Int
      BY <2>2
    <2>7. /\ FailuresIn(f, a, t) = f[t] + FailuresIn(f, a, t - 1)
          /\ FailuresIn(g, a, t) = g[t] + FailuresIn(g, a, t - 1)
      BY <2>6, <2>d, SumGrows
    <2>8. f[t] \in Nat /\ g[t] = f[t] + (IF t = p THEN 1 ELSE 0)
      BY <2>6, <1>g DEF FailureCounts
    <2>9. FailuresIn(f, a, t - 1) \in Nat
      BY <2>6, <2>2, <1>0, SumIsNat
    <2>10. More(t - 1) \in Nat /\ More(t) = More(t - 1) + (IF t = p THEN 1 ELSE 0)
      BY <2>2, <2>6, <1>b
    <2> QED
      BY <2>2, <2>5, <2>7, <2>8, <2>9, <2>10
  <1>2. b - (a - 1) \in Nat /\ a - 1 + (b - (a - 1)) = b
    OBVIOUS
  <1>3. b - (a - 1) \notin Bad
    BY <1>1
  <1>4. FailuresIn(g, a, b) = FailuresIn(f, a, b) + More(b)
    BY <1>2, <1>3
  <1> QED
    BY <1>4 DEF More, g

(* A window that begins earlier has no fewer failures.                       *)
LEMMA SumFromEarlier ==
    ASSUME NEW f \in FailureCounts, NEW a \in Nat, NEW c \in Nat, c <= a,
           NEW b \in Int, a - 1 <= b, b <= MaxTime
    PROVE  FailuresIn(f, a, b) <= FailuresIn(f, c, b)
  <1> DEFINE Bad == {n \in Nat : a - 1 + n <= MaxTime /\
                        ~ (FailuresIn(f, a, a - 1 + n) <= FailuresIn(f, c, a - 1 + n))}
  <1>0. MaxTime \in Nat
    BY GuardAssumption
  <1>1. Bad = {}
    <2> SUFFICES ASSUME Bad # {}
                 PROVE  FALSE
      OBVIOUS
    <2>1. PICK m \in Bad : \A n \in Bad : m <= n
      BY LeastNumber
    <2> DEFINE t == a - 1 + m
    <2>2. m \in Nat /\ t \in Int /\ t <= MaxTime /\ ~ (FailuresIn(f, a, t) <= FailuresIn(f, c, t))
      BY <2>1
    <2>a. FailuresIn(f, c, t) \in Nat
      BY <2>2, SumIsNat
    <2>3. m # 0
      BY <2>2, <2>a, SumOfNone
    <2>4. m - 1 \in Nat /\ m - 1 \notin Bad /\ a - 1 + (m - 1) = t - 1
      BY <2>1, <2>2, <2>3
    <2>5. FailuresIn(f, a, t - 1) <= FailuresIn(f, c, t - 1)
      BY <2>4, <2>2, <1>0
    <2>6. a <= t /\ t \in Times /\ c <= t
      BY <2>2, <2>3, <1>0 DEF Times
    <2>7. /\ FailuresIn(f, a, t) = f[t] + FailuresIn(f, a, t - 1)
          /\ FailuresIn(f, c, t) = f[t] + FailuresIn(f, c, t - 1)
      BY <2>6, <2>2, SumGrows
    <2>8. f[t] \in Nat
      BY <2>6 DEF FailureCounts
    <2>9. FailuresIn(f, a, t - 1) \in Nat /\ FailuresIn(f, c, t - 1) \in Nat
      BY <2>6, <2>2, <1>0, SumIsNat
    <2> HIDE DEF t
    <2> QED
      BY <2>2, <2>5, <2>7, <2>8, <2>9
  <1>2. b - (a - 1) \in Nat /\ a - 1 + (b - (a - 1)) = b
    OBVIOUS
  <1>3. b - (a - 1) \notin Bad
    BY <1>1
  <1> QED
    BY <1>2, <1>3

---------------------------------------------------------------------------------
(* A lock is for a burst of failures.                                        *)

(* The failures that a lock which ends then is for.                           *)
BurstBefore(until) ==
    LET at == until - lockDuration
    IN  at \in 0 .. now /\ maxAttempts <= FailuresIn(failed, Earliest(at - windowDuration), at)

(* Every count is of failures since it began, every lock is for a burst.  Of a  *)
(* count without an end nothing is known but that it is one.                   *)
RecordInv(i) ==
    /\ record[i].first <= now
    /\ record[i].count # 0 => record[i].count <= FailuresIn(failed, record[i].first, now)
    /\ record[i].until # 0 => BurstBefore(record[i].until)

SharedInv ==
    IF endless THEN failKey.ends = Never /\ failKey.count # 0
    ELSE /\ failKey.count # 0 =>
                /\ failKey.ends - windowDuration \in 0 .. now
                /\ failKey.count <= FailuresIn(failed, failKey.ends - windowDuration, now)
         /\ lockKey # 0 => BurstBefore(lockKey)

BurstInv == (\A i \in Guards : RecordInv(i)) /\ SharedInv

(* The numbers of the state, and their bounds.                               *)
LEMMA GuardNats ==
    ASSUME GuardTypeInv
    PROVE  /\ now \in Nat /\ now <= MaxTime /\ MaxTime \in Nat /\ now \in Times
           /\ failed \in FailureCounts /\ failed[now] \in Nat
           /\ windowDuration \in Nat /\ windowDuration > 0 /\ lockDuration \in Nat /\ lockDuration > 0
           /\ maxAttempts \in Nat /\ maxAttempts >= 2
           /\ Never \in Nat /\ now < Never
           /\ failKey.count \in Nat /\ failKey.ends \in Nat /\ lockKey \in Nat
           /\ \A i \in Guards : record[i].count \in Nat /\ record[i].first \in Nat /\ record[i].until \in Nat
  <1>1. /\ now \in Times /\ failKey \in [count : Nat, ends : Later] /\ lockKey \in Later
        /\ record \in [Guards -> [count : Nat, first : Times, until : Later]]
        /\ failed \in [Times -> 0 .. MaxFailures] /\ MaxFailures \in Nat
    BY GuardAssumption DEF GuardTypeInv, GuardTypeOK
  <1>2. /\ windowDuration \in Nat /\ windowDuration > 0 /\ lockDuration \in Nat /\ lockDuration > 0
        /\ maxAttempts \in Nat /\ maxAttempts >= 2 /\ MaxTime \in Nat
    BY GuardAssumption
  <1>3. failed \in FailureCounts
    BY <1>1 DEF FailureCounts
  <1>4. Times \subseteq Nat /\ Later \subseteq Nat /\ Never \in Nat /\ \A t \in Times : t < Never /\ t <= MaxTime
    BY <1>2 DEF Times, Later, Never
  <1>5. failKey.count \in Nat /\ failKey.ends \in Nat /\ lockKey \in Nat
    BY <1>1, <1>4
  <1>6. \A i \in Guards : record[i].count \in Nat /\ record[i].first \in Nat /\ record[i].until \in Nat
    BY <1>1, <1>4
  <1> QED
    BY <1>1, <1>2, <1>3, <1>4, <1>5, <1>6 DEF FailureCounts

LEMMA EarliestIsNat ==
    ASSUME NEW t \in Int
    PROVE  Earliest(t) \in Nat /\ t <= Earliest(t) /\ \A n \in Nat : t <= n => Earliest(t) <= n
  BY DEF Earliest

(* What is reported now is one more now.                                      *)
LEMMA ReportedSums ==
    ASSUME GuardTypeInv, NEW lock \in BOOLEAN, Reported(lock),
           NEW a \in Nat, NEW b \in Nat, a <= b, b <= now
    PROVE  /\ FailuresIn(failed, a, b) \in Nat
           /\ FailuresIn(failed', a, b) = FailuresIn(failed, a, b) + (IF b = now THEN 1 ELSE 0)
  <1>1. failed' = [failed EXCEPT ![now] = failed[now] + 1]
    BY DEF Reported
  <1>2. /\ FailuresIn(failed, a, b) \in Nat
        /\ FailuresIn(failed', a, b) = FailuresIn(failed, a, b) + (IF a <= now /\ now <= b THEN 1 ELSE 0)
    <2>1. /\ now \in Times /\ failed \in FailureCounts /\ b \in Int /\ a - 1 <= b /\ b <= MaxTime
      BY GuardNats
    <2>2. FailuresIn([failed EXCEPT ![now] = failed[now] + 1], a, b) =
             FailuresIn(failed, a, b) + (IF a <= now /\ now <= b THEN 1 ELSE 0)
      BY <2>1, SumWithOneMore
    <2>3. FailuresIn(failed, a, b) \in Nat
      BY <2>1, SumIsNat
    <2> QED
      BY <1>1, <2>2, <2>3
  <1> QED
    BY <1>2, GuardNats

LEMMA BurstsStay ==
    ASSUME GuardTypeInv, now' \in Nat, now <= now', NEW until \in Nat, BurstBefore(until),
           \/ failed' = failed
           \/ \E lock \in BOOLEAN : Reported(lock)
    PROVE  BurstBefore(until)'
  <1> DEFINE at == until - lockDuration
             from == Earliest(at - windowDuration)
  <1>1. at \in 0 .. now /\ maxAttempts <= FailuresIn(failed, from, at)
    BY DEF BurstBefore
  <1>2. at \in Nat /\ at <= now /\ from \in Nat /\ from <= at /\ at \in 0 .. now'
    BY <1>1, GuardNats, EarliestIsNat
  <1> HIDE DEF at, from
  <1>3. maxAttempts <= FailuresIn(failed', from, at)
    <2>1. CASE failed' = failed
      BY <2>1, <1>1
    <2>2. ASSUME NEW lock \in BOOLEAN, Reported(lock)
          PROVE  maxAttempts <= FailuresIn(failed', from, at)
      <3>1. /\ FailuresIn(failed, from, at) \in Nat
            /\ FailuresIn(failed', from, at) = FailuresIn(failed, from, at) + (IF at = now THEN 1 ELSE 0)
        BY <2>2, <1>2, ReportedSums
      <3> QED
        BY <3>1, <1>1, GuardNats
    <2> QED
      BY <2>1, <2>2
  <1> QED
    BY <1>2, <1>3 DEF BurstBefore, at, from

(* A count that has the failures for a lock, and whose window is not over.     *)
LEMMA BurstIsNow ==
    ASSUME GuardTypeInv, now' = now, NEW lock \in BOOLEAN, Reported(lock),
           NEW first \in Nat, first <= now, now - first <= windowDuration,
           maxAttempts <= FailuresIn(failed', first, now)
    PROVE  BurstBefore(now + lockDuration)'
  <1>1. (now + lockDuration) - lockDuration = now /\ now \in 0 .. now'
    BY GuardNats
  <1> DEFINE from == Earliest(now - windowDuration)
  <1>2. from \in Nat /\ from <= first
    BY GuardNats, EarliestIsNat
  <1> HIDE DEF from
  <1>3. failed' \in FailureCounts
    BY GuardNats DEF FailureCounts, Reported
  <1>4. FailuresIn(failed', first, now) <= FailuresIn(failed', from, now)
    BY <1>2, <1>3, GuardNats, SumFromEarlier
  <1>5. FailuresIn(failed', first, now) \in Nat /\ FailuresIn(failed', from, now) \in Nat
    BY <1>2, <1>3, GuardNats, SumIsNat
  <1>6. maxAttempts <= FailuresIn(failed', from, now)
    BY <1>4, <1>5, GuardNats
  <1> QED
    BY <1>1, <1>6 DEF BurstBefore, from

LEMMA InitBurst == GuardInit => BurstInv
  <1> SUFFICES ASSUME GuardInit
               PROVE  BurstInv
    OBVIOUS
  <1>1. \A i \in Guards : record[i] = NoRecord
    BY DEF GuardInit
  <1>2. \A i \in Guards : RecordInv(i)
    BY <1>1 DEF GuardInit, NoRecord, RecordInv
  <1> QED
    BY <1>2 DEF GuardInit, SharedInv, BurstInv

(* Time that passes, and what leaves the failures and the counts alone.       *)
LEMMA RecordStays ==
    ASSUME GuardTypeInv, NEW i \in Guards, RecordInv(i), now' \in Nat, now <= now',
           now' <= now + 1, now' <= MaxTime, record'[i] = record[i],
           \/ failed' = failed
           \/ now' = now /\ \E lock \in BOOLEAN : Reported(lock)
    PROVE  RecordInv(i)'
  <1> DEFINE r == record[i]
  <1>1. /\ r.first <= now /\ r.first \in Nat /\ r.count \in Nat /\ r.until \in Nat
        /\ r.count # 0 => r.count <= FailuresIn(failed, r.first, now)
        /\ r.until # 0 => BurstBefore(r.until)
    BY GuardNats DEF RecordInv
  <1> HIDE DEF r
  <1>2. FailuresIn(failed, r.first, now) \in Nat
    BY <1>1, GuardNats, SumIsNat
  <1>3. FailuresIn(failed, r.first, now) <= FailuresIn(failed', r.first, now')
    <2>1. CASE now' = now /\ failed' = failed
      BY <2>1, <1>2
    <2>2. CASE now' = now + 1 /\ failed' = failed
      <3>1. now' \in Times /\ failed[now'] \in Nat
        BY GuardNats DEF Times, FailureCounts
      <3>2. FailuresIn(failed, r.first, now') = failed[now'] + FailuresIn(failed, r.first, now' - 1)
        BY <1>1, <2>2, GuardNats, SumGrows
      <3>3. now' - 1 = now
        BY <2>2, GuardNats
      <3> QED
        BY <2>2, <3>1, <3>2, <3>3, <1>2
    <2>3. ASSUME now' = now, NEW lock \in BOOLEAN, Reported(lock)
          PROVE  FailuresIn(failed, r.first, now) <= FailuresIn(failed', r.first, now')
      <3>1. FailuresIn(failed', r.first, now) = FailuresIn(failed, r.first, now) + 1
        BY <2>3, <1>1, GuardNats, ReportedSums
      <3> QED
        BY <2>3, <3>1, <1>2
    <2>4. now' = now \/ now' = now + 1
      BY GuardNats
    <2> QED
      BY <2>1, <2>2, <2>3, <2>4
  <1>4. r.count # 0 => r.count <= FailuresIn(failed', r.first, now')
    <2>1. FailuresIn(failed', r.first, now') \in Nat
      <3>1. failed' \in FailureCounts
        BY GuardNats DEF FailureCounts, Reported
      <3> QED
        BY <3>1, <1>1, GuardNats, SumIsNat
    <2> QED
      BY <2>1, <1>1, <1>2, <1>3
  <1>5. r.until # 0 => BurstBefore(r.until)'
    <2> SUFFICES ASSUME r.until # 0
                 PROVE  BurstBefore(r.until)'
      OBVIOUS
    <2>1. r.until' = r.until
      BY DEF r
    <2>2. BurstBefore(r.until) /\ r.until \in Nat
      BY <1>1
    <2>3. PICK until \in Nat : until = r.until /\ until = r.until'
      BY <2>1, <2>2
    <2>4. BurstBefore(until)'
      BY <2>2, <2>3, BurstsStay
    <2> QED
      BY <2>3, <2>4 DEF BurstBefore
  <1>6. r.first <= now'
    BY <1>1, GuardNats
  <1> QED
    BY <1>4, <1>5, <1>6 DEF RecordInv, r

LEMMA ClearedRecord ==
    ASSUME GuardTypeInv, NEW i \in Guards, now' = now, record' = [record EXCEPT ![i] = NoRecord]
    PROVE  RecordInv(i)'
  <1>1. record'[i] = NoRecord /\ now' \in Nat
    BY GuardNats DEF GuardTypeInv, GuardTypeOK
  <1> QED
    BY <1>1 DEF RecordInv, NoRecord

(* A failure is added to the record of a guard, or to the count in Redis.     *)
LEMMA FailedRecord ==
    ASSUME GuardTypeInv, NEW i \in Guards, RecordInv(i), RecordFailedHere(i)
    PROVE  RecordInv(i)'
  <1> DEFINE r == Current(record[i])
             n == r.count + 1
             e == IF Locks(n) THEN now + lockDuration ELSE r.until
  <1>1. record'[i] = [r EXCEPT !.count = n, !.until = e] /\ now' = now /\ Reported(Locks(n))
    BY DEF RecordFailedHere, GuardTypeInv, GuardTypeOK
  <1>2. Locks(n) \in BOOLEAN
    BY DEF Locks
  <1>3. /\ r \in GuardRecords /\ r.count \in Nat /\ r.first \in Nat /\ r.until \in Nat
        /\ r.first <= now /\ now - r.first <= windowDuration
        /\ r.count # 0 => r.count <= FailuresIn(failed, r.first, now)
        /\ r.until # 0 => BurstBefore(r.until)
    <2>1. /\ now \in Times /\ record[i] \in GuardRecords
      BY DEF GuardTypeInv, GuardTypeOK, GuardRecords
    <2>2. CASE r = record[i] /\ ~ (record[i].count = 0 \/ now - record[i].first > windowDuration)
      BY <2>1, <2>2, GuardNats DEF RecordInv
    <2>3. CASE r = [count |-> 0, first |-> now, until |-> 0]
      <3>1. r \in GuardRecords
        BY <2>1, <2>3, GuardTimes DEF GuardRecords
      <3> QED
        BY <2>3, <3>1, GuardNats
    <2> QED
      BY <2>2, <2>3 DEF Current
  <1>4. record'[i].count = n /\ record'[i].first = r.first /\ record'[i].until = e
    BY <1>1, <1>3 DEF GuardRecords
  <1> HIDE DEF r
  <1>5. /\ FailuresIn(failed, r.first, now) \in Nat
        /\ FailuresIn(failed', r.first, now) = FailuresIn(failed, r.first, now) + 1
    BY <1>1, <1>2, <1>3, GuardNats, ReportedSums
  <1>6. n \in Nat /\ n <= FailuresIn(failed', r.first, now)
    BY <1>3, <1>5
  <1>7. e # 0 => \E u \in Nat : u = e /\ BurstBefore(u)'
    <2>1. CASE Locks(n)
      <3>1. maxAttempts <= FailuresIn(failed', r.first, now)
        BY <2>1, <1>5, <1>6, GuardNats DEF Locks
      <3>2. PICK u \in Nat : u = now + lockDuration
        BY GuardNats
      <3>3. BurstBefore(now + lockDuration)'
        BY <3>1, <1>1, <1>2, <1>3, BurstIsNow
      <3>4. BurstBefore(u)'
        BY <3>2, <3>3, <1>1 DEF BurstBefore
      <3> QED
        BY <2>1, <3>2, <3>4
    <2>2. CASE ~ Locks(n)
      <3>1. PICK u \in Nat : u = r.until
        BY <1>3
      <3>2. u # 0 => BurstBefore(u)'
        BY <3>1, <1>1, <1>2, <1>3, GuardNats, BurstsStay
      <3> QED
        BY <2>2, <3>1, <3>2
    <2> QED
      BY <2>1, <2>2
  <1> HIDE DEF e, n
  <1>8. record'[i].until # 0 => BurstBefore(record[i].until)'
    <2> SUFFICES ASSUME record'[i].until # 0
                 PROVE  BurstBefore(record[i].until)'
      OBVIOUS
    <2>1. PICK u \in Nat : u = e /\ BurstBefore(u)'
      BY <1>4, <1>7
    <2>2. record'[i].until = u
      BY <1>4, <2>1
    <2> QED
      BY <2>1, <2>2 DEF BurstBefore
  <1>9. record'[i].first <= now'
    BY <1>1, <1>3, <1>4
  <1>10. record'[i].count # 0 => record'[i].count <= FailuresIn(failed', record'[i].first, now')
    BY <1>1, <1>4, <1>6
  <1> QED
    BY <1>8, <1>9, <1>10 DEF RecordInv

LEMMA SharedStays ==
    ASSUME GuardTypeInv, SharedInv, now' \in Nat, now <= now',
           now' <= now + 1, now' <= MaxTime, UNCHANGED <<failKey, lockKey, endless>>,
           \/ failed' = failed
           \/ now' = now /\ \E lock \in BOOLEAN : Reported(lock)
    PROVE  SharedInv'
  <1> DEFINE first == failKey.ends - windowDuration
  <1>1. CASE endless
    BY <1>1 DEF SharedInv
  <1>2. CASE ~ endless
    <2>1. failKey.count # 0 =>
             first' \in 0 .. now' /\ failKey.count <= FailuresIn(failed', first', now')
      <3> SUFFICES ASSUME failKey.count # 0
                   PROVE  first \in 0 .. now' /\ failKey.count <= FailuresIn(failed', first, now')
        OBVIOUS
      <3>1. /\ first \in Nat /\ first <= now /\ failKey.count <= FailuresIn(failed, first, now)
            /\ failKey.count \in Nat
        BY <1>2, GuardNats DEF SharedInv
      <3> HIDE DEF first
      <3>2. FailuresIn(failed, first, now) \in Nat
        BY <3>1, GuardNats, SumIsNat
      <3>3. FailuresIn(failed, first, now) <= FailuresIn(failed', first, now')
        <4>1. CASE now' = now /\ failed' = failed
          BY <4>1, <3>2
        <4>2. CASE now' = now + 1 /\ failed' = failed
          <5>1. now' \in Times /\ failed[now'] \in Nat
            BY GuardNats DEF Times, FailureCounts
          <5>2. FailuresIn(failed, first, now') = failed[now'] + FailuresIn(failed, first, now' - 1)
            BY <3>1, <4>2, GuardNats, SumGrows
          <5>3. now' - 1 = now
            BY <4>2, GuardNats
          <5> QED
            BY <4>2, <5>1, <5>2, <5>3, <3>2
        <4>3. ASSUME now' = now, NEW lock \in BOOLEAN, Reported(lock)
              PROVE  FailuresIn(failed, first, now) <= FailuresIn(failed', first, now')
          <5>1. FailuresIn(failed', first, now) = FailuresIn(failed, first, now) + 1
            BY <4>3, <3>1, GuardNats, ReportedSums
          <5> QED
            BY <4>3, <5>1, <3>2
        <4>4. now' = now \/ now' = now + 1
          BY GuardNats
        <4> QED
          BY <4>1, <4>2, <4>3, <4>4
      <3>4. FailuresIn(failed', first, now') \in Nat
        <4>1. failed' \in FailureCounts
          BY GuardNats DEF FailureCounts, Reported
        <4>2. now' \in Int /\ first - 1 <= now'
          BY <3>1, GuardNats
        <4> QED
          BY <4>1, <4>2, <3>1, SumIsNat
      <3>5. first \in 0 .. now'
        BY <3>1, GuardNats
      <3>6. failKey.count <= FailuresIn(failed', first, now')
        BY <3>1, <3>2, <3>3, <3>4
      <3> QED
        BY <3>5, <3>6
    <2>2. lockKey # 0 => BurstBefore(lockKey)'
      <3> SUFFICES ASSUME lockKey # 0
                   PROVE  BurstBefore(lockKey)'
        OBVIOUS
      <3>1. PICK until \in Nat : until = lockKey
        BY GuardNats
      <3>2. BurstBefore(until)'
        BY <3>1, <1>2, BurstsStay DEF SharedInv
      <3> QED
        BY <3>1, <3>2 DEF BurstBefore
    <2> HIDE DEF first
    <2>3. (failKey.ends - windowDuration)' = failKey.ends - windowDuration /\ failKey' = failKey
          /\ lockKey' = lockKey /\ endless' = endless
      OBVIOUS
    <2> QED
      BY <1>2, <2>1, <2>2, <2>3 DEF SharedInv, first
  <1> QED
    BY <1>1, <1>2

(* A count that is over has an end, and one that goes on is within its window. *)
LEMMA CountedThere ==
    ASSUME GuardTypeInv, SharedInv
    PROVE  /\ CountThere \in Nat
           /\ CountThere # 0 => now < failKey.ends /\ CountThere = failKey.count
           /\ CountThere = 0 => ~ endless
  BY GuardNats DEF CountThere, SharedInv

LEMMA FailedThere ==
    ASSUME GuardTypeInv, SharedInv, NEW i \in Guards, RecordFailedThere(i)
    PROVE  SharedInv'
  <1>0. PICK n \in Nat : n = CountThere + 1
    BY CountedThere
  <1>b. Locks(n) \in BOOLEAN
    BY DEF Locks
  <1>1. /\ now' = now /\ Reported(Locks(n))
        /\ lockKey' = IF Locks(n) THEN now + lockDuration ELSE lockKey
        /\ \/ /\ failKey' = [count |-> n, ends |-> IF n = 1 THEN now + windowDuration ELSE failKey.ends]
              /\ endless' = IF n = 1 THEN FALSE ELSE endless
           \/ n = 1 /\ failKey' = [count |-> n, ends |-> Never] /\ endless' = TRUE
    BY <1>0 DEF RecordFailedThere
  <1>2. n \in Nat /\ n # 0
    BY <1>0, CountedThere
  <1>3. CASE endless'
    <2>1. failKey'.ends = Never /\ failKey'.count # 0
      <3>1. CASE failKey' = [count |-> n, ends |-> Never]
        BY <3>1, <1>2
      <3>2. CASE /\ failKey' = [count |-> n, ends |-> IF n = 1 THEN now + windowDuration ELSE failKey.ends]
                 /\ endless' = IF n = 1 THEN FALSE ELSE endless
        <4>1. n # 1 /\ endless
          BY <3>2, <1>3
        <4> QED
          BY <4>1, <3>2, <1>2 DEF SharedInv
      <3> QED
        BY <1>1, <3>1, <3>2
    <2> QED
      BY <1>3, <2>1 DEF SharedInv, Never
  <1>4. CASE ~ endless'
    <2> DEFINE ends == IF n = 1 THEN now + windowDuration ELSE failKey.ends
               first == ends - windowDuration
    <2>0. /\ failKey' = [count |-> n, ends |-> ends]
          /\ endless' = IF n = 1 THEN FALSE ELSE endless
      BY <1>1, <1>4
    <2>1. ~ endless /\ failKey'.count = n /\ failKey'.ends = ends
      <3>1. CASE n = 1
        BY <3>1, <2>0, <1>0, CountedThere
      <3>2. CASE n # 1
        BY <3>2, <2>0, <1>4
      <3> QED
        BY <3>1, <3>2
    <2>2. /\ first \in Nat /\ first <= now /\ now - first <= windowDuration
          /\ n # 1 => CountThere <= FailuresIn(failed, first, now)
      <3>1. CASE n = 1
        BY <3>1, GuardNats
      <3>2. CASE n # 1
        <4>1. CountThere # 0
          BY <3>2, <1>0, CountedThere
        <4>2. failKey.count # 0 /\ failKey.count = CountThere /\ now < failKey.ends
          BY <4>1, CountedThere
        <4>3. /\ failKey.ends - windowDuration \in 0 .. now
              /\ failKey.count <= FailuresIn(failed, failKey.ends - windowDuration, now)
          BY <2>1, <4>2 DEF SharedInv
        <4> QED
          BY <3>2, <4>2, <4>3, GuardNats
      <3> QED
        BY <3>1, <3>2
    <2> HIDE DEF first
    <2>3. /\ FailuresIn(failed, first, now) \in Nat
          /\ FailuresIn(failed', first, now) = FailuresIn(failed, first, now) + 1
      BY <1>1, <1>b, <2>2, GuardNats, ReportedSums
    <2>4. n <= FailuresIn(failed', first, now)
      BY <1>0, <2>2, <2>3, CountedThere
    <2>5. lockKey' # 0 => BurstBefore(lockKey)'
      <3>1. CASE Locks(n)
        <4>1. maxAttempts <= FailuresIn(failed', first, now)
          BY <3>1, <2>3, <2>4, <1>2, GuardNats DEF Locks
        <4>2. BurstBefore(now + lockDuration)'
          BY <4>1, <1>1, <1>b, <2>2, BurstIsNow
        <4> QED
          BY <3>1, <4>2, <1>1 DEF BurstBefore
      <3>2. CASE ~ Locks(n)
        <4>1. PICK until \in Nat : until = lockKey
          BY GuardNats
        <4>2. until # 0 => BurstBefore(until)'
          BY <4>1, <1>1, <1>b, <2>1, GuardNats, BurstsStay DEF SharedInv
        <4> QED
          BY <3>2, <4>1, <4>2, <1>1 DEF BurstBefore
      <3> QED
        BY <3>1, <3>2
    <2>6. failKey'.ends - windowDuration = first /\ first \in 0 .. now'
      BY <1>1, <2>1, <2>2, GuardNats DEF first
    <2> QED
      BY <1>1, <1>4, <2>1, <2>4, <2>5, <2>6 DEF SharedInv
  <1> QED
    BY <1>3, <1>4

LEMMA FailedUnlocked ==
    ASSUME GuardTypeInv, SharedInv, NEW i \in Guards, RecordFailedUnlocked(i)
    PROVE  SharedInv'
  <1>0. PICK lock \in BOOLEAN : Reported(lock)
    BY DEF RecordFailedUnlocked
  <1>1. /\ now' = now /\ lockKey' = lockKey /\ endless' = endless
        /\ failKey' = [failKey EXCEPT !.count = failKey.count + 1] /\ Locks(CountThere + 1)
    BY DEF RecordFailedUnlocked
  <1>2. CountThere # 0 /\ failKey.count # 0
    BY <1>1, CountedThere, GuardNats DEF Locks
  <1>3. failKey'.count = failKey.count + 1 /\ failKey'.ends = failKey.ends
    BY <1>1 DEF GuardTypeInv, GuardTypeOK
  <1>4. CASE endless
    BY <1>1, <1>3, <1>4, GuardNats DEF SharedInv, Never
  <1>5. CASE ~ endless
    <2> DEFINE first == failKey.ends - windowDuration
    <2>1. first \in Nat /\ first <= now /\ failKey.count <= FailuresIn(failed, first, now)
      BY <1>2, <1>5, GuardNats DEF SharedInv
    <2> HIDE DEF first
    <2>2. /\ FailuresIn(failed, first, now) \in Nat
          /\ FailuresIn(failed', first, now) = FailuresIn(failed, first, now) + 1
      BY <1>0, <1>1, <2>1, GuardNats, ReportedSums
    <2>3. failKey'.count <= FailuresIn(failed', first, now')
      BY <1>1, <1>3, <2>1, <2>2, GuardNats
    <2>4. first \in 0 .. now' /\ failKey'.ends - windowDuration = first
      BY <1>1, <1>3, <2>1, GuardNats DEF first
    <2>5. PICK until \in Nat : until = lockKey
      BY GuardNats
    <2>6. until # 0 => BurstBefore(until)'
      BY <2>5, <1>0, <1>1, <1>5, GuardNats, BurstsStay DEF SharedInv
    <2>7. lockKey' # 0 => BurstBefore(lockKey)'
      BY <2>5, <2>6, <1>1 DEF BurstBefore
    <2> QED
      BY <1>1, <1>5, <2>3, <2>4, <2>7 DEF SharedInv
  <1> QED
    BY <1>4, <1>5

(* Every step keeps counts and locks to failures that were recorded.          *)
LEMMA StepBurst ==
    ASSUME GuardTypeInv, BurstInv, [GuardNext]_guardVars
    PROVE  BurstInv'
  <1>a. /\ now \in Nat /\ now <= MaxTime /\ record \in [Guards -> GuardRecords]
        /\ \A i \in Guards : RecordInv(i)
        /\ SharedInv
    BY GuardNats DEF BurstInv, GuardTypeInv, GuardTypeOK, GuardRecords
  <1>1. ASSUME now' = now, failed' = failed, record' = record, UNCHANGED <<failKey, lockKey, endless>>
        PROVE  BurstInv'
    BY <1>1, <1>a, RecordStays, SharedStays DEF BurstInv
  <1>2. CASE TickGuard
    <2>1. /\ now' \in Nat /\ now <= now' /\ now' <= now + 1 /\ now' <= MaxTime /\ failed' = failed
          /\ record' = record /\ UNCHANGED <<failKey, lockKey, endless>>
      BY <1>2, GuardNats DEF TickGuard
    <2> QED
      BY <2>1, <1>a, RecordStays, SharedStays DEF BurstInv
  <1>3. ASSUME NEW i \in Guards, CheckHere(i) \/ CheckThere(i) \/ ReportNothing(i)
        PROVE  BurstInv'
    BY <1>1, <1>3 DEF CheckHere, CheckThere, ReportNothing
  <1>4. ASSUME NEW i \in Guards, RecordFailedHere(i)
        PROVE  BurstInv'
    <2>1. PICK lock \in BOOLEAN : Reported(lock)
      <3>1. Reported(Locks(Current(record[i]).count + 1))
        BY <1>4 DEF RecordFailedHere
      <3>2. Locks(Current(record[i]).count + 1) \in BOOLEAN
        BY DEF Locks
      <3> QED
        BY <3>1, <3>2
    <2>2. /\ now' = now /\ UNCHANGED <<failKey, lockKey, endless>>
          /\ \A j \in Guards \ {i} : record'[j] = record[j]
      BY <1>4, <1>a DEF RecordFailedHere
    <2>3. \A j \in Guards \ {i} : RecordInv(j)'
      BY <1>a, <2>1, <2>2, RecordStays
    <2>4. RecordInv(i)'
      BY <1>4, <1>a, FailedRecord
    <2>5. SharedInv'
      BY <1>a, <2>1, <2>2, SharedStays
    <2> QED
      BY <2>3, <2>4, <2>5 DEF BurstInv
  <1>5. ASSUME NEW i \in Guards, RecordFailedThere(i) \/ RecordFailedUnlocked(i)
        PROVE  BurstInv'
    <2>1. PICK lock \in BOOLEAN : Reported(lock)
      <3>1. Reported(Locks(CountThere + 1)) \/ Reported(TRUE)
        BY <1>5 DEF RecordFailedThere, RecordFailedUnlocked
      <3>2. Locks(CountThere + 1) \in BOOLEAN
        BY DEF Locks
      <3> QED
        BY <3>1, <3>2
    <2>2. now' = now /\ record' = record
      BY <1>5 DEF RecordFailedThere, RecordFailedUnlocked
    <2>3. \A j \in Guards : RecordInv(j)'
      BY <1>a, <2>1, <2>2, RecordStays
    <2>4. SharedInv'
      BY <1>5, <1>a, FailedThere, FailedUnlocked
    <2> QED
      BY <2>3, <2>4 DEF BurstInv
  <1>6. ASSUME NEW i \in Guards, RecordSuccess(i)
        PROVE  BurstInv'
    <2>1. /\ now' = now /\ failed' = failed /\ record' = [record EXCEPT ![i] = NoRecord]
          /\ \/ failKey' = [count |-> 0, ends |-> 0] /\ lockKey' = 0 /\ endless' = FALSE
             \/ UNCHANGED <<failKey, lockKey, endless>>
      BY <1>6 DEF RecordSuccess
    <2>2. \A j \in Guards \ {i} : record'[j] = record[j]
      BY <2>1, <1>a
    <2>3. \A j \in Guards \ {i} : RecordInv(j)'
      BY <1>a, <2>1, <2>2, RecordStays
    <2>4. RecordInv(i)'
      BY <2>1, ClearedRecord
    <2>5. SharedInv'
      <3>1. CASE failKey' = [count |-> 0, ends |-> 0] /\ lockKey' = 0 /\ endless' = FALSE
        BY <3>1 DEF SharedInv
      <3>2. CASE UNCHANGED <<failKey, lockKey, endless>>
        BY <3>2, <1>a, <2>1, SharedStays
      <3> QED
        BY <2>1, <3>1, <3>2
    <2> QED
      BY <2>3, <2>4, <2>5 DEF BurstInv
  <1>7. ASSUME NEW i \in Guards, CleanUp(i)
        PROVE  BurstInv'
    <2>1. /\ now' = now /\ failed' = failed /\ record' = [record EXCEPT ![i] = NoRecord]
          /\ UNCHANGED <<failKey, lockKey, endless>>
      BY <1>7 DEF CleanUp
    <2>2. \A j \in Guards \ {i} : record'[j] = record[j]
      BY <2>1, <1>a
    <2>3. \A j \in Guards \ {i} : RecordInv(j)'
      BY <1>a, <2>1, <2>2, RecordStays
    <2>4. RecordInv(i)'
      BY <2>1, ClearedRecord
    <2>5. SharedInv'
      BY <1>a, <2>1, SharedStays
    <2> QED
      BY <2>3, <2>4, <2>5 DEF BurstInv
  <1>8. CASE UNCHANGED guardVars
    BY <1>1, <1>8 DEF guardVars
  <1> QED
    BY <1>2, <1>3, <1>4, <1>5, <1>6, <1>7, <1>8 DEF GuardNext

(* A lock that is in force has its failures in the window before it.          *)
LEMMA BurstsLock == GuardTypeInv /\ BurstInv => LockImpliesBurst
  <1> SUFFICES ASSUME GuardTypeInv, BurstInv,
                      NEW until \in {record[i].until : i \in Guards} \cup {lockKey},
                      now < until, ~ endless
               PROVE  LET at == until - lockDuration
                      IN  FailuresIn(failed, Earliest(at - windowDuration), at) >= maxAttempts
    BY DEF LockImpliesBurst
  <1>1. until \in Nat /\ until # 0
    BY GuardNats
  <1>2. BurstBefore(until)
    BY <1>1 DEF BurstInv, RecordInv, SharedInv
  <1> DEFINE at == until - lockDuration
  <1>3. at \in Nat /\ at <= now /\ maxAttempts <= FailuresIn(failed, Earliest(at - windowDuration), at)
    BY <1>2, GuardNats DEF BurstBefore
  <1>4. Earliest(at - windowDuration) \in Nat /\ Earliest(at - windowDuration) <= at
    BY <1>3, GuardNats, EarliestIsNat
  <1> HIDE DEF at
  <1>5. FailuresIn(failed, Earliest(at - windowDuration), at) \in Nat
    BY <1>3, <1>4, GuardNats, SumIsNat
  <1>6. FailuresIn(failed, Earliest(at - windowDuration), at) >= maxAttempts
    BY <1>3, <1>5, GuardNats
  <1> QED
    BY <1>6 DEF at

---------------------------------------------------------------------------------
(* A ledger of the failures that met no lock: who counted each, in which      *)
(* count and as which number of it.                                          *)

(* What counts: the memory of a guard, or Redis.                              *)
Redis    == CHOOSE x : x \notin Guards
Counters == Guards \cup {Redis}

(* An admitted failure: who counted it, when, since when, and as which one.    *)
LedgerEntries == [by : Counters, at : Times, first : Times, n : 1 .. maxAttempts - 1]

EntriesAt(E, t) == {e \in E : e.at = t}

(* A count has each number once, and ends before the next begins, which is a    *)
(* window later at least.                                                     *)
CountsApart(E) ==
    \A e, f \in E : e.by = f.by =>
        /\ e.first = f.first /\ e.n = f.n => e = f
        /\ e.first < f.first => e.at < f.first /\ e.first + windowDuration <= f.first

KeptHere(E, i) ==
    \A e \in E : e.by = i =>
        /\ e.at <= e.first + windowDuration
        /\ IF record[i].count = 0 THEN e.first + windowDuration < now
           ELSE \/ e.first = record[i].first /\ e.n <= record[i].count
                \/ e.first + windowDuration < record[i].first

(* g is when the count in Redis began.                                        *)
KeptThere(E, g) ==
    /\ g <= now
    /\ ~ endless /\ failKey.count # 0 => failKey.ends = g + windowDuration
    /\ \A e \in E : e.by = Redis =>
        /\ failKey.count # 0
        /\ \/ e.first = g /\ e.n <= failKey.count
           \/ e.first + windowDuration <= g /\ e.at < g
        /\ ~ endless => e.at < failKey.ends

IsLedger(E, g) ==
    /\ \A t \in Times : admitted[t] = Cardinality(EntriesAt(E, t))
    /\ \A e \in E : e.first <= e.at /\ e.at <= now
    /\ CountsApart(E)
    /\ \A i \in Guards : KeptHere(E, i)
    /\ KeptThere(E, g)
    /\ IF withRedis THEN Cardinality({e \in E : e.by # Redis}) <= errors
       ELSE \A e \in E : e.by # Redis

LedgerInv ==
    \E E \in SUBSET LedgerEntries, g \in Times : IsFiniteSet(E) /\ IsLedger(E, g)

LEMMA RedisIsNoGuard == Redis \notin Guards
  BY NoSetContainsEverything DEF Redis

LEMMA EntryFields ==
    ASSUME NEW e \in LedgerEntries
    PROVE  /\ e.at \in Nat /\ e.at \in Times /\ e.first \in Nat /\ e.n \in Nat /\ e.n >= 1
           /\ e.n < maxAttempts /\ e.by \in Counters /\ e.first \in Times
  BY GuardAssumption DEF LedgerEntries, Times

(* The ledger begins empty, and a success empties it.                        *)
LEMMA NoEntries ==
    ASSUME GuardTypeInv, admitted = [t \in Times |-> 0], NEW g \in Times, g <= now,
           ~ endless /\ failKey.count # 0 => failKey.ends = g + windowDuration
    PROVE  LedgerInv
  <1>1. \A t \in Times : EntriesAt({}, t) = {}
    BY DEF EntriesAt
  <1>2. IsFiniteSet({}) /\ Cardinality({}) = 0
    BY FS_EmptySet
  <1>3. {e \in {} : e.by # Redis} = {}
    OBVIOUS
  <1>4. 0 <= errors
    BY GuardAssumption DEF GuardTypeInv, GuardTypeOK
  <1>5. IsLedger({}, g)
    BY <1>1, <1>2, <1>3, <1>4 DEF IsLedger, CountsApart, KeptHere, KeptThere
  <1> QED
    BY <1>2, <1>5 DEF LedgerInv

LEMMA InitLedger == GuardInit => LedgerInv
  <1> SUFFICES ASSUME GuardInit
               PROVE  LedgerInv
    OBVIOUS
  <1>1. GuardTypeInv
    BY InitGuard
  <1>2. 0 \in Times /\ 0 <= now /\ failKey.count = 0 /\ admitted = [t \in Times |-> 0]
    BY GuardAssumption DEF GuardInit, Times
  <1> QED
    BY <1>1, <1>2, NoEntries

(* No failure is admitted: the ledger is as it was.                          *)
LEMMA LedgerStays ==
    ASSUME GuardTypeInv, NEW E \in SUBSET LedgerEntries, NEW g \in Times, IsFiniteSet(E), IsLedger(E, g),
           NEW h \in Times, now <= now', now' \in Nat, admitted' = admitted, withRedis' = withRedis,
           errors \in Nat, errors' \in Nat, errors <= errors',
           \A i \in Guards : KeptHere(E, i)', KeptThere(E, h)'
    PROVE  LedgerInv'
  <1>1. \A t \in Times : admitted'[t] = Cardinality(EntriesAt(E, t))
    BY DEF IsLedger
  <1>2. \A e \in E : e.first <= e.at /\ e.at <= now'
    BY EntryFields, GuardNats DEF IsLedger
  <1>3. CountsApart(E)
    BY DEF IsLedger
  <1>4. IF withRedis' THEN Cardinality({e \in E : e.by # Redis}) <= errors'
        ELSE \A e \in E : e.by # Redis
    <2>1. CASE withRedis
      <3>1. Cardinality({e \in E : e.by # Redis}) <= errors
        BY <2>1 DEF IsLedger
      <3>2. {e \in E : e.by # Redis} \in SUBSET E
        OBVIOUS
      <3>3. Cardinality({e \in E : e.by # Redis}) \in Nat
        BY <3>2, FS_Subset, FS_CardinalityType
      <3> QED
        BY <2>1, <3>1, <3>3
    <2>2. CASE ~ withRedis
      BY <2>2 DEF IsLedger
    <2> QED
      BY <2>1, <2>2
  <1>5. IsLedger(E, h)'
    BY <1>1, <1>2, <1>3, <1>4 DEF IsLedger, EntriesAt, CountsApart, Redis
  <1> QED
    BY <1>5 DEF LedgerInv, LedgerEntries, Counters, Redis, Times

LEMMA KeptHereStays ==
    ASSUME GuardTypeInv, NEW E \in SUBSET LedgerEntries, NEW i \in Guards, KeptHere(E, i),
           record'[i] = record[i], now' \in Nat, now <= now'
    PROVE  KeptHere(E, i)'
  <1>1. \A e \in E : e.first + windowDuration \in Nat
    BY EntryFields, GuardNats
  <1> QED
    BY <1>1, GuardNats DEF KeptHere

LEMMA KeptThereStays ==
    ASSUME GuardTypeInv, NEW E \in SUBSET LedgerEntries, NEW g \in Times, KeptThere(E, g),
           UNCHANGED <<failKey, endless>>, now' \in Nat, now <= now'
    PROVE  KeptThere(E, g)'
  <1>1. g \in Nat
    BY GuardAssumption DEF Times
  <1> QED
    BY <1>1, GuardNats DEF KeptThere, Redis

(* One more entry, now.                                                      *)
LEMMA LedgerGrows ==
    ASSUME GuardTypeInv, NEW E \in SUBSET LedgerEntries, NEW g \in Times, IsFiniteSet(E), IsLedger(E, g),
           NEW h \in Times, NEW x \in LedgerEntries, x \notin E, x.at = now, x.first <= now,
           now' = now, Reported(FALSE), withRedis' = withRedis,
           CountsApart(E \cup {x}),
           \A i \in Guards : KeptHere(E \cup {x}, i)', KeptThere(E \cup {x}, h)',
           errors \in Nat, errors' \in Nat, errors <= errors',
           IF withRedis THEN x.by = Redis \/ errors' = errors + 1 ELSE x.by # Redis
    PROVE  LedgerInv'
  <1> DEFINE F == E \cup {x}
  <1>0. IsFiniteSet(F) /\ F \in SUBSET LedgerEntries
    BY FS_AddElement
  <1>1. \A t \in Times : admitted'[t] = Cardinality(EntriesAt(F, t))
    <2> SUFFICES ASSUME NEW t \in Times
                 PROVE  admitted'[t] = Cardinality(EntriesAt(F, t))
      OBVIOUS
    <2>1. admitted' = [admitted EXCEPT ![now] = admitted[now] + 1] /\ admitted \in [Times -> Nat] /\ now \in Times
      BY GuardNats DEF Reported, GuardTypeInv
    <2>2. admitted[t] = Cardinality(EntriesAt(E, t))
      BY DEF IsLedger
    <2>3. IsFiniteSet(EntriesAt(E, t)) /\ x \notin EntriesAt(E, t)
      BY FS_Subset DEF EntriesAt
    <2>4. CASE t = now
      <3>1. EntriesAt(F, t) = EntriesAt(E, t) \cup {x}
        BY <2>4 DEF EntriesAt
      <3>2. Cardinality(EntriesAt(F, t)) = Cardinality(EntriesAt(E, t)) + 1
        BY <3>1, <2>3, FS_AddElement
      <3> QED
        BY <3>2, <2>1, <2>2, <2>4
    <2>5. CASE t # now
      <3>1. EntriesAt(F, t) = EntriesAt(E, t)
        BY <2>5 DEF EntriesAt
      <3> QED
        BY <3>1, <2>1, <2>2, <2>5
    <2> QED
      BY <2>4, <2>5
  <1>2. \A e \in F : e.first <= e.at /\ e.at <= now'
    BY EntryFields, GuardNats DEF IsLedger
  <1>3. CountsApart(F)
    OBVIOUS
  <1>4. IF withRedis' THEN Cardinality({e \in F : e.by # Redis}) <= errors'
        ELSE \A e \in F : e.by # Redis
    <2>1. CASE withRedis
      <3> DEFINE M == {e \in E : e.by # Redis}
                 Q == {e \in F : e.by # Redis}
      <3>1. Cardinality(M) <= errors /\ M \in SUBSET E
        BY <2>1 DEF IsLedger
      <3>a. (x.by = Redis => Q = M) /\ (x.by # Redis => Q = M \cup {x})
        OBVIOUS
      <3> HIDE DEF M, F
      <3>2. IsFiniteSet(M) /\ Cardinality(M) \in Nat
        BY <3>1, FS_Subset, FS_CardinalityType
      <3>b. Cardinality(Q) <= errors'
        <4> HIDE DEF Q
        <4>1. CASE x.by = Redis
          <5>1. Cardinality(Q) <= errors
            BY <4>1, <3>1, <3>a
          <5>2. Cardinality(Q) \in Nat
            BY <4>1, <3>2, <3>a
          <5> QED
            BY <5>1, <5>2
        <4>2. CASE x.by # Redis
          <5>1. Cardinality(M \cup {x}) \in Nat /\ Cardinality(M \cup {x}) <= Cardinality(M) + 1
            <6>1. Cardinality(M \cup {x}) = IF x \in M THEN Cardinality(M) ELSE Cardinality(M) + 1
              BY <3>2, FS_AddElement
            <6> QED
              BY <3>2, <6>1
          <5>2. errors' = errors + 1
            BY <2>1, <4>2
          <5>3. Q = M \cup {x}
            BY <4>2, <3>a
          <5> QED
            BY <5>1, <5>2, <5>3, <3>1, <3>2
        <4> QED
          BY <4>1, <4>2
      <3>c. withRedis'
        BY <2>1
      <3> QED
        BY <3>b, <3>c
    <2>2. CASE ~ withRedis
      BY <2>2 DEF IsLedger
    <2> QED
      BY <2>1, <2>2
  <1> HIDE DEF F
  <1>5. (\A i \in Guards : KeptHere(F, i)') /\ KeptThere(F, h)'
    BY DEF F
  <1>6. IsLedger(F, h)'
    BY <1>1, <1>2, <1>3, <1>4, <1>5 DEF IsLedger, EntriesAt, CountsApart, Redis
  <1> QED
    BY <1>0, <1>6 DEF LedgerInv, LedgerEntries, Counters, Redis, Times

(* An entry that is later than all of its counter.                            *)
LEMMA LaterEntry ==
    ASSUME NEW E \in SUBSET LedgerEntries, CountsApart(E), NEW x \in LedgerEntries,
           \A e \in E : e.by = x.by =>
               \/ e.first = x.first /\ e.n < x.n
               \/ e.first + windowDuration <= x.first /\ e.at < x.first
    PROVE  CountsApart(E \cup {x}) /\ x \notin E
  <1>1. windowDuration \in Nat /\ windowDuration > 0
    BY GuardAssumption
  <1>2. x.first \in Nat /\ x.n \in Nat /\ \A e \in E : e.first \in Nat /\ e.n \in Nat /\ e.at \in Nat
    BY EntryFields
  <1>3. x \notin E
    BY <1>1, <1>2
  <1>4. ASSUME NEW e \in E, e.by = x.by
        PROVE  /\ ~ (e.first = x.first /\ e.n = x.n) /\ ~ (x.first < e.first)
               /\ e.first < x.first => e.at < x.first /\ e.first + windowDuration <= x.first
    BY <1>1, <1>2, <1>4
  <1>5. ~ (x.first < x.first)
    BY <1>2
  <1> QED
    BY <1>3, <1>4, <1>5 DEF CountsApart

(* What the record of a guard says of the ledger when a failure is added to it. *)
LEMMA CurrentKept ==
    ASSUME GuardTypeInv, NEW E \in SUBSET LedgerEntries, NEW i \in Guards, KeptHere(E, i), RecordInv(i)
    PROVE  LET r == Current(record[i]) IN
           /\ r.count \in Nat /\ r.first \in Times /\ r.first <= now /\ now - r.first <= windowDuration
           /\ \A e \in E : e.by = i =>
                 /\ e.at <= e.first + windowDuration
                 /\ \/ e.first = r.first /\ e.n <= r.count
                    \/ e.first + windowDuration < r.first
  <1> DEFINE r == Current(record[i])
  <1>1. /\ record[i].count \in Nat /\ record[i].first \in Nat /\ record[i].first <= now /\ now \in Nat
        /\ windowDuration \in Nat /\ now \in Times
    BY GuardNats DEF RecordInv
  <1>2. record[i].first \in Times
    BY DEF GuardTypeInv, GuardTypeOK
  <1>3. \A e \in E : e.first \in Nat
    BY EntryFields
  <1>4. CASE record[i].count = 0 \/ now - record[i].first > windowDuration
    <2>1. r.count = 0 /\ r.first = now
      BY <1>4 DEF Current
    <2>2. \A e \in E : e.by = i => e.at <= e.first + windowDuration /\ e.first + windowDuration < now
      BY <1>1, <1>3, <1>4 DEF KeptHere
    <2> QED
      BY <1>1, <2>1, <2>2
  <1>5. CASE ~ (record[i].count = 0 \/ now - record[i].first > windowDuration)
    <2>1. r = record[i]
      BY <1>5 DEF Current
    <2> QED
      BY <1>1, <1>2, <1>5, <2>1 DEF KeptHere
  <1> QED
    BY <1>4, <1>5

(* The steps, by what they write in the ledger.                              *)
LEMMA LedgerFailedHere ==
    ASSUME GuardTypeInv, NEW E \in SUBSET LedgerEntries, NEW g \in Times, IsFiniteSet(E), IsLedger(E, g),
           NEW i \in Guards, RecordInv(i), RecordFailedHere(i), withRedis' = withRedis,
           errors \in Nat
    PROVE  LedgerInv'
  <1> DEFINE r == Current(record[i])
  <1>1. /\ r.count \in Nat /\ r.first \in Times /\ r.first <= now /\ now - r.first <= windowDuration
        /\ \A e \in E : e.by = i =>
              /\ e.at <= e.first + windowDuration
              /\ \/ e.first = r.first /\ e.n <= r.count
                 \/ e.first + windowDuration < r.first
    <2>1. KeptHere(E, i)
      BY DEF IsLedger
    <2> QED
      BY <2>1, CurrentKept
  <1>2. PICK n \in Nat : n = r.count + 1
    BY <1>1
  <1>3. /\ record' = [record EXCEPT ![i] =
               [r EXCEPT !.count = n, !.until = IF Locks(n) THEN now + lockDuration ELSE r.until]]
        /\ Reported(Locks(n)) /\ now' = now /\ UNCHANGED <<failKey, lockKey, endless>>
        /\ AskMemory
    BY <1>2 DEF RecordFailedHere
  <1>4. /\ record'[i].count = n /\ record'[i].first = r.first
        /\ \A j \in Guards \ {i} : record'[j] = record[j]
    <2>1. record \in [Guards -> GuardRecords] /\ r \in GuardRecords
      <3>1. record \in [Guards -> GuardRecords] /\ now \in Times
        BY DEF GuardTypeInv, GuardTypeOK, GuardRecords
      <3> QED
        BY <3>1, GuardTimes DEF Current, GuardRecords
    <2> HIDE DEF r
    <2> QED
      BY <1>3, <2>1 DEF GuardRecords
  <1>5. PICK first \in Times : first = r.first
    BY <1>1
  <1> HIDE DEF r
  <1>6. /\ first \in Nat /\ now \in Nat /\ now' \in Nat /\ now \in Times /\ windowDuration \in Nat
        /\ windowDuration > 0 /\ first <= now /\ now <= first + windowDuration
        /\ r.count \in Nat /\ maxAttempts \in Nat
    BY <1>1, <1>3, <1>5, GuardNats DEF Times
  <1>7. errors' \in Nat /\ errors <= errors' /\ (withRedis => errors' = errors + 1)
    BY <1>3 DEF AskMemory, Error
  <1>8. \A e \in E : /\ e.first \in Nat /\ e.at \in Nat /\ e.n \in Nat
                     /\ e.first + windowDuration \in Nat
    BY <1>6, EntryFields
  <1>9. KeptThere(E, g)'
    <2>1. KeptThere(E, g)
      BY DEF IsLedger
    <2> QED
      BY <2>1, <1>3, <1>6, KeptThereStays
  <1>10. \A j \in Guards \ {i} : KeptHere(E, j)'
    <2>1. \A j \in Guards : KeptHere(E, j)
      BY DEF IsLedger
    <2> QED
      BY <2>1, <1>3, <1>4, <1>6, KeptHereStays
  <1>11. KeptHere(E, i)'
    <2> SUFFICES ASSUME NEW e \in E, e.by = i
                 PROVE  /\ e.at <= e.first + windowDuration
                        /\ \/ e.first = record'[i].first /\ e.n <= record'[i].count
                           \/ e.first + windowDuration < record'[i].first
      BY <1>2, <1>4, <1>6 DEF KeptHere
    <2> QED
      BY <1>1, <1>2, <1>4, <1>6, <1>8
  <1>12. CASE Locks(n)
    <2>1. admitted' = admitted
      BY <1>12, <1>3 DEF Reported, GuardTypeInv
    <2>2. \A j \in Guards : KeptHere(E, j)'
      BY <1>10, <1>11
    <2> QED
      BY <2>1, <2>2, <1>3, <1>6, <1>7, <1>9, LedgerStays
  <1>13. CASE ~ Locks(n)
    <2>1. n \in 1 .. maxAttempts - 1 /\ i \in Counters /\ i # Redis
      BY <1>13, <1>2, <1>6, RedisIsNoGuard DEF Locks, Counters
    <2>2. PICK x \in LedgerEntries : x = [by |-> i, at |-> now, first |-> first, n |-> n]
      BY <2>1, <1>6 DEF LedgerEntries
    <2>3. x.by = i /\ x.at = now /\ x.first = first /\ x.n = n
      BY <2>2
    <2>4. CountsApart(E \cup {x}) /\ x \notin E
      <3>1. \A e \in E : e.by = x.by =>
               \/ e.first = x.first /\ e.n < x.n
               \/ e.first + windowDuration <= x.first /\ e.at < x.first
        BY <2>3, <1>1, <1>2, <1>5, <1>6, <1>8
      <3> QED
        BY <3>1, LaterEntry DEF IsLedger
    <2>5. \A j \in Guards : KeptHere(E \cup {x}, j)'
      <3>1. ASSUME NEW j \in Guards \ {i}
            PROVE  KeptHere(E \cup {x}, j)'
        BY <1>10, <2>3 DEF KeptHere
      <3>2. KeptHere(E \cup {x}, i)'
        <4>1. /\ x.at <= x.first + windowDuration
              /\ x.first = record'[i].first /\ x.n <= record'[i].count /\ record'[i].count # 0
          BY <2>3, <1>2, <1>4, <1>5, <1>6
        <4> QED
          BY <4>1, <1>11 DEF KeptHere
      <3> QED
        BY <3>1, <3>2
    <2>6. KeptThere(E \cup {x}, g)'
      BY <1>9, <2>1, <2>3 DEF KeptThere, Redis
    <2>7. Reported(FALSE)
      <3>1. Locks(n) = FALSE
        BY <1>13 DEF Locks
      <3> QED
        BY <3>1, <1>3
    <2>8. IF withRedis THEN x.by = Redis \/ errors' = errors + 1 ELSE x.by # Redis
      BY <1>7, <2>1, <2>3
    <2> QED
      BY <2>3, <2>4, <2>5, <2>6, <2>7, <2>8, <1>3, <1>6, <1>7, LedgerGrows
  <1> QED
    BY <1>12, <1>13

LEMMA LedgerFailedThere ==
    ASSUME GuardTypeInv, SharedInv,
           NEW E \in SUBSET LedgerEntries, NEW g \in Times, IsFiniteSet(E), IsLedger(E, g),
           NEW i \in Guards, RecordFailedThere(i), withRedis' = withRedis, errors \in Nat
    PROVE  LedgerInv'
  <1>1. PICK n \in Nat : n = CountThere + 1
    BY CountedThere
  <1>2. /\ now' = now /\ record' = record /\ withRedis /\ Reported(Locks(n))
        /\ \/ /\ failKey' = [count |-> n, ends |-> IF n = 1 THEN now + windowDuration ELSE failKey.ends]
              /\ endless' = IF n = 1 THEN FALSE ELSE endless
              /\ UNCHANGED errors
           \/ /\ n = 1 /\ Error
              /\ failKey' = [count |-> n, ends |-> Never]
              /\ endless' = TRUE
    BY <1>1 DEF RecordFailedThere
  <1>3. /\ now \in Nat /\ now' \in Nat /\ now \in Times /\ windowDuration \in Nat /\ windowDuration > 0
        /\ maxAttempts \in Nat /\ maxAttempts >= 2 /\ g \in Nat
        /\ failKey.count \in Nat /\ failKey.ends \in Nat
    BY <1>2, GuardNats DEF Times
  <1>4. errors' \in Nat /\ errors <= errors'
    <2>1. errors' = errors \/ Error
      BY <1>2
    <2> QED
      BY <2>1 DEF Error
  <1>5. /\ g <= now
        /\ ~ endless /\ failKey.count # 0 => failKey.ends = g + windowDuration
        /\ \A e \in E : e.by = Redis =>
             /\ failKey.count # 0
             /\ \/ e.first = g /\ e.n <= failKey.count
                \/ e.first + windowDuration <= g /\ e.at < g
             /\ ~ endless => e.at < failKey.ends
    BY DEF IsLedger, KeptThere
  <1>6. \A e \in E : e.first \in Nat /\ e.at \in Nat /\ e.n \in Nat
    BY EntryFields
  <1>7. \A j \in Guards : KeptHere(E, j)'
    BY <1>2, <1>3, KeptHereStays DEF IsLedger
  <1>8. PICK h \in Times : h = IF CountThere = 0 THEN now ELSE g
    BY <1>3
  <1>9. /\ h \in Nat /\ h <= now
        /\ n # 1 => h = g /\ failKey.count = n - 1 /\ now < failKey.ends
        /\ n = 1 => h = now /\ ~ endless /\ (failKey.count # 0 => failKey.ends <= now)
    <2>1. CASE CountThere = 0
      <3>1. failKey.count # 0 => failKey.ends <= now
        BY <2>1, <1>3 DEF CountThere
      <3> QED
        BY <2>1, <3>1, <1>1, <1>3, <1>8, CountedThere
    <2>2. CASE CountThere # 0
      BY <2>2, <1>1, <1>3, <1>5, <1>8, CountedThere
    <2> QED
      BY <2>1, <2>2
  <1>10. \A e \in E : e.by = Redis =>
           \/ e.first = h /\ e.n < n /\ n # 1
           \/ e.first + windowDuration <= h /\ e.at < h
    <2> SUFFICES ASSUME NEW e \in E, e.by = Redis
                 PROVE  \/ e.first = h /\ e.n < n /\ n # 1
                        \/ e.first + windowDuration <= h /\ e.at < h
      OBVIOUS
    <2>1. CASE n = 1
      <3>1. failKey.ends = g + windowDuration /\ failKey.ends <= now /\ e.at < failKey.ends /\ h = now
        BY <2>1, <1>5, <1>9
      <3> QED
        BY <3>1, <1>3, <1>5, <1>6
    <2>2. CASE n # 1
      BY <2>2, <1>3, <1>5, <1>6, <1>9
    <2> QED
      BY <2>1, <2>2
  <1>11. /\ failKey'.count = n /\ n # 0
         /\ ~ endless' => failKey'.ends = h + windowDuration /\ now < failKey'.ends
    <2>0. n # 0
      BY <1>1, <1>3, CountedThere
    <2>1. CASE n = 1 /\ failKey' = [count |-> n, ends |-> Never] /\ endless' = TRUE
      BY <2>0, <2>1
    <2>2. CASE n = 1 /\ failKey' = [count |-> n, ends |-> now + windowDuration]
      BY <2>0, <2>2, <1>3, <1>9
    <2>3. CASE n # 1 /\ failKey' = [count |-> n, ends |-> failKey.ends] /\ endless' = endless
      <3>1. failKey.count # 0
        BY <2>0, <2>3, <1>3, <1>9
      <3> QED
        BY <2>0, <2>3, <3>1, <1>3, <1>5, <1>9
    <2> QED
      BY <1>2, <2>1, <2>2, <2>3
  <1>12. KeptThere(E, h)'
    <2> SUFFICES /\ h <= now'
                 /\ ~ endless' /\ failKey'.count # 0 => failKey'.ends = h + windowDuration
                 /\ \A e \in E : e.by = Redis =>
                      /\ failKey'.count # 0
                      /\ \/ e.first = h /\ e.n <= failKey'.count
                         \/ e.first + windowDuration <= h /\ e.at < h
                      /\ ~ endless' => e.at < failKey'.ends
      BY DEF KeptThere, Redis
    <2>1. \A e \in E : e.at <= now
      BY DEF IsLedger
    <2> QED
      BY <2>1, <1>2, <1>3, <1>6, <1>9, <1>10, <1>11
  <1>13. CASE Locks(n)
    <2>1. admitted' = admitted
      BY <1>13, <1>2 DEF Reported, GuardTypeInv
    <2> QED
      BY <2>1, <1>2, <1>3, <1>4, <1>7, <1>12, LedgerStays
  <1>14. CASE ~ Locks(n)
    <2>1. n \in 1 .. maxAttempts - 1 /\ Redis \in Counters
      BY <1>14, <1>3, <1>11 DEF Locks, Counters
    <2>2. PICK x \in LedgerEntries : x = [by |-> Redis, at |-> now, first |-> h, n |-> n]
      BY <2>1, <1>3 DEF LedgerEntries
    <2>3. x.by = Redis /\ x.at = now /\ x.first = h /\ x.n = n
      BY <2>2
    <2>4. CountsApart(E \cup {x}) /\ x \notin E
      <3>1. \A e \in E : e.by = x.by =>
               \/ e.first = x.first /\ e.n < x.n
               \/ e.first + windowDuration <= x.first /\ e.at < x.first
        BY <2>3, <1>10
      <3> QED
        BY <3>1, LaterEntry DEF IsLedger
    <2>5. \A j \in Guards : KeptHere(E \cup {x}, j)'
      BY <1>7, <2>3, RedisIsNoGuard DEF KeptHere
    <2>6. KeptThere(E \cup {x}, h)'
      <3>1. failKey'.count # 0 /\ x.n <= failKey'.count /\ (~ endless' => x.at < failKey'.ends)
        BY <2>3, <1>11, <1>3
      <3> QED
        BY <1>12, <2>3, <3>1 DEF KeptThere, Redis
    <2>7. Reported(FALSE)
      <3>1. Locks(n) = FALSE
        BY <1>14 DEF Locks
      <3> QED
        BY <3>1, <1>2
    <2>8. x.first <= now
      BY <2>3, <1>9
    <2> QED
      BY <2>3, <2>4, <2>5, <2>6, <2>7, <2>8, <1>2, <1>3, <1>4, LedgerGrows
  <1> QED
    BY <1>13, <1>14

LEMMA LedgerFailedUnlocked ==
    ASSUME GuardTypeInv, SharedInv,
           NEW E \in SUBSET LedgerEntries, NEW g \in Times, IsFiniteSet(E), IsLedger(E, g),
           NEW i \in Guards, RecordFailedUnlocked(i), withRedis' = withRedis, errors \in Nat
    PROVE  LedgerInv'
  <1>1. /\ now' = now /\ record' = record /\ endless' = endless /\ Reported(TRUE) /\ Error
        /\ failKey' = [failKey EXCEPT !.count = failKey.count + 1] /\ Locks(CountThere + 1)
    BY DEF RecordFailedUnlocked
  <1>2. failKey.count # 0 /\ failKey.count \in Nat /\ now \in Nat /\ now' \in Nat
    BY <1>1, CountedThere, GuardNats DEF Locks
  <1>3. failKey'.count = failKey.count + 1 /\ failKey'.ends = failKey.ends
    BY <1>1 DEF GuardTypeInv, GuardTypeOK
  <1>4. \A j \in Guards : KeptHere(E, j)'
    BY <1>1, <1>2, KeptHereStays DEF IsLedger
  <1>5. KeptThere(E, g)'
    <2>1. KeptThere(E, g)
      BY DEF IsLedger
    <2>2. \A e \in E : e.n \in Nat
      BY EntryFields
    <2> QED
      BY <2>1, <2>2, <1>1, <1>2, <1>3 DEF KeptThere, Redis
  <1>6. errors' \in Nat /\ errors <= errors'
    BY <1>1 DEF Error
  <1>7. admitted' = admitted
    BY <1>1 DEF Reported, GuardTypeInv
  <1> QED
    BY <1>1, <1>2, <1>4, <1>5, <1>6, <1>7, LedgerStays

LEMMA LedgerSuccess ==
    ASSUME GuardTypeInv, GuardTypeInv',
           NEW E \in SUBSET LedgerEntries, NEW g \in Times, IsLedger(E, g),
           NEW i \in Guards, RecordSuccess(i)
    PROVE  LedgerInv'
  <1>1. /\ now' = now /\ admitted' = [t \in Times |-> 0]
        /\ \/ failKey' = [count |-> 0, ends |-> 0]
           \/ UNCHANGED <<failKey, endless>>
    BY DEF RecordSuccess
  <1>2. g <= now /\ (~ endless /\ failKey.count # 0 => failKey.ends = g + windowDuration)
    BY DEF IsLedger, KeptThere
  <1>3. ~ endless' /\ failKey'.count # 0 => failKey'.ends = g + windowDuration
    BY <1>1, <1>2
  <1>4. \A t \in Times : EntriesAt({}, t) = {}
    BY DEF EntriesAt
  <1>5. IsFiniteSet({}) /\ Cardinality({}) = 0 /\ {e \in {} : e.by # Redis} = {}
    BY FS_EmptySet
  <1>6. errors' \in Nat
    BY GuardAssumption DEF GuardTypeInv, GuardTypeOK
  <1>7. IsLedger({}, g)'
    <2>1. \A t \in Times : admitted'[t] = Cardinality(EntriesAt({}, t))
      BY <1>1, <1>4, <1>5
    <2>2. KeptThere({}, g)'
      BY <1>1, <1>2, <1>3 DEF KeptThere, Redis
    <2>3. \A j \in Guards : KeptHere({}, j)'
      BY DEF KeptHere
    <2>4. CountsApart({})
      BY DEF CountsApart
    <2>5. IF withRedis' THEN Cardinality({e \in {} : e.by # Redis}) <= errors'
          ELSE \A e \in {} : e.by # Redis
      BY <1>5, <1>6
    <2> QED
      BY <2>1, <2>2, <2>3, <2>4, <2>5 DEF IsLedger, EntriesAt, CountsApart, Redis
  <1> QED
    BY <1>5, <1>7 DEF LedgerInv, LedgerEntries, Counters, Redis, Times

LEMMA StepLedger ==
    ASSUME GuardTypeInv, GuardTypeInv', BurstInv, LedgerInv, [GuardNext]_guardVars
    PROVE  LedgerInv'
  <1>1. PICK E \in SUBSET LedgerEntries, g \in Times : IsFiniteSet(E) /\ IsLedger(E, g)
    BY DEF LedgerInv
  <1>2. /\ errors \in Nat /\ now \in Nat /\ record \in [Guards -> GuardRecords] /\ SharedInv
        /\ \A i \in Guards : RecordInv(i)
        /\ KeptThere(E, g) /\ \A i \in Guards : KeptHere(E, i)
    BY <1>1, GuardNats, GuardAssumption
    DEF GuardTypeInv, GuardTypeOK, GuardRecords, BurstInv, IsLedger
  <1>3. withRedis' = withRedis
    BY DEF GuardNext, guardVars
  <1>4. ASSUME now' \in Nat, now <= now', errors' \in Nat, errors <= errors',
               UNCHANGED <<record, failKey, endless, admitted>>
        PROVE  LedgerInv'
    <2>1. (\A i \in Guards : KeptHere(E, i)') /\ KeptThere(E, g)'
      BY <1>2, <1>4, KeptHereStays, KeptThereStays
    <2> QED
      BY <2>1, <1>1, <1>2, <1>3, <1>4, LedgerStays
  <1>5. CASE TickGuard
    BY <1>2, <1>4, <1>5 DEF TickGuard
  <1>6. ASSUME NEW i \in Guards, CheckHere(i) \/ CheckThere(i) \/ ReportNothing(i)
        PROVE  LedgerInv'
    <2>1. /\ now' = now /\ UNCHANGED <<record, failKey, endless, admitted>>
          /\ errors' = errors \/ errors' = errors + 1
      BY <1>6 DEF CheckHere, CheckThere, ReportNothing, AskMemory, Error
    <2> QED
      BY <2>1, <1>2, <1>4
  <1>7. ASSUME NEW i \in Guards, RecordFailedHere(i)
        PROVE  LedgerInv'
    BY <1>1, <1>2, <1>3, <1>7, LedgerFailedHere
  <1>8. ASSUME NEW i \in Guards, RecordFailedThere(i)
        PROVE  LedgerInv'
    BY <1>1, <1>2, <1>3, <1>8, LedgerFailedThere
  <1>9. ASSUME NEW i \in Guards, RecordFailedUnlocked(i)
        PROVE  LedgerInv'
    BY <1>1, <1>2, <1>3, <1>9, LedgerFailedUnlocked
  <1>10. ASSUME NEW i \in Guards, RecordSuccess(i)
         PROVE  LedgerInv'
    BY <1>1, <1>10, LedgerSuccess
  <1>11. ASSUME NEW i \in Guards, CleanUp(i)
         PROVE  LedgerInv'
    <2>1. /\ now' = now /\ errors' = errors /\ UNCHANGED <<failKey, endless, admitted>>
          /\ record' = [record EXCEPT ![i] = NoRecord] /\ now - record[i].first > windowDuration
      BY <1>11 DEF CleanUp
    <2>2. record'[i].count = 0 /\ \A j \in Guards \ {i} : record'[j] = record[j]
      BY <2>1, <1>2 DEF NoRecord
    <2>3. \A j \in Guards \ {i} : KeptHere(E, j)'
      BY <2>1, <2>2, <1>2, KeptHereStays
    <2>4. KeptHere(E, i)'
      <3>1. /\ record[i].first \in Nat /\ record[i].first <= now /\ windowDuration \in Nat
            /\ windowDuration > 0
        BY <1>2, GuardNats DEF RecordInv
      <3>2. \A e \in E : e.first \in Nat
        BY EntryFields
      <3>3. \A e \in E : e.by = i =>
              e.at <= e.first + windowDuration /\ e.first + windowDuration < now
        BY <1>2, <2>1, <3>1, <3>2 DEF KeptHere
      <3> QED
        BY <2>1, <2>2, <3>3 DEF KeptHere
    <2>5. KeptThere(E, g)'
      BY <2>1, <1>2, KeptThereStays
    <2> QED
      BY <2>1, <2>3, <2>4, <2>5, <1>1, <1>2, <1>3, LedgerStays
  <1>12. CASE UNCHANGED guardVars
    BY <1>2, <1>4, <1>12 DEF guardVars
  <1> QED
    BY <1>5, <1>6, <1>7, <1>8, <1>9, <1>10, <1>11, <1>12 DEF GuardNext

EntriesIn(E, a, b) == {e \in E : a <= e.at /\ e.at <= b}

(* The failures admitted in a window are the entries of the ledger in it.     *)
LEMMA EntriesAreCounted ==
    ASSUME GuardTypeInv, NEW E \in SUBSET LedgerEntries, IsFiniteSet(E),
           \A t \in Times : admitted[t] = Cardinality(EntriesAt(E, t)),
           NEW a \in Nat, NEW b \in Int, a - 1 <= b, b <= MaxTime
    PROVE  FailuresIn(admitted, a, b) = Cardinality(EntriesIn(E, a, b))
  <1> DEFINE AddUp(t) == FailuresIn(admitted, a, t) = Cardinality(EntriesIn(E, a, t))
             Bad == {n \in Nat : a - 1 + n <= MaxTime /\ ~ AddUp(a - 1 + n)}
  <1>0. MaxTime \in Nat
    BY GuardAssumption
  <1>1. \A e \in E : e.at \in Nat
    BY EntryFields
  <1>2. AddUp(a - 1)
    <2>1. EntriesIn(E, a, a - 1) = {}
      BY <1>1 DEF EntriesIn
    <2>2. FailuresIn(admitted, a, a - 1) = 0
      BY SumOfNone
    <2> QED
      BY <2>1, <2>2, FS_EmptySet
  <1>3. ASSUME NEW t \in Times, a <= t, AddUp(t - 1)
        PROVE  AddUp(t)
    <2>0. t \in Nat /\ t - 1 \in Int /\ t \in Int
      BY <1>0 DEF Times
    <2>1. FailuresIn(admitted, a, t) = admitted[t] + FailuresIn(admitted, a, t - 1)
      BY <1>3, <2>0, SumGrows
    <2> DEFINE S == EntriesIn(E, a, t - 1)
               T == EntriesAt(E, t)
    <2>2. EntriesIn(E, a, t) = S \cup T /\ S \cap T = {} /\ S \in SUBSET E /\ T \in SUBSET E
      BY <1>1, <1>3, <2>0 DEF EntriesIn, EntriesAt
    <2> HIDE DEF S, T
    <2>3. IsFiniteSet(S) /\ IsFiniteSet(T)
      BY <2>2, FS_Subset
    <2>4. Cardinality(S) \in Nat /\ Cardinality(T) \in Nat
      BY <2>3, FS_CardinalityType
    <2>5. Cardinality(S \cup T) = Cardinality(S) + Cardinality(T)
      <3>1. Cardinality(S \cup T) = Cardinality(S) + Cardinality(T) - Cardinality(S \cap T)
        BY <2>3, FS_Union
      <3>2. Cardinality(S \cap T) = 0
        BY <2>2, FS_EmptySet
      <3> QED
        BY <3>1, <3>2, <2>4
    <2>6. FailuresIn(admitted, a, t - 1) = Cardinality(S)
      BY <1>3 DEF S
    <2>7. admitted[t] = Cardinality(T)
      BY DEF T
    <2>8. FailuresIn(admitted, a, t) = Cardinality(EntriesIn(E, a, t))
      BY <2>1, <2>2, <2>4, <2>5, <2>6, <2>7
    <2> QED
      BY <2>8
  <1> HIDE DEF AddUp
  <1>4. Bad = {}
    <2> SUFFICES ASSUME Bad # {}
                 PROVE  FALSE
      OBVIOUS
    <2>1. PICK m \in Bad : \A n \in Bad : m <= n
      BY LeastNumber
    <2> DEFINE t == a - 1 + m
    <2>2. m \in Nat /\ t \in Int /\ t <= MaxTime /\ ~ AddUp(t)
      BY <2>1
    <2>3. m # 0
      BY <1>2, <2>2
    <2>4. m - 1 \in Nat /\ m - 1 \notin Bad /\ a - 1 + (m - 1) = t - 1
      BY <2>1, <2>2, <2>3
    <2>5. t - 1 <= MaxTime /\ a <= t /\ t \in Times
      BY <2>2, <2>3, <1>0 DEF Times
    <2>6. AddUp(t - 1)
      BY <2>4, <2>5
    <2> HIDE DEF t
    <2> QED
      BY <1>3, <2>2, <2>5, <2>6
  <1>5. b - (a - 1) \in Nat /\ a - 1 + (b - (a - 1)) = b
    OBVIOUS
  <1>6. b - (a - 1) \notin Bad
    BY <1>4
  <1> QED
    BY <1>5, <1>6 DEF AddUp

(* The place of an entry in the window that begins at t: a count that began    *)
(* before it is over, as far as the window sees, when another begins.           *)
PlaceIn(e, t) == IF e.first <= t THEN e.n ELSE e.n + (maxAttempts - 1)

Places == 1 .. 2 * (maxAttempts - 1)

(* No two entries of one counter have the same place in a window: a count     *)
(* that begins in it ends after it.                                          *)
LEMMA PlacesApart ==
    ASSUME NEW E \in SUBSET LedgerEntries, CountsApart(E), \A e \in E : e.first <= e.at,
           NEW t \in Nat, NEW e \in EntriesIn(E, t, t + windowDuration),
           NEW f \in EntriesIn(E, t, t + windowDuration), e.by = f.by, PlaceIn(e, t) = PlaceIn(f, t)
    PROVE  e = f
  <1>1. windowDuration \in Nat /\ windowDuration > 0 /\ maxAttempts \in Nat
    BY GuardAssumption
  <1>2. /\ e \in E /\ e.first \in Nat /\ e.at \in Nat /\ e.n \in Nat /\ e.n >= 1 /\ e.n < maxAttempts
        /\ t <= e.at /\ e.at <= t + windowDuration /\ e.first <= e.at
        /\ f \in E /\ f.first \in Nat /\ f.at \in Nat /\ f.n \in Nat /\ f.n >= 1 /\ f.n < maxAttempts
        /\ t <= f.at /\ f.at <= t + windowDuration /\ f.first <= f.at
    BY EntryFields DEF EntriesIn
  <1>3. e.n = f.n /\ (e.first <= t <=> f.first <= t)
    BY <1>1, <1>2 DEF PlaceIn
  <1>4. ~ (e.first < f.first)
    <2> SUFFICES ASSUME e.first < f.first
                 PROVE  FALSE
      OBVIOUS
    <2>1. e.at < f.first /\ e.first + windowDuration <= f.first
      BY <1>2 DEF CountsApart
    <2> QED
      BY <2>1, <1>1, <1>2, <1>3
  <1>5. ~ (f.first < e.first)
    <2> SUFFICES ASSUME f.first < e.first
                 PROVE  FALSE
      OBVIOUS
    <2>1. f.at < e.first /\ f.first + windowDuration <= e.first
      BY <1>2 DEF CountsApart
    <2> QED
      BY <2>1, <1>1, <1>2, <1>3
  <1>6. e.first = f.first
    BY <1>2, <1>4, <1>5
  <1> QED
    BY <1>2, <1>3, <1>6 DEF CountsApart

LEMMA PlacesAreFew ==
    /\ \A t \in Nat, e \in LedgerEntries : PlaceIn(e, t) \in Places
    /\ IsFiniteSet(Places) /\ Cardinality(Places) = 2 * (maxAttempts - 1)
    /\ 2 * (maxAttempts - 1) \in Nat
  <1>1. maxAttempts \in Nat /\ maxAttempts >= 2
    BY GuardAssumption
  <1>2. \A t \in Nat, e \in LedgerEntries : PlaceIn(e, t) \in Places
    BY <1>1, EntryFields DEF PlaceIn, Places
  <1>3. IsFiniteSet(Places) /\ Cardinality(Places) = 2 * (maxAttempts - 1)
    <2>1. PICK k \in Nat : k = 2 * (maxAttempts - 1) /\ k >= 1
      BY <1>1
    <2>2. IsFiniteSet(1 .. k) /\ Cardinality(1 .. k) = k
      BY <2>1, FS_Interval
    <2> QED
      BY <2>1, <2>2 DEF Places
  <1> QED
    BY <1>1, <1>2, <1>3

LEMMA BoundWithRedis ==
    ASSUME NEW E \in SUBSET LedgerEntries, IsFiniteSet(E), CountsApart(E), \A e \in E : e.first <= e.at,
           NEW t \in Nat, NEW k \in Nat, Cardinality({e \in E : e.by # Redis}) <= k
    PROVE  Cardinality(EntriesIn(E, t, t + windowDuration)) <= 2 * (maxAttempts - 1) + k
  <1> DEFINE M == EntriesIn(E, t, t + windowDuration)
             R == {e \in M : e.by = Redis}
             O == {e \in M : e.by # Redis}
             P == {e \in E : e.by # Redis}
  <1>1. M = R \cup O /\ R \cap O = {} /\ O \in SUBSET P /\ P \in SUBSET E /\ R \in SUBSET E
        /\ R \in SUBSET M
    BY DEF EntriesIn
  <1>2. \A e \in R, f \in R : PlaceIn(e, t) = PlaceIn(f, t) => e = f
    BY PlacesApart
  <1>0. Cardinality(P) <= k
    OBVIOUS
  <1> HIDE DEF M, R, O, P
  <1>3. IsFiniteSet(R) /\ IsFiniteSet(P)
    BY <1>1, FS_Subset
  <1>4. IsFiniteSet(O) /\ Cardinality(O) <= Cardinality(P)
    BY <1>1, <1>3, FS_Subset
  <1>5. Cardinality(R) <= 2 * (maxAttempts - 1)
    <2> DEFINE place == [e \in R |-> PlaceIn(e, t)]
    <2>1. place \in [R -> Places]
      BY <1>1, PlacesAreFew
    <2>2. place \in Injection(R, Places)
      BY <2>1, <1>2 DEF Injection, IsInjective
    <2> HIDE DEF place
    <2>3. Cardinality(R) <= Cardinality(Places)
      BY <2>2, PlacesAreFew, FS_Injection
    <2> QED
      BY <2>3, PlacesAreFew
  <1>6. Cardinality(M) = Cardinality(R) + Cardinality(O)
    <2>1. Cardinality(R) \in Nat /\ Cardinality(O) \in Nat
      BY <1>3, <1>4, FS_CardinalityType
    <2>2. Cardinality(R \cup O) = Cardinality(R) + Cardinality(O) - Cardinality(R \cap O)
      BY <1>3, <1>4, FS_Union
    <2>3. Cardinality(R \cap O) = 0
      BY <1>1, FS_EmptySet
    <2> QED
      BY <2>1, <2>2, <2>3, <1>1
  <1>7. Cardinality(R) \in Nat /\ Cardinality(O) \in Nat /\ Cardinality(P) \in Nat
    BY <1>3, <1>4, FS_CardinalityType
  <1>8. Cardinality(M) <= 2 * (maxAttempts - 1) + k
    BY <1>0, <1>4, <1>5, <1>6, <1>7, PlacesAreFew
  <1> QED
    BY <1>8 DEF M

LEMMA BoundInMemory ==
    ASSUME NEW E \in SUBSET LedgerEntries, IsFiniteSet(E), CountsApart(E), \A e \in E : e.first <= e.at,
           NEW t \in Nat, \A e \in E : e.by # Redis
    PROVE  Cardinality(EntriesIn(E, t, t + windowDuration)) <= 2 * (maxAttempts - 1) * Cardinality(Guards)
  <1> DEFINE M == EntriesIn(E, t, t + windowDuration)
             place == [e \in M |-> <<e.by, PlaceIn(e, t)>>]
  <1>1. IsFiniteSet(Guards) /\ Cardinality(Guards) \in Nat
    BY GuardAssumption, FS_CardinalityType
  <1>2. M \in SUBSET E /\ M \in SUBSET LedgerEntries
    BY DEF EntriesIn
  <1>3. \A e \in M, f \in M : e.by = f.by /\ PlaceIn(e, t) = PlaceIn(f, t) => e = f
    BY PlacesApart
  <1>4. \A e \in M : e.by \in Guards
    BY <1>2, EntryFields DEF Counters
  <1> HIDE DEF M
  <1>5. place \in [M -> Guards \X Places]
    BY <1>2, <1>4, PlacesAreFew
  <1>6. place \in Injection(M, Guards \X Places)
    BY <1>5, <1>3 DEF Injection, IsInjective
  <1> HIDE DEF place
  <1>7. /\ IsFiniteSet(Guards \X Places)
        /\ Cardinality(Guards \X Places) = Cardinality(Guards) * Cardinality(Places)
    BY <1>1, PlacesAreFew, FS_Product
  <1>8. Cardinality(M) <= Cardinality(Guards \X Places)
    BY <1>6, <1>7, FS_Injection
  <1>9. \A c, k \in Nat : c * k = k * c
    OBVIOUS
  <1>10. Cardinality(Guards) * (2 * (maxAttempts - 1)) = 2 * (maxAttempts - 1) * Cardinality(Guards)
    BY <1>1, <1>9, PlacesAreFew
  <1>11. Cardinality(M) <= 2 * (maxAttempts - 1) * Cardinality(Guards)
    BY <1>7, <1>8, <1>10, PlacesAreFew
  <1> QED
    BY <1>11 DEF M

LEMMA AdmittedAreFew == GuardTypeInv /\ LedgerInv => AdmittedFailuresBounded
  <1> SUFFICES ASSUME GuardTypeInv, LedgerInv, NEW t \in Times, t + windowDuration <= MaxTime
               PROVE  FailuresIn(admitted, t, t + windowDuration) <=
                        2 * (maxAttempts - 1) * (IF withRedis THEN 1 ELSE Cardinality(Guards)) + errors
    BY DEF AdmittedFailuresBounded
  <1>1. PICK E \in SUBSET LedgerEntries, g \in Times : IsFiniteSet(E) /\ IsLedger(E, g)
    BY DEF LedgerInv
  <1>2. /\ \A u \in Times : admitted[u] = Cardinality(EntriesAt(E, u))
        /\ CountsApart(E) /\ \A e \in E : e.first <= e.at
        /\ withRedis => Cardinality({e \in E : e.by # Redis}) <= errors
        /\ ~ withRedis => \A e \in E : e.by # Redis
    BY <1>1 DEF IsLedger
  <1>3. t \in Nat /\ windowDuration \in Nat /\ errors \in Nat /\ MaxTime \in Nat
    BY GuardAssumption DEF Times, GuardTypeInv, GuardTypeOK
  <1> DEFINE M == EntriesIn(E, t, t + windowDuration)
  <1>4. FailuresIn(admitted, t, t + windowDuration) = Cardinality(M)
    <2>1. t + windowDuration \in Int /\ t - 1 <= t + windowDuration
      BY <1>3
    <2> QED
      BY <2>1, <1>1, <1>2, <1>3, EntriesAreCounted
  <1>5. M \in SUBSET E
    BY DEF EntriesIn
  <1>6. IsFiniteSet(M) /\ Cardinality(M) \in Nat
    BY <1>1, <1>5, FS_Subset, FS_CardinalityType
  <1>7. PICK b \in Nat : b = 2 * (maxAttempts - 1)
    BY PlacesAreFew
  <1>8. CASE withRedis
    <2>1. Cardinality(M) <= b + errors
      BY <1>1, <1>2, <1>3, <1>7, <1>8, BoundWithRedis
    <2>2. b * (IF withRedis THEN 1 ELSE Cardinality(Guards)) = b
      BY <1>7, <1>8
    <2> QED
      BY <2>1, <2>2, <1>4, <1>7
  <1>9. CASE ~ withRedis
    <2>1. Cardinality(M) <= b * Cardinality(Guards)
      BY <1>1, <1>2, <1>3, <1>7, <1>9, BoundInMemory
    <2>2. PICK c \in Nat : c = Cardinality(Guards)
      BY GuardAssumption, FS_CardinalityType
    <2>3. b * c \in Nat
      BY <1>7, <2>2
    <2>4. Cardinality(M) <= b * c + errors
      BY <2>1, <2>2, <2>3, <1>3, <1>6
    <2> QED
      BY <2>2, <2>4, <1>4, <1>7, <1>9
  <1> QED
    BY <1>8, <1>9

(* However many processes guard the account, with Redis or without, and      *)
(* whichever calls of Redis fail: a lock is for maxAttempts failures within  *)
(* one window, and between two right passwords a window lets no more failures *)
(* pass than two counts of each counter, and the calls that failed, leave     *)
(* room for.                                                                 *)
THEOREM LocksFollow == GuardSpec => []LocksFollowFailures
  <1> DEFINE IInv == GuardTypeInv /\ BurstInv /\ LedgerInv
  <1>1. GuardInit => IInv
    BY InitGuard, InitBurst, InitLedger
  <1>2. IInv /\ [GuardNext]_guardVars => IInv'
    BY StepGuard, StepBurst, StepLedger
  <1>3. IInv => LocksFollowFailures
    BY BurstsLock, AdmittedAreFew DEF LocksFollowFailures
  <1> QED
    BY <1>1, <1>2, <1>3, PTL DEF GuardSpec

---------------------------------------------------------------------------------
(* All of them together.                                                     *)

(* Whichever of the models is at work, the state of each keeps its type:     *)
(* TypeOK.                                                                   *)
THEOREM AccountsTypeCorrect == Spec => []TypeOK
  <1> DEFINE I == /\ TypeInv /\ GuardTypeInv /\ FactorTypeInv /\ RosterTypeInv
                  /\ RolesTypeInv
  <1>1. Init => I
    BY InitTypes, InitGuard, InitFactor, InitRoster, InitRoles DEF Init
  <1>2. I /\ [Next]_accountsVars => I'
    <2> SUFFICES ASSUME I, [Next]_accountsVars
                 PROVE  I'
      OBVIOUS
    <2>1. /\ [SessionsNext]_sessionVars /\ [GuardNext]_guardVars
          /\ [FactorNext]_factorVars /\ [RosterNext]_rosterVars /\ [RolesNext]_rolesVars
      BY DEF Next, accountsVars
    <2> QED
      BY <2>1, StepTypes, StepGuard, StepFactorTypes, RosterSteps, StepRolesTypes
  <1>3. I => TypeOK
    BY DEF TypeInv, GuardTypeInv, FactorTypeInv, RosterTypeInv, RolesTypeInv, TypeOK
  <1> QED
    BY <1>1, <1>2, <1>3, PTL DEF Spec

=================================================================================
