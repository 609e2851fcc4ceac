------------------------------- MODULE MCAccounts -------------------------------
(* The models of accounts side by side, one of them at work.                  *)
EXTENDS Sessions, LoginGuard, SecondFactor, TenantRoster, UserRoles, TLC

VARIABLE focus

accountsVars == <<focus, sessionVars, guardVars, factorVars, rosterVars, rolesVars>>

(* The models that rest begin in one state.                                  *)
Init ==
    /\ focus \in {"sessions", "guard", "factor", "roster", "roles"}
    /\ SessionsInit /\ GuardInit /\ FactorInit /\ RosterInit /\ RolesInit
    /\ focus # "sessions" => nextPair = 1
    /\ focus # "guard" => withRedis
    /\ focus # "roster" => roster = [u \in Users |-> "none"]
    /\ focus # "roles" => /\ \A p \in Staff : IsAdmin(p)
                           /\ \A r \in CustomRoles : roleRow[r] = "live"

Next ==
    /\ UNCHANGED focus
    /\ \/ /\ focus = "sessions" /\ SessionsNext
          /\ UNCHANGED <<guardVars, factorVars, rosterVars, rolesVars>>
       \/ /\ focus = "guard" /\ GuardNext
          /\ UNCHANGED <<sessionVars, factorVars, rosterVars, rolesVars>>
       \/ /\ focus = "factor" /\ FactorNext
          /\ UNCHANGED <<sessionVars, guardVars, rosterVars, rolesVars>>
       \/ /\ focus = "roster" /\ RosterNext
          /\ UNCHANGED <<sessionVars, guardVars, factorVars, rolesVars>>
       \/ /\ focus = "roles" /\ RolesNext
          /\ UNCHANGED <<sessionVars, guardVars, factorVars, rosterVars>>

Spec == Init /\ [][Next]_accountsVars

TypeOK == SessionsTypeOK /\ GuardTypeOK /\ FactorTypeOK /\ RosterTypeOK /\ RolesTypeOK

Symmetric == Permutations(Callers) \cup Permutations(Instances) \cup Permutations(Managers)
=================================================================================
