------------------------------- MODULE UserRoles --------------------------------
(***************************************************************************)
(* Platform administration of users and roles.  A request is admitted by the *)
(* role its author had when the middleware loaded him; it then reads what it *)
(* is about, decides, and writes in statements of their own.  Replacing the  *)
(* permissions of a role is an insertion of the new ones and a deletion of    *)
(* the others, and the answer does not depend on either.                     *)
(*                                                                          *)
(* System roles are refused by every operation on roles; "admin" and         *)
(* "subscriber" stand for them, the second without platform permissions.     *)
(***************************************************************************)
EXTENDS Integers

CONSTANTS
    Staff,        \* people who have or may get an account
    Seeded,       \* the one who got his as admin from the seeding
    CustomRoles,  \* roles that are not system roles, by their slug
    Desks,        \* requests in progress at once
    MaxTasks,     \* bound: requests
    MaxSetbacks   \* bound: statements that fail, and ends of the process

ASSUME RolesAssumption ==
    /\ Seeded \in Staff /\ {MaxTasks, MaxSetbacks} \subseteq Nat
    /\ CustomRoles \cap {"admin", "subscriber"} = {}

VARIABLES
    person,       \* person[p]: the row of p in users
    roleRow,      \* roleRow[r]: "absent", "live" or "deleted"
    grants,       \* grants[r]: the permissions of r in role_permissions
    task,         \* task[d]: the request at desk d
    tasks, setbacks,
    decided,      \* history: the permissions last answered for each role
    muddled,      \* history: roles whose permissions a failure or overlap touched
    blind,        \* history: people given a role nobody could vouch for
    hasty,        \* history: people made admin while a request had passed the check
    trespassed    \* history: admins a request changed that may not change admins

rolesVars == <<person, roleRow, grants, task, tasks, setbacks,
               decided, muddled, blind, hasty, trespassed>>

Rights  == {"users", "roles"}
Offers  == {{}} \cup {{x} : x \in Rights}
RoleIds == {"admin", "subscriber"} \cup CustomRoles
Idle    == [step |-> "idle"]

OnUsers == {"createUser", "updateUser", "resetPassword", "deleteUser"}
OnRoles == {"createRole", "updateRole", "deleteRole"}

Tasks == [does : OnUsers, step : {"find", "write"}, of : Staff, byAdmin : BOOLEAN,
          role : RoleIds \cup {"same"}]
         \cup [does : OnRoles, step : {"find", "write", "lookup", "add", "trim", "count", "clear", "remove"},
               of : CustomRoles, wanted : SUBSET Rights, found : SUBSET Rights,
               overlapped : BOOLEAN]

RolesTypeOK ==
    /\ person \in [Staff -> [state : {"absent", "live", "deleted"}, role : RoleIds]]
    /\ roleRow \in [CustomRoles -> {"absent", "live", "deleted"}]
    /\ grants \in [CustomRoles -> SUBSET Rights]
    /\ task \in [Desks -> Tasks \cup {Idle}]
    /\ tasks \in 0 .. MaxTasks /\ setbacks \in 0 .. MaxSetbacks
    /\ decided \in [CustomRoles -> SUBSET Rights]
    /\ muddled \subseteq CustomRoles
    /\ blind \subseteq Staff /\ hasty \subseteq Staff /\ trespassed \subseteq Staff

(* The seeded admin, with or without roles and colleagues.                   *)
RolesInit ==
    /\ \E roleState \in {"absent", "live"}, colleague \in RoleIds \cup {"none"} :
          /\ person = [p \in Staff |->
                IF p = Seeded THEN [state |-> "live", role |-> "admin"]
                ELSE IF colleague = "none" THEN [state |-> "absent", role |-> "subscriber"]
                ELSE [state |-> "live", role |-> colleague]]
          /\ roleRow = [r \in CustomRoles |-> roleState]
          /\ grants = [r \in CustomRoles |-> IF roleState = "live" THEN {"users"} ELSE {}]
          /\ colleague \in CustomRoles => roleState = "live"
    /\ decided = grants
    /\ task = [d \in Desks |-> Idle]
    /\ tasks = 0 /\ setbacks = 0
    /\ muddled = {} /\ blind = {} /\ hasty = {} /\ trespassed = {}

---------------------------------------------------------------------------------

Alive(p)   == person[p].state = "live"
IsAdmin(p) == Alive(p) /\ person[p].role = "admin"

(* A deleted role is not loaded with the user, nor are its permissions.       *)
Granted(p) == IF person[p].role \in CustomRoles /\ roleRow[person[p].role] = "live"
              THEN grants[person[p].role] ELSE {}

MayAct(p, right) == Alive(p) /\ (IsAdmin(p) \/ right \in Granted(p))

AtStep(d, does, step) == task[d] # Idle /\ task[d].does \in does /\ task[d].step = step
Proceed(d, step) == task' = [task EXCEPT ![d].step = step]
Respond(d) == task' = [task EXCEPT ![d] = Idle]

BeginTask(d) ==
    /\ task[d] = Idle /\ tasks < MaxTasks
    /\ tasks' = tasks + 1
    /\ \/ \E author \in Staff, does \in OnUsers, p \in Staff, r \in RoleIds \cup {"same"} :
             /\ MayAct(author, "users")
             /\ does = "createUser" => r # "same"
             /\ does \in {"resetPassword", "deleteUser"} => r = "same"
             /\ task' = [task EXCEPT ![d] =
                    [does |-> does, step |-> IF does = "createUser" THEN "write" ELSE "find",
                     of |-> p, byAdmin |-> IsAdmin(author), role |-> r]]
       \/ \E author \in Staff, does \in OnRoles, r \in CustomRoles, wanted \in Offers :
             /\ MayAct(author, "roles")
             /\ does = "deleteRole" => wanted = {}
             /\ task' = [task EXCEPT ![d] =
                    [does |-> does, step |-> IF does = "createRole" THEN "write" ELSE "find",
                     of |-> r, wanted |-> wanted, found |-> {}, overlapped |-> FALSE]]
    /\ UNCHANGED <<person, roleRow, grants, setbacks, decided, muddled, blind, hasty, trespassed>>

---------------------------------------------------------------------------------
(* Users.                                                                    *)

(* For the mutants: whoever may change users may change any of them.          *)
AdmitsAnyone(t) == TRUE

(* Only admins change an admin or a role, and nobody deletes an admin.        *)
Admits(t) ==
    /\ IsAdmin(t.of) => t.byAdmin /\ t.does # "deleteUser"
    /\ t.role # "same" => t.byAdmin

FindTarget(d) ==
    /\ AtStep(d, OnUsers, "find")
    /\ IF Alive(task[d].of) /\ Admits(task[d]) THEN Proceed(d, "write") ELSE Respond(d)
    /\ UNCHANGED <<person, roleRow, grants, tasks, setbacks,
                   decided, muddled, blind, hasty, trespassed>>

(* No foreign key: a role that is gone, or never was, is assigned all the     *)
(* same, and one that a deletion has found unused is about to go.             *)
Vouched(r) ==
    r \in CustomRoles =>
        /\ roleRow[r] = "live"
        /\ ~ \E d \in Desks : task[d] # Idle /\ task[d].step \in {"clear", "remove"} /\ task[d].of = r

(* Requests other than that of desk d which are about to change p.           *)
AboutToChange(d, p) ==
    {e \in Desks \ {d} : AtStep(e, OnUsers \ {"createUser"}, "write") /\ task[e].of = p}

Given(d, p, r) ==
    /\ blind' = IF Vouched(r) THEN blind \ {p} ELSE blind \cup {p}
    /\ hasty' = IF r = "admin" /\ AboutToChange(d, p) # {} THEN hasty \cup {p} ELSE hasty

(* The user and his membership of the default tenant, in one transaction that *)
(* looks for the role; deleted users keep their names.                       *)
CreateUser(d) ==
    /\ AtStep(d, {"createUser"}, "write")
    /\ Respond(d)
    /\ LET t == task[d] IN
          IF /\ person[t.of].state = "absent"
             /\ t.role \in CustomRoles => roleRow[t.role] = "live"
          THEN /\ person' = [person EXCEPT ![t.of] = [state |-> "live", role |-> t.role]]
               /\ Given(d, t.of, t.role)
          ELSE UNCHANGED <<person, blind, hasty>>
    /\ UNCHANGED <<roleRow, grants, tasks, setbacks, decided, muddled, trespassed>>

Trespasses(t) == IsAdmin(t.of) /\ (~ t.byAdmin \/ t.does = "deleteUser")

(* UpdateFields, UpdatePassword, SoftDelete: of a row that is not deleted.    *)
ChangeUser(d) ==
    /\ AtStep(d, OnUsers \ {"createUser"}, "write")
    /\ Respond(d)
    /\ LET t == task[d] IN
          /\ trespassed' = IF Trespasses(t) THEN trespassed \cup {t.of} ELSE trespassed
          /\ IF Alive(t.of) /\ t.does = "deleteUser"
             THEN person' = [person EXCEPT ![t.of].state = "deleted"] /\ UNCHANGED <<blind, hasty>>
             ELSE IF Alive(t.of) /\ t.role # "same"
             THEN person' = [person EXCEPT ![t.of].role = t.role] /\ Given(d, t.of, t.role)
             ELSE UNCHANGED <<person, blind, hasty>>
    /\ UNCHANGED <<roleRow, grants, tasks, setbacks, decided, muddled>>

---------------------------------------------------------------------------------
(* Roles.                                                                    *)

(* Refused when the slug is in use, also by a deleted role.                   *)
CreateRole(d) ==
    /\ AtStep(d, {"createRole"}, "write")
    /\ LET t == task[d] IN
          IF roleRow[t.of] # "absent" THEN Respond(d) /\ UNCHANGED <<roleRow, decided>>
          ELSE /\ roleRow' = [roleRow EXCEPT ![t.of] = "live"]
               /\ decided' = [decided EXCEPT ![t.of] = {}]
               /\ IF t.wanted = {} THEN Respond(d) ELSE Proceed(d, "lookup")
    /\ UNCHANGED <<person, grants, tasks, setbacks, muddled, blind, hasty, trespassed>>

FindRole(d) ==
    /\ AtStep(d, OnRoles, "find")
    /\ IF roleRow[task[d].of] # "live" THEN Respond(d)
       ELSE Proceed(d, IF task[d].does = "deleteRole" THEN "count" ELSE "lookup")
    /\ UNCHANGED <<person, roleRow, grants, tasks, setbacks,
                   decided, muddled, blind, hasty, trespassed>>

ListPermissionsByIDs(d) ==
    /\ AtStep(d, OnRoles, "lookup")
    /\ task' = [task EXCEPT ![d].step = "add", ![d].found = task[d].wanted]
    /\ UNCHANGED <<person, roleRow, grants, tasks, setbacks,
                   decided, muddled, blind, hasty, trespassed>>

(* The error of the lookup is dropped, and the role gets what was found.      *)
LookupFails(d) ==
    /\ AtStep(d, OnRoles, "lookup")
    /\ setbacks < MaxSetbacks /\ setbacks' = setbacks + 1
    /\ Proceed(d, "add")
    /\ muddled' = muddled \cup {task[d].of}
    /\ UNCHANGED <<person, roleRow, grants, tasks, decided, blind, hasty, trespassed>>

(* Requests that write the same permissions at once.                         *)
Rivals(d) == {e \in Desks \ {d} : AtStep(e, OnRoles, "trim") /\ task[e].of = task[d].of}

AddPermissions(d) ==
    /\ AtStep(d, OnRoles, "add")
    /\ grants' = [grants EXCEPT ![task[d].of] = @ \cup task[d].found]
    /\ task' = [e \in Desks |->
          IF e = d THEN [task[d] EXCEPT !.step = "trim", !.overlapped = Rivals(d) # {}]
          ELSE IF e \in Rivals(d) THEN [task[e] EXCEPT !.overlapped = TRUE]
          ELSE task[e]]
    /\ UNCHANGED <<person, roleRow, tasks, setbacks, decided, muddled, blind, hasty, trespassed>>

(* For the mutants: what the role had stays.                                 *)
AppendPermissions(has, found) == has \cup found

ReplacePermissions(has, found) == has \cap found

TrimPermissions(d) ==
    /\ AtStep(d, OnRoles, "trim")
    /\ LET t == task[d] IN
          /\ grants' = [grants EXCEPT ![t.of] = ReplacePermissions(@, t.found)]
          /\ decided' = [decided EXCEPT ![t.of] = t.wanted]
          /\ muddled' = IF t.overlapped \/ t.found # t.wanted THEN muddled \cup {t.of}
                        ELSE muddled \ {t.of}
    /\ Respond(d)
    /\ UNCHANGED <<person, roleRow, tasks, setbacks, blind, hasty, trespassed>>

(* For the mutants: deletion without a look at the users.                     *)
UnusedOrNot(r) == TRUE

Unused(r) == \A p \in Staff : Alive(p) => person[p].role # r

CountUsersByRoleID(d) ==
    /\ AtStep(d, {"deleteRole"}, "count")
    /\ IF Unused(task[d].of) THEN Proceed(d, "clear") ELSE Respond(d)
    /\ UNCHANGED <<person, roleRow, grants, tasks, setbacks,
                   decided, muddled, blind, hasty, trespassed>>

(* The permissions first, whose error is dropped.                            *)
ClearPermissions(d) ==
    /\ AtStep(d, {"deleteRole"}, "clear")
    /\ grants' = [grants EXCEPT ![task[d].of] = {}]
    /\ muddled' = muddled \cup {task[d].of}
    /\ task' = [e \in Desks |->
          IF e = d THEN [task[d] EXCEPT !.step = "remove"]
          ELSE IF e \in Rivals(d) THEN [task[e] EXCEPT !.overlapped = TRUE]
          ELSE task[e]]
    /\ UNCHANGED <<person, roleRow, tasks, setbacks, decided, blind, hasty, trespassed>>

ClearFails(d) ==
    /\ AtStep(d, {"deleteRole"}, "clear")
    /\ setbacks < MaxSetbacks /\ setbacks' = setbacks + 1
    /\ Proceed(d, "remove")
    /\ UNCHANGED <<person, roleRow, grants, tasks, decided, muddled, blind, hasty, trespassed>>

(* Then the row, whose failure leaves a role without permissions.             *)
DeleteRole(d) ==
    /\ AtStep(d, {"deleteRole"}, "remove")
    /\ roleRow' = [roleRow EXCEPT ![task[d].of] = "deleted"]
    /\ Respond(d)
    /\ UNCHANGED <<person, grants, tasks, setbacks, decided, muddled, blind, hasty, trespassed>>

---------------------------------------------------------------------------------

(* A statement fails: an error for the author, except from the two statements *)
(* on permissions, or the process ends and nobody is answered.                *)
TaskFails(d) ==
    /\ task[d] # Idle
    /\ setbacks < MaxSetbacks /\ setbacks' = setbacks + 1
    /\ muddled' = IF task[d].step \in {"lookup", "add", "trim"} THEN muddled \cup {task[d].of}
                  ELSE muddled
    /\ Respond(d)
    /\ UNCHANGED <<person, roleRow, grants, tasks, decided, blind, hasty, trespassed>>

RolesNext ==
    \E d \in Desks :
        \/ BeginTask(d) \/ FindTarget(d) \/ CreateUser(d) \/ ChangeUser(d)
        \/ CreateRole(d) \/ FindRole(d) \/ ListPermissionsByIDs(d) \/ LookupFails(d)
        \/ AddPermissions(d) \/ TrimPermissions(d)
        \/ CountUsersByRoleID(d) \/ ClearPermissions(d) \/ ClearFails(d) \/ DeleteRole(d)
        \/ TaskFails(d)

RolesSpec == RolesInit /\ [][RolesNext]_rolesVars

---------------------------------------------------------------------------------

(* A role grants what was last answered for it, unless a statement failed or  *)
(* two requests wrote its permissions at once.                               *)
RightsAsDecided ==
    \A r \in CustomRoles :
        (roleRow[r] = "live" /\ ~ \E d \in Desks : AtStep(d, OnRoles, "trim") /\ task[d].of = r)
            => grants[r] = decided[r] \/ r \in muddled

(* A role goes while nobody has it (user_service.go:27, "role is still        *)
(* assigned to users"), unless it was given unchecked or during the deletion. *)
NobodyIsStranded ==
    \A p \in Staff : Alive(p) /\ person[p].role \in CustomRoles
                     /\ roleRow[person[p].role] # "live" => p \in blind

(* user_service.go:193 and :20: only admins modify admins, none is deleted,   *)
(* unless the target became one between the check and the write.             *)
AdminsAreKept == trespassed \subseteq hasty

(* Users and roles hold what they should.                                    *)
RolesHold == RightsAsDecided /\ NobodyIsStranded /\ AdminsAreKept
=================================================================================
