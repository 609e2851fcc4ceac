------------------------------ MODULE TenantRoster ------------------------------
(***************************************************************************)
(* Administration of one tenant: its members and their roles, and its own    *)
(* row.  Every operation reads, decides, writes, and then writes its audit   *)
(* event, each on its own; an event that cannot be written makes the answer  *)
(* an error and undoes nothing.  A membership is deleted by marking its row, *)
(* which the unique index on tenant and user goes on counting.               *)
(***************************************************************************)
EXTENDS Integers, FiniteSets

CONSTANTS
    Users,
    Managers,     \* platform administrators at work at the same time
    MaxOrders,    \* bound: operations begun
    MaxMishaps    \* bound: audit events that cannot be written, and crashes

ASSUME UsersAssumption == IsFiniteSet(Users) /\ "tenant" \notin Users
ASSUME RosterBounds == {MaxOrders, MaxMishaps} \subseteq Nat

VARIABLES
    account,      \* account[u]: "none", "live" or "deleted"
    roster,       \* roster[u]: the membership of u, or "none", or "removed"
    status,       \* of the tenant
    order,        \* order[m]: the operation of manager m
    orders, mishaps,
    trail,        \* trail[s]: what the last audit event says of s
    excused,      \* history: whose last change is not in the trail for a reason
    uncounted     \* history: how the last write lost an admin no count allowed

rosterVars == <<account, roster, status, order, orders, mishaps, trail, excused, uncounted>>

Roles    == {"admin", "editor", "member"}
Subjects == Users \cup {"tenant"}
Values   == Roles \cup {"none", "removed", "active", "suspended"}
Free     == [step |-> "free"]

Order == [step : {"account", "membership", "list", "count", "load", "write", "audit"},
          does : {"add", "setRole", "remove", "update", "rename"},
          of : Subjects, role : Values, counted : 0 .. Cardinality(Users),
          overlapped : BOOLEAN]

RosterTypeOK ==
    /\ account \in [Users -> {"none", "live", "deleted"}]
    /\ roster \in [Users -> Roles \cup {"none", "removed"}]
    /\ status \in {"active", "suspended"}
    /\ \A m \in Managers : order[m] = Free \/ order[m] \in Order
    /\ orders \in 0 .. MaxOrders /\ mishaps \in 0 .. MaxMishaps
    /\ trail \in [Subjects -> Values]
    /\ excused \subseteq Subjects
    /\ uncounted \in {"no", "demotion", "race"}

(* The tenant has members with any roles, each as the trail tells.           *)
RosterInit ==
    /\ account = [u \in Users |-> "live"]
    /\ roster \in [Users -> Roles \cup {"none"}]
    /\ status = "active"
    /\ order = [m \in Managers |-> Free]
    /\ orders = 0 /\ mishaps = 0
    /\ trail = [s \in Subjects |-> IF s \in Users THEN roster[s] ELSE status]
    /\ excused = {} /\ uncounted = "no"

---------------------------------------------------------------------------------

Step(m, step) == order[m] # Free /\ order[m].step = step
GoTo(m, step) == order' = [order EXCEPT ![m].step = step]
Done(m) == order' = [order EXCEPT ![m] = Free]

Member(u) == roster[u] \in Roles
Admins == {u \in Users : roster[u] = "admin"}
ValueOf(s) == IF s \in Users THEN roster[s] ELSE status

(* Two operations on one subject, of which one has not written its event yet, *)
(* may write their events in the other order.                                *)
Others(m, s) == {n \in Managers \ {m} : order[n] # Free /\ order[n].of = s}

StartOrder(m) ==
    /\ order[m] = Free /\ orders < MaxOrders
    /\ orders' = orders + 1
    /\ \E does \in {"add", "setRole", "remove", "update", "rename"}, s \in Subjects,
          v \in Roles \cup {"removed", "active", "suspended"} :
          /\ (s = "tenant") = (does \in {"update", "rename"})
          /\ does \in {"add", "setRole"} => v \in Roles
          /\ does = "remove" => v = "removed"
          /\ does \in {"update", "rename"} => v \in {"active", "suspended"}
          /\ order' = [n \in Managers |->
                IF n = m THEN [step |-> CASE does = "add" -> "account"
                                          [] s = "tenant" -> "load"
                                          [] OTHER        -> "membership",
                               does |-> does, of |-> s, role |-> v, counted |-> 0,
                               overlapped |-> Others(m, s) # {}]
                ELSE IF n \in Others(m, s) THEN [order[n] EXCEPT !.overlapped = TRUE]
                ELSE order[n]]
    /\ UNCHANGED <<account, roster, status, mishaps, trail, excused, uncounted>>

(* UserExists: a deleted user is not found.                                  *)
FindAccount(m) ==
    /\ Step(m, "account")
    /\ IF account[order[m].of] = "live" THEN GoTo(m, "membership") ELSE Done(m)
    /\ UNCHANGED <<account, roster, status, orders, mishaps, trail, excused, uncounted>>

HasMembership(m) ==
    /\ Step(m, "membership")
    /\ LET o == order[m] IN
          IF Member(o.of) = (o.does = "add") THEN Done(m)
          ELSE GoTo(m, IF o.does = "remove" THEN "list" ELSE "write")
    /\ UNCHANGED <<account, roster, status, orders, mishaps, trail, excused, uncounted>>

(* ListMembers, which joins deleted users too, tells the role of the member. *)
ListMembers(m) ==
    /\ Step(m, "list")
    /\ GoTo(m, IF roster[order[m].of] = "admin" THEN "count" ELSE "write")
    /\ UNCHANGED <<account, roster, status, orders, mishaps, trail, excused, uncounted>>

(* For the mutants: the last admin may go.                                   *)
EnoughWithNone(admins) == admins >= 1

Enough(admins) == admins > 1

CountAdmins(m) ==
    /\ Step(m, "count")
    /\ IF Enough(Cardinality(Admins))
       THEN order' = [order EXCEPT ![m].step = "write", ![m].counted = Cardinality(Admins)]
       ELSE Done(m)
    /\ UNCHANGED <<account, roster, status, orders, mishaps, trail, excused, uncounted>>

(* The whole row is loaded, and saved with what the request changes: a rename *)
(* saves the status it loaded.                                               *)
LoadTenant(m) ==
    /\ Step(m, "load")
    /\ order' = [order EXCEPT ![m].step = "write",
                    ![m].role = IF order[m].does = "rename" THEN status ELSE @]
    /\ UNCHANGED <<account, roster, status, orders, mishaps, trail, excused, uncounted>>

SaveTenant(m) ==
    /\ Step(m, "write") /\ order[m].of = "tenant"
    /\ status' = order[m].role
    /\ GoTo(m, "audit")
    /\ UNCHANGED <<account, roster, orders, mishaps, trail, excused, uncounted>>

(* The index refuses a row where there is one, be it removed.                *)
AddMember(m) ==
    /\ Step(m, "write") /\ order[m].does = "add"
    /\ LET o == order[m] IN
          IF roster[o.of] = "none"
          THEN roster' = [roster EXCEPT ![o.of] = o.role] /\ GoTo(m, "audit")
          ELSE Done(m) /\ UNCHANGED roster
    /\ UNCHANGED <<account, status, orders, mishaps, trail, excused, uncounted>>

(* An update and a deletion WHERE the membership is there change nothing, and *)
(* are reported and audited all the same, when it is there no more.          *)
WriteMember(m) ==
    /\ Step(m, "write") /\ order[m].does \in {"setRole", "remove"}
    /\ LET o == order[m] IN
          /\ roster' = IF Member(o.of) THEN [roster EXCEPT ![o.of] = o.role] ELSE roster
          /\ uncounted' = IF roster[o.of] # "admin" \/ o.role = "admin" THEN "no"
                          ELSE IF o.does = "setRole" THEN "demotion"
                          ELSE IF o.counted # Cardinality(Admins) THEN "race" ELSE "no"
    /\ GoTo(m, "audit")
    /\ UNCHANGED <<account, status, orders, mishaps, trail, excused>>

(* For the mutants: the event is written as Log does, whose failure is not    *)
(* answered.                                                                 *)
LogOnce(m) ==
    /\ Step(m, "audit")
    /\ IF order[m].does = "rename" THEN UNCHANGED trail
       ELSE trail' \in {trail, [trail EXCEPT ![order[m].of] = order[m].role]}
    /\ excused' = IF order[m].overlapped THEN excused \cup {order[m].of}
                  ELSE excused \ {order[m].of}
    /\ Done(m)
    /\ UNCHANGED <<account, roster, status, orders, mishaps, uncounted>>

(* LogReliable, which tries three times.                                     *)
LogReliable(m) ==
    /\ Step(m, "audit")
    /\ LET o == order[m] IN
          /\ trail' = IF o.does = "rename" THEN trail ELSE [trail EXCEPT ![o.of] = o.role]
          /\ excused' = IF o.overlapped THEN excused \cup {o.of}
                        ELSE IF o.does = "rename" THEN excused
                        ELSE excused \ {o.of}
    /\ Done(m)
    /\ UNCHANGED <<account, roster, status, orders, mishaps, uncounted>>

(* The event is not persisted, and the caller is told of an error; or the    *)
(* process ends, before the write or after it.                               *)
AuditFails(m) ==
    /\ order[m] # Free /\ mishaps < MaxMishaps
    /\ mishaps' = mishaps + 1
    /\ excused' = IF Step(m, "audit") \/ order[m].overlapped
                  THEN excused \cup {order[m].of} ELSE excused
    /\ Done(m)
    /\ UNCHANGED <<account, roster, status, orders, trail, uncounted>>

(* UserService.Delete keeps the memberships.                                 *)
DeleteUser(u) ==
    /\ account[u] = "live" /\ orders < MaxOrders
    /\ orders' = orders + 1
    /\ account' = [account EXCEPT ![u] = "deleted"]
    /\ UNCHANGED <<roster, status, order, mishaps, trail, excused, uncounted>>

RosterNext ==
    \/ \E m \in Managers :
          \/ StartOrder(m) \/ FindAccount(m) \/ HasMembership(m) \/ ListMembers(m)
          \/ CountAdmins(m) \/ LoadTenant(m) \/ SaveTenant(m) \/ AddMember(m)
          \/ WriteMember(m) \/ LogReliable(m) \/ AuditFails(m)
    \/ \E u \in Users : DeleteUser(u)

RosterSpec == RosterInit /\ [][RosterNext]_rosterVars

---------------------------------------------------------------------------------
(* A tenant that had an admin has one still, unless an admin was demoted, or *)
(* removed on a count that others had made wrong by then                     *)
(* (tenant_service.go:245-264).                                              *)
OrphanedOnlyByDemotionOrRace ==
    [][Admins # {} /\ Admins' = {} => uncounted' # "no"]_rosterVars

(* "The last tenant admin cannot be removed, so a tenant never becomes       *)
(* administratively orphaned" (tenant_service.go:230).                       *)
NeverOrphaned == [][Admins # {} => Admins' # {}]_rosterVars

(* What the trail says last of a member, or of the tenant's status, is so,    *)
(* unless a change is on its way, was answered with an error, died before    *)
(* its event, or overlapped another of the same subject                      *)
(* (tenant_service.go:268-281, audit_logger.go:155).                         *)
TrailExplainsRoster ==
    \A s \in Subjects \ excused :
        \/ trail[s] = ValueOf(s)
        \/ \E m \in Managers : order[m] # Free /\ order[m].of = s
=================================================================================
