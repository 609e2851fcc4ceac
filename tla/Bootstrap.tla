------------------------------- MODULE Bootstrap --------------------------------
(***************************************************************************)
(* Server processes that start on one database: each applies the migrations  *)
(* that are not recorded, seeds what is missing and serves; an operator      *)
(* rolls migrations back.  A migration and its record are one transaction,   *)
(* except that MySQL commits every change of the schema at once.  Seeding is *)
(* a chain of statements outside any transaction, and a process whose        *)
(* seeding fails serves all the same.                                        *)
(***************************************************************************)
EXTENDS Integers, FiniteSets, FiniteSetsExt

CONSTANTS
    Processes,
    Dialects,       \* among "transactional" (SQLite, PostgreSQL) and "mysql"
    MaxBoots,       \* bound: processes started
    MaxRollbacks,   \* bound: rollbacks begun
    MaxDeaths       \* bound: processes that die and statements of seeding that fail

ASSUME BootBounds == {MaxBoots, MaxRollbacks, MaxDeaths} \subseteq Nat

VARIABLES
    dialect,
    made,        \* made[v]: how much of migration v is in the schema
    recorded,    \* schema_migrations
    seeded,      \* what has been seeded
    defaults,    \* the built-in roles that are marked as the default
    foreign,     \* rows of other tenants than the default one
    proc,        \* proc[p]: what process p does
    boots, rollbacks, deaths,
    overlapped,  \* history: a rollback ran beside another process that was not serving
    cut,         \* history: steps at which a seeding ended early, not done by anyone since
    undoing      \* history: migrations whose rollback began and did not end

bootHistory == <<overlapped, cut, undoing>>
bootVars    == <<dialect, made, recorded, seeded, defaults, foreign, proc,
                 boots, rollbacks, deaths, bootHistory>>

Versions == 1 .. 3      \* the tables; the columns of tenants, as migration 009; one more
AllParts    == 2           \* parts of a migration: tables, or columns and indexes
Builtin  == {"admin", "subscriber"}
Things   == {"permissions", "admin role", "subscriber role", "user", "membership",
             "settings", "categories"}

(* The steps of seeding in their order.                                      *)
Tasks == {"permissions", "clear", "admin role", "subscriber role", "user", "membership",
          "settings", "categories"}

NextTask ==
    [t \in Tasks |->
        CASE t = "permissions"     -> "clear"
          [] t = "clear"           -> "admin role"
          [] t = "admin role"      -> "subscriber role"
          [] t = "subscriber role" -> "user"
          [] t = "user"            -> "membership"
          [] t = "membership"      -> "settings"
          [] t = "settings"        -> "categories"
          [] t = "categories"      -> "serving"]

NoProc == [step |-> "down"]
Booting == [step : {"migrate"}, known : SUBSET Versions]
Seeding == [step : Tasks, seen : SUBSET Things]
Serving == [step : {"serving"}]
Undoing == [step : {"rollback", "undo"}, known : SUBSET Versions, left : 0 .. Max(Versions)]

BootTypeOK ==
    /\ dialect \in Dialects
    /\ made \in [Versions -> 0 .. AllParts] /\ recorded \subseteq Versions
    /\ seeded \subseteq Things /\ defaults \subseteq Builtin /\ foreign \in BOOLEAN
    /\ \A p \in Processes :
          proc[p] = NoProc \/ proc[p] \in Booting \cup Seeding \cup Serving \cup Undoing
    /\ boots \in 0 .. MaxBoots /\ rollbacks \in 0 .. MaxRollbacks /\ deaths \in 0 .. MaxDeaths
    /\ overlapped \in BOOLEAN /\ cut \subseteq Tasks /\ undoing \subseteq Versions

BootInit ==
    /\ dialect \in Dialects
    /\ made = [v \in Versions |-> 0] /\ recorded = {}
    /\ seeded = {} /\ defaults = {} /\ foreign = FALSE
    /\ proc = [p \in Processes |-> NoProc]
    /\ boots = 0 /\ rollbacks = 0 /\ deaths = 0
    /\ overlapped = FALSE /\ cut = {} /\ undoing = {}

---------------------------------------------------------------------------------
Seeds   == <<seeded, defaults, foreign>>
Schema  == <<made, recorded>>
BootCounts  == <<boots, rollbacks, deaths>>

Goes(p, q) == proc' = [proc EXCEPT ![p] = q]

AtWorkBeside(p) == {q \in Processes \ {p} : proc[q].step \notin {"down", "serving"}}
UndoingNow      == {q \in Processes : proc[q].step \in {"rollback", "undo"}}

---------------------------------------------------------------------------------
(* The versions that are recorded are read once.                             *)
StartProcess(p) ==
    /\ proc[p] = NoProc /\ boots < MaxBoots
    /\ boots' = boots + 1
    /\ Goes(p, [step |-> "migrate", known |-> recorded])
    /\ overlapped' = (overlapped \/ UndoingNow # {})
    /\ UNCHANGED <<dialect, Schema, Seeds, rollbacks, deaths, cut, undoing>>

Pending(p) == Versions \ proc[p].known

(* A record that is there by now ends the process: its key is refused.       *)
RecordMigration(p, v) ==
    IF v \in recorded THEN Goes(p, NoProc) /\ UNCHANGED recorded
    ELSE recorded' = recorded \cup {v} /\ Goes(p, [proc[p] EXCEPT !.known = @ \cup {v}])

(* For the mutant: the record is made apart from the migration.              *)
RecordAlone(p, v) ==
    /\ RecordMigration(p, v)
    /\ UNCHANGED <<made, undoing>>

MigrateAtOnce(p, v) ==
    /\ RecordMigration(p, v)
    /\ made' = IF v \in recorded THEN made ELSE [made EXCEPT ![v] = AllParts]
    /\ undoing' = IF v \in recorded THEN undoing ELSE undoing \ {v}

(* On MySQL part by part, as far as parts are missing, and then the record.  *)
MigrateInParts(p, v) ==
    IF made[v] < AllParts
    THEN made' = [made EXCEPT ![v] = @ + 1] /\ UNCHANGED <<recorded, proc, undoing>>
    ELSE /\ RecordMigration(p, v)
         /\ undoing' = IF v \in recorded THEN undoing ELSE undoing \ {v}
         /\ UNCHANGED made

Up(p) ==
    /\ proc[p].step = "migrate" /\ Pending(p) # {}
    /\ LET v == Min(Pending(p))
       IN  IF dialect = "mysql" THEN MigrateInParts(p, v) ELSE MigrateAtOnce(p, v)
    /\ UNCHANGED <<dialect, Seeds, BootCounts, overlapped, cut>>

BeginSeeding(p) ==
    /\ proc[p].step = "migrate" /\ Pending(p) = {}
    /\ Goes(p, [step |-> "permissions", seen |-> {}])
    /\ UNCHANGED <<dialect, Schema, Seeds, BootCounts, bootHistory>>

---------------------------------------------------------------------------------
(* A step of seeding is over, or the seeding, and then the process serves.   *)
SeedingAt(task) == IF task = "serving" THEN [step |-> task] ELSE [step |-> task, seen |-> {}]

SeedingGoesOn(p) ==
    /\ Goes(p, SeedingAt(NextTask[proc[p].step]))
    /\ cut' = cut \ {proc[p].step}

EndSeeding(p) == Goes(p, [step |-> "serving"]) /\ cut' = cut \cup {proc[p].step}

(* What there is to be done is looked up before it is done.                  *)
LookForSeed(p) ==
    /\ proc[p].step \in Tasks \ {"clear", "membership"} /\ proc[p].seen = {}
    /\ proc[p].step \notin seeded
    /\ Goes(p, [proc[p] EXCEPT !.seen = {proc[p].step}])
    /\ UNCHANGED <<dialect, Schema, Seeds, BootCounts, bootHistory>>

(* A row that another process has made by now is refused, which ends the     *)
(* seeding, as does a schema that is not there.                              *)
InsertSeed(p) ==
    LET task == proc[p].step
    IN  /\ task \in Things \ {"membership"} /\ proc[p].seen = {task}
        /\ IF task \in seeded \/ made[1] # AllParts
           THEN EndSeeding(p) /\ UNCHANGED seeded
           ELSE /\ seeded' = seeded \cup {task}
                /\ IF task \in {"admin role", "subscriber role"}
                   THEN Goes(p, SeedingAt(task)) /\ UNCHANGED cut
                   ELSE SeedingGoesOn(p)
        /\ UNCHANGED <<dialect, Schema, defaults, foreign, BootCounts, overlapped, undoing>>

(* With a user there, whoever it is, no membership is given either.          *)
SkipSeed(p) ==
    LET task == proc[p].step
    IN  /\ task \in {"permissions", "user", "settings", "categories"} /\ proc[p].seen = {}
        /\ task \in seeded
        /\ IF task = "user" THEN Goes(p, SeedingAt("settings")) /\ cut' = cut \ {task}
           ELSE SeedingGoesOn(p)
        /\ UNCHANGED <<dialect, Schema, Seeds, BootCounts, overlapped, undoing>>

ClearDefaults(p) ==
    /\ proc[p].step = "clear"
    /\ defaults' = {} /\ SeedingGoesOn(p)
    /\ UNCHANGED <<dialect, Schema, seeded, foreign, BootCounts, overlapped, undoing>>

(* The role's row is there: its flag and permissions are written.            *)
SyncRole(p, role) ==
    /\ proc[p].step = IF role = "admin" THEN "admin role" ELSE "subscriber role"
    /\ proc[p].seen = {} /\ proc[p].step \in seeded
    /\ defaults' = IF role = "subscriber" THEN defaults \cup {role} ELSE defaults \ {role}
    /\ SeedingGoesOn(p)
    /\ UNCHANGED <<dialect, Schema, seeded, foreign, BootCounts, overlapped, undoing>>

CreateMembership(p) ==
    /\ proc[p].step = "membership"
    /\ seeded' = seeded \cup {"membership"}
    /\ Goes(p, SeedingAt("settings"))
    /\ UNCHANGED <<dialect, Schema, defaults, foreign, BootCounts, bootHistory>>

SeedFails(p) ==
    /\ proc[p].step \in Tasks /\ deaths < MaxDeaths
    /\ deaths' = deaths + 1
    /\ EndSeeding(p)
    /\ UNCHANGED <<dialect, Schema, Seeds, boots, rollbacks, overlapped, undoing>>

---------------------------------------------------------------------------------
(* While a process serves, other tenants get rows.                           *)
ServeTenants ==
    /\ \E p \in Processes : proc[p].step = "serving"
    /\ made[2] = AllParts /\ ~foreign
    /\ foreign' = TRUE
    /\ UNCHANGED <<dialect, Schema, seeded, defaults, proc, BootCounts, bootHistory>>

StartRollback(p, steps) ==
    /\ proc[p] = NoProc /\ rollbacks < MaxRollbacks
    /\ rollbacks' = rollbacks + 1
    /\ Goes(p, [step |-> "rollback", known |-> recorded, left |-> steps])
    /\ overlapped' = (overlapped \/ AtWorkBeside(p) # {})
    /\ UNCHANGED <<dialect, Schema, Seeds, boots, deaths, cut, undoing>>

Newest(p) == Max(proc[p].known)

(* Nothing left to do; or the tenants' migration finds rows it would lose,   *)
(* or MySQL under it, and refuses.                                           *)
Refused(v) == v = 2 /\ (foreign \/ dialect = "mysql")

Preflight(p) ==
    /\ proc[p].step = "rollback"
    /\ IF proc[p].known = {} \/ proc[p].left = 0 \/ Refused(Newest(p))
       THEN Goes(p, NoProc)
       ELSE Goes(p, [proc[p] EXCEPT !.step = "undo"])
    /\ UNCHANGED <<dialect, Schema, Seeds, BootCounts, bootHistory>>

(* With the tables goes what is in them.                                     *)
DropData(v) ==
    /\ IF v = 1 THEN seeded' = {} /\ defaults' = {} ELSE UNCHANGED <<seeded, defaults>>
    /\ foreign' = (foreign /\ v = 3)

Forget(p, v) ==
    /\ recorded' = recorded \ {v}
    /\ undoing' = undoing \ {v}
    /\ Goes(p, [proc[p] EXCEPT !.step = "rollback", !.known = @ \ {v}, !.left = @ - 1])

Down(p) ==
    /\ proc[p].step = "undo"
    /\ LET v == Newest(p)
       IN  IF dialect = "mysql"
           THEN IF made[v] > 0
                THEN made' = [made EXCEPT ![v] = @ - 1] /\ DropData(v)
                     /\ undoing' = undoing \cup {v} /\ UNCHANGED <<recorded, proc>>
                ELSE Forget(p, v) /\ UNCHANGED <<made, seeded, defaults, foreign>>
           ELSE made' = [made EXCEPT ![v] = 0] /\ DropData(v) /\ Forget(p, v)
    /\ UNCHANGED <<dialect, BootCounts, overlapped, cut>>

(* A process ends; so does its transaction.                                  *)
ProcessDies(p) ==
    /\ proc[p] # NoProc /\ deaths < MaxDeaths
    /\ deaths' = deaths + 1
    /\ Goes(p, NoProc)
    /\ cut' = IF proc[p].step \in Tasks THEN cut \cup {proc[p].step} ELSE cut
    /\ UNCHANGED <<dialect, Schema, Seeds, boots, rollbacks, overlapped, undoing>>

BootNext ==
    \/ ServeTenants
    \/ \E p \in Processes :
          \/ StartProcess(p) \/ Up(p) \/ BeginSeeding(p)
          \/ LookForSeed(p) \/ InsertSeed(p) \/ SkipSeed(p) \/ ClearDefaults(p)
          \/ \E role \in Builtin : SyncRole(p, role)
          \/ CreateMembership(p) \/ SeedFails(p)
          \/ \E steps \in Versions : StartRollback(p, steps)
          \/ Preflight(p) \/ Down(p) \/ ProcessDies(p)

BootSpec == BootInit /\ [][BootNext]_bootVars

---------------------------------------------------------------------------------
(* A migration is recorded exactly when it is made.  On MySQL one can be     *)
(* made without a record, and be recorded without being whole only where a   *)
(* rollback of it has begun.                                                 *)
RecordedIsMade ==
    \A v \in Versions :
        IF dialect = "mysql" THEN v \in recorded \ undoing => made[v] = AllParts
        ELSE made[v] = IF v \in recorded THEN AllParts ELSE 0

(* A process that serves has every migration, as long as nothing was rolled  *)
(* back.                                                                     *)
ServedIsWhole ==
    rollbacks = 0 /\ (\E p \in Processes : proc[p].step \in Tasks \cup {"serving"}) =>
        recorded = Versions

(* Migrations go in order, unless a rollback ran beside another process.     *)
InOrder == ~overlapped => \A v \in recorded : 1 .. v \subseteq recorded

(* With no seeding under way everything is seeded and the default role is    *)
(* the subscribers', however processes that start at once get in each        *)
(* other's way, unless a step at which a seeding ended early was not taken   *)
(* by another since, or the tables went.                                     *)
SeedsConverge ==
    /\ rollbacks = 0 /\ cut = {}
    /\ \E p \in Processes : proc[p].step = "serving"
    /\ \A p \in Processes : proc[p].step \notin Tasks
    => defaults = {"subscriber"} /\ seeded = Things

(* The first user is a member of the default tenant, or will be, unless the  *)
(* process that made it died before: no later start makes up for that.       *)
AdminIsMember ==
    "user" \in seeded =>
        "membership" \in seeded \/ "membership" \in cut \/ \E p \in Processes : proc[p].step = "membership"

BootHolds == RecordedIsMade /\ ServedIsWhole /\ InOrder /\ SeedsConverge /\ AdminIsMember
=================================================================================
