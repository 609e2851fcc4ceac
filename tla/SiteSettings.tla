------------------------------ MODULE SiteSettings ------------------------------
(***************************************************************************)
(* The settings of one tenant.  A save is a transaction over its keys in     *)
(* their order: update the override; without one, look for it once more and  *)
(* insert it.  On PostgreSQL every statement sees what is committed when it  *)
(* begins, and waits for rows and keys written by other open saves; on       *)
(* SQLite one save is open at a time.                                        *)
(***************************************************************************)
EXTENDS Integers, Sequences, FiniteSets, FiniteSetsExt

LOCAL INSTANCE SequencesExt

CONSTANTS
    SettingKeys,     \* numbers, in the order of the keys
    Defaults,        \* those with a row of the platform, for all tenants
    PublicKeys,      \* those whose row of the platform may be shown to everyone
    Savers,          \* requests at work at the same time
    SettingStores,   \* among "postgres", "sqlite"
    MaxSaves,        \* bound: saves begun; a save writes its number as the value
    MaxCuts          \* bound: saves that fail or die

ASSUME SettingBounds ==
    /\ SettingKeys \subseteq Nat \ {0} /\ PublicKeys \subseteq Defaults /\ Defaults \subseteq SettingKeys
    /\ {MaxSaves, MaxCuts} \subseteq Nat

VARIABLES
    settingStore,
    override,    \* override[k]: the committed override, 0 for none
    save,        \* save[p]: the transaction of request p
    saves, cuts,
    answered,    \* history: answered[k]: the save of k that was answered last
    raced        \* history: keys that got their first override while another save
                 \* of the key was open, and have not been written by one alone since

settingVars == <<settingStore, override, save, saves, cuts, answered, raced>>

NoSave == [step |-> "idle", number |-> 0, left |-> {}, wrote |-> {}, keys |-> {}]

SettingsTypeOK ==
    /\ settingStore \in SettingStores
    /\ override \in [SettingKeys -> 0 .. MaxSaves]
    /\ save \in [Savers -> [step : {"idle", "update", "get", "insert"}, number : 0 .. MaxSaves,
                            left : SUBSET SettingKeys, wrote : SUBSET SettingKeys,
                            keys : SUBSET SettingKeys]]
    /\ saves \in 0 .. MaxSaves /\ cuts \in 0 .. MaxCuts
    /\ answered \in [SettingKeys -> 0 .. MaxSaves] /\ raced \subseteq SettingKeys

SettingsInit ==
    /\ settingStore \in SettingStores
    /\ override = [k \in SettingKeys |-> 0]
    /\ save = [p \in Savers |-> NoSave]
    /\ saves = 0 /\ cuts = 0
    /\ answered = [k \in SettingKeys |-> 0] /\ raced = {}

---------------------------------------------------------------------------------
(* Requests with an open transaction, besides p.                             *)
OpenBeside(p) == {q \in Savers \ {p} : save[q].step # "idle"}

(* For the mutant: the keys in any order, as ranging over a map gives them.  *)
AnyKeys(p) == save[p].left

NextKeys(p) == IF save[p].left = {} THEN {} ELSE {Min(save[p].left)}

(* Another open save has written k: its row, or its entry in the index.      *)
Locked(p, k) == \E q \in OpenBeside(p) : k \in save[q].wrote

Waits(p, q) ==
    \E k \in NextKeys(p) :
        /\ k \in save[q].wrote
        /\ \/ save[p].step = "update" /\ override[k] # 0
           \/ save[p].step = "insert"

Reached(p, k, step) == save' = [save EXCEPT ![p].left = @ \ {k}, ![p].step = step]

---------------------------------------------------------------------------------
BeginSave(p, ks) ==
    /\ save[p] = NoSave /\ saves < MaxSaves
    /\ settingStore = "sqlite" => OpenBeside(p) = {}
    /\ saves' = saves + 1
    /\ save' = [save EXCEPT ![p] = [step |-> "update", number |-> saves', left |-> ks,
                                    wrote |-> {}, keys |-> ks]]
    /\ UNCHANGED <<settingStore, override, cuts, answered, raced>>

(* An override that others have not committed is not seen: no row is updated.*)
UpdateValue(p, k) ==
    /\ save[p].step = "update" /\ k \in NextKeys(p)
    /\ IF override[k] = 0 THEN save' = [save EXCEPT ![p].step = "get"]
       ELSE /\ ~Locked(p, k)
            /\ save' = [save EXCEPT ![p].left = @ \ {k}, ![p].wrote = @ \cup {k}]
    /\ UNCHANGED <<settingStore, override, saves, cuts, answered, raced>>

(* An override that is there now is taken for one with the value asked for.  *)
GetSetting(p, k) ==
    /\ save[p].step = "get" /\ k \in NextKeys(p)
    /\ IF override[k] # 0 THEN Reached(p, k, "update") ELSE save' = [save EXCEPT ![p].step = "insert"]
    /\ UNCHANGED <<settingStore, override, saves, cuts, answered, raced>>

(* The insert waits for another of the same key, and becomes an update of it.*)
UpsertTenantOverride(p, k) ==
    /\ save[p].step = "insert" /\ k \in NextKeys(p) /\ ~Locked(p, k)
    /\ save' = [save EXCEPT ![p].left = @ \ {k}, ![p].wrote = @ \cup {k}, ![p].step = "update"]
    /\ UNCHANGED <<settingStore, override, saves, cuts, answered, raced>>

CommitSave(p) ==
    /\ save[p].step = "update" /\ save[p].left = {}
    /\ LET s == save[p]
           shared == {k \in s.wrote : \E q \in OpenBeside(p) : k \in save[q].keys}
           first == {k \in shared : override[k] = 0}
       IN  /\ override' = [k \in SettingKeys |-> IF k \in s.wrote THEN s.number ELSE override[k]]
           /\ answered' = [k \in SettingKeys |-> IF k \in s.keys THEN s.number ELSE answered[k]]
           /\ raced' = (raced \ (s.wrote \ shared)) \cup first
    /\ save' = [save EXCEPT ![p] = NoSave]
    /\ UNCHANGED <<settingStore, saves, cuts>>

(* A statement fails, the client leaves, the process dies.                   *)
Rollback(p) ==
    /\ save[p].step # "idle" /\ cuts < MaxCuts
    /\ cuts' = cuts + 1
    /\ save' = [save EXCEPT ![p] = NoSave]
    /\ UNCHANGED <<settingStore, override, saves, answered, raced>>

SettingsNext ==
    \E p \in Savers :
        \/ \E ks \in SUBSET SettingKeys \ {{}} : BeginSave(p, ks)
        \/ \E k \in SettingKeys : UpdateValue(p, k) \/ GetSetting(p, k) \/ UpsertTenantOverride(p, k)
        \/ CommitSave(p) \/ Rollback(p)

SettingsSpec == SettingsInit /\ [][SettingsNext]_settingVars

---------------------------------------------------------------------------------
(* A row of the platform, or the override of it.  The override has the place    *)
(* and the visibility of the row it overrides; one of nothing is in front and   *)
(* hidden.                                                                    *)
SettingRow(k, own) ==
    [key |-> k, own |-> own, value |-> IF own THEN override[k] ELSE 0,
     place |-> IF k \in Defaults THEN k ELSE 0, public |-> k \in PublicKeys]

Overridden == {k \in SettingKeys : override[k] # 0}

(* In the order of the places, where the platform's rows are the older ones.    *)
Listing ==
    SetToSortSeq({SettingRow(k, FALSE) : k \in Defaults} \cup {SettingRow(k, TRUE) : k \in Overridden},
                 LAMBDA r, s : \/ r.place < s.place
                               \/ r.place = s.place /\ (r.key < s.key \/ (r.key = s.key /\ ~r.own)))

(* The first row of a key has its place; the tenant's row takes it over.       *)
preferTenantSettingOverrides(rs) ==
    FoldLeft(LAMBDA effective, r :
                LET index == {n \in DOMAIN effective : effective[n].key = r.key}
                IN  IF index = {} THEN Append(effective, r)
                    ELSE [n \in DOMAIN effective |-> IF n \in index /\ r.own THEN r ELSE effective[n]],
             <<>>, rs)

ListSettings   == preferTenantSettingOverrides(Listing)
ListPublic     == SelectSeq(ListSettings, LAMBDA r : r.public)
PublicSettings == {<<r.key, r.value>> : r \in ToSet(ListPublic)}

(* What a request for one setting gets: the override before the platform's row. *)
Setting(k) == SettingRow(k, k \in Overridden)

---------------------------------------------------------------------------------
(* What was answered as saved last is what is stored, save for keys whose    *)
(* first override came while two saves of the key were open.                 *)
AnsweredIsStored == \A k \in SettingKeys \ raced : override[k] = answered[k]

(* Saves never wait for each other: the database would have to abort one.    *)
NobodyWaitsInCircles == \A p, q \in Savers : ~(Waits(p, q) /\ Waits(q, p))

(* In whatever order the rows come, each key is listed once, in the order in    *)
(* which they first come, with the tenant's row if there is one.               *)
OverridesPrevail ==
    \A rs \in SetToAllKPermutations([key : {1, 2}, own : BOOLEAN]) :
        LET effective == preferTenantSettingOverrides(rs)
            First(n)  == Min({m \in DOMAIN rs : rs[m].key = effective[n].key})
        IN  /\ {r.key : r \in ToSet(effective)} = {r.key : r \in ToSet(rs)}
            /\ \A n, m \in DOMAIN effective : n < m => First(n) < First(m)
            /\ \A n \in DOMAIN effective :
                  effective[n].own <=> [key |-> effective[n].key, own |-> TRUE] \in ToSet(rs)

(* "A tenant override of a global setting must retain its metadata so            *)
(* list/public APIs expose the overridden value in the same place": the list     *)
(* shows each setting once, as a request for it alone gets it, and everyone     *)
(* sees the public ones and no others.                                         *)
ListingsAgree ==
    /\ ToSet(ListSettings) = {Setting(k) : k \in Defaults \cup Overridden}
    /\ Len(ListSettings) = Cardinality(Defaults \cup Overridden)
    /\ PublicSettings = {<<k, override[k]>> : k \in PublicKeys}

SettingsHold == AnsweredIsStored /\ NobodyWaitsInCircles /\ OverridesPrevail /\ ListingsAgree
=================================================================================
