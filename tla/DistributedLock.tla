----------------------------- MODULE DistributedLock -----------------------------
(***************************************************************************)
(* The lock of internal/cache for one key.  With Redis it is one entry that *)
(* all instances share; without, every process has an entry of its own.     *)
(* An entry holds the token of its owner until the owner deletes it or its  *)
(* time to live ends.  A process has at most one acquisition under way and   *)
(* acquires only a free entry, so its name stands for its random token.     *)
(***************************************************************************)
CONSTANTS
    Instances,    \* server processes
    Shared        \* TRUE: RedisLock; FALSE: one MemoryLock per process

ASSUME SharedAssumption == Shared \in BOOLEAN

VARIABLE lock     \* lock[k]: owner of entry k, or "free"

ASSUME FreeAssumption == "free" \notin Instances /\ "redis" \notin Instances

Keys   == IF Shared THEN {"redis"} ELSE Instances
Key(i) == IF Shared THEN "redis" ELSE i

LockTypeOK == lock \in [Keys -> Instances \cup {"free"}]

LockInit == lock = [k \in Keys |-> "free"]

(* SET NX: succeeds only on a missing entry.                                *)
Acquire(i) ==
    /\ lock[Key(i)] = "free"
    /\ lock' = [lock EXCEPT ![Key(i)] = i]

ReleaseAnyOwner(i) == lock' = [lock EXCEPT ![Key(i)] = "free"]

ReleaseByEmptying(i) == lock' = [lock EXCEPT ![Key(i)] = IF @ = i THEN "" ELSE @]

(* Delete the entry if it still holds the caller's token.                   *)
Release(i) == lock' = [lock EXCEPT ![Key(i)] = IF @ = i THEN "free" ELSE @]

(* The time to live of an entry ends.                                       *)
Lapse(k) ==
    /\ lock[k] # "free"
    /\ lock' = [lock EXCEPT ![k] = "free"]

(* The entries of a MemoryLock die with their process, those of Redis don't. *)
LoseEntries(i) == lock' = IF Shared THEN lock ELSE [lock EXCEPT ![i] = "free"]
=================================================================================
