------------------------------ MODULE CacheDrivers ------------------------------
(***************************************************************************)
(* The two drivers of the cache.  In memory every operation holds the lock,  *)
(* but a reader that has found an entry expired takes the lock anew to       *)
(* remove whatever is there then, and a write to a full map makes room by    *)
(* dropping the entry that expires first.  In Redis entries expire there,    *)
(* and deleting a prefix is a scan for keys and a deletion of those found.   *)
(***************************************************************************)
EXTENDS Integers, FiniteSets

CONSTANTS
    Backends,     \* among "memory", "redis"
    Entries,      \* keys, all of one prefix
    CacheUsers,   \* callers at work at the same time
    MaxEntries,   \* capacity of the map
    MaxTime,      \* bound of the clock
    MaxValues     \* bound: values set; each is its number

ASSUME CacheAssumption == {MaxEntries, MaxTime, MaxValues} \subseteq Nat /\ MaxEntries > 0

VARIABLES
    backend, time,
    cached,       \* cached[k]: value and expiry; value 0 for no entry
    call,         \* call[u]: what caller u does
    values,
    purged,       \* history: purged[k]: values set before a deletion of the prefix that ended
    expected,     \* history: keys that were set and not deleted, dropped or expired since
    overtaken     \* history: keys whose fresh entry a late reader removed

cacheHistory == <<purged, expected, overtaken>>
cacheVars    == <<backend, time, cached, call, values, cacheHistory>>

Clock   == 0 .. MaxTime
NoEntry == [value |-> 0, expires |-> 0]
NoCacheCall  == [step |-> "idle"]
Removing == [step : {"remove"}, key : Entries]
Scanning == [step : {"scan", "del"}, began : 0 .. MaxValues, found : SUBSET Entries]

CacheTypeOK ==
    /\ backend \in Backends /\ time \in Clock
    /\ cached \in [Entries -> [value : 0 .. MaxValues, expires : 0 .. MaxTime + 1]]
    /\ \A u \in CacheUsers : call[u] = NoCacheCall \/ call[u] \in Removing \cup Scanning
    /\ values \in 0 .. MaxValues
    /\ purged \in [Entries -> 0 .. MaxValues]
    /\ expected \subseteq Entries /\ overtaken \subseteq Entries

CacheInit ==
    /\ backend \in Backends /\ time = 0
    /\ cached = [k \in Entries |-> NoEntry]
    /\ call = [u \in CacheUsers |-> NoCacheCall] /\ values = 0
    /\ purged = [k \in Entries |-> 0] /\ expected = {} /\ overtaken = {}

---------------------------------------------------------------------------------
Present       == {k \in Entries : cached[k] # NoEntry}
Expired(k, t) == cached[k].expires < t

Without(ks) == [k \in Entries |-> IF k \in ks THEN NoEntry ELSE cached[k]]

EndCall(u) == call' = [call EXCEPT ![u] = NoCacheCall]

(* In Redis what has expired is gone; in memory it stays till it is met.     *)
Advance ==
    /\ time < MaxTime /\ time' = time + 1
    /\ cached' = IF backend = "redis" THEN Without({k \in Present : Expired(k, time')}) ELSE cached
    /\ expected' = {k \in expected : ~Expired(k, time')}
    /\ UNCHANGED <<backend, call, values, purged, overtaken>>

(* An expired entry is a miss, and is removed in a step of its own.          *)
GetExpired(u, k) ==
    /\ backend = "memory" /\ call[u] = NoCacheCall
    /\ k \in Present /\ Expired(k, time)
    /\ call' = [call EXCEPT ![u] = [step |-> "remove", key |-> k]]
    /\ UNCHANGED <<backend, time, cached, values, cacheHistory>>

RemoveExpired(u) ==
    /\ call[u].step = "remove"
    /\ LET k == call[u].key
       IN  /\ cached' = Without({k})
           /\ expected' = expected \ {k}
           /\ overtaken' = IF k \in expected THEN overtaken \cup {k} ELSE overtaken
    /\ EndCall(u)
    /\ UNCHANGED <<backend, time, values, purged>>

(* For the mutant: the entry that expires last goes.                         *)
Latest == {k \in Present : \A j \in Present : cached[j].expires <= cached[k].expires}

Oldest == {k \in Present : \A j \in Present : cached[k].expires <= cached[j].expires}

(* A full map makes room even when the key is there already.                 *)
Dropped == IF backend = "memory" /\ Cardinality(Present) >= MaxEntries THEN Oldest ELSE {}

Set(k, ttl) ==
    /\ values < MaxValues /\ time + ttl <= MaxTime
    /\ values' = values + 1
    /\ \E out \in SUBSET Dropped :
          /\ Cardinality(out) = IF Dropped = {} THEN 0 ELSE 1
          /\ cached' = [Without(out) EXCEPT ![k] = [value |-> values', expires |-> time + ttl]]
          /\ expected' = (expected \ out) \cup {k}
    /\ overtaken' = overtaken \ {k}
    /\ UNCHANGED <<backend, time, call, purged>>

Delete(k) ==
    /\ k \in Present
    /\ cached' = Without({k}) /\ expected' = expected \ {k}
    /\ UNCHANGED <<backend, time, call, values, purged, overtaken>>

---------------------------------------------------------------------------------
(* Deleting the prefix: at once in memory.                                   *)
DeletePrefix ==
    /\ backend = "memory" /\ Present # {}
    /\ cached' = Without(Entries)
    /\ purged' = [k \in Entries |-> values] /\ expected' = {}
    /\ UNCHANGED <<backend, time, call, values, overtaken>>

StartScan(u) ==
    /\ backend = "redis" /\ call[u] = NoCacheCall
    /\ call' = [call EXCEPT ![u] = [step |-> "scan", began |-> values, found |-> Present]]
    /\ UNCHANGED <<backend, time, cached, values, cacheHistory>>

(* For the mutant: keys that are there throughout may be missed.             *)
AnyScan(u) == SUBSET Present

(* A scan finds every key that is there throughout, and any that come, go or *)
(* are set anew.                                                             *)
ScanResults(u) ==
    {ks \in SUBSET Entries :
        {k \in call[u].found \cap Present : cached[k].value <= call[u].began} \subseteq ks}

EndScan(u) ==
    /\ call[u].step = "scan"
    /\ \E ks \in ScanResults(u) : call' = [call EXCEPT ![u].step = "del", ![u].found = ks]
    /\ UNCHANGED <<backend, time, cached, values, cacheHistory>>

DeleteFound(u) ==
    /\ call[u].step = "del"
    /\ cached' = Without(call[u].found) /\ expected' = expected \ call[u].found
    /\ purged' = [k \in Entries |-> IF purged[k] < call[u].began THEN call[u].began ELSE purged[k]]
    /\ EndCall(u)
    /\ UNCHANGED <<backend, time, values, overtaken>>

(* Redis does not answer, and nothing of the rest is done.                   *)
PurgeFails(u) ==
    /\ call[u].step \in {"scan", "del"}
    /\ EndCall(u)
    /\ UNCHANGED <<backend, time, cached, values, cacheHistory>>

CacheNext ==
    \/ Advance \/ DeletePrefix
    \/ \E k \in Entries : Delete(k) \/ \E ttl \in 0 .. 1 : Set(k, ttl)
    \/ \E u \in CacheUsers :
          \/ \E k \in Entries : GetExpired(u, k)
          \/ RemoveExpired(u) \/ StartScan(u) \/ EndScan(u) \/ DeleteFound(u) \/ PurgeFails(u)

CacheSpec == CacheInit /\ [][CacheNext]_cacheVars

---------------------------------------------------------------------------------
(* The map never grows beyond its capacity.                                  *)
WithinCapacity == backend = "memory" => Cardinality(Present) <= MaxEntries

(* No value set before a deletion of the prefix began is there once the      *)
(* deletion has ended well.                                                  *)
PurgedIsGone == \A k \in Present : cached[k].value > purged[k]

(* What was set and should be there is there, unless a reader who had found  *)
(* the entry before it expired removed the new one.                          *)
FreshIsThere == \A k \in expected : k \in Present \/ k \in overtaken

CacheHolds == WithinCapacity /\ PurgedIsGone /\ FreshIsThere
=================================================================================
