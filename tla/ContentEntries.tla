----------------------------- MODULE ContentEntries -----------------------------
(***************************************************************************)
(* Content types and their entries, for one tenant and one uid: a type that  *)
(* is deleted may be created anew under the same uid and another id.  Each   *)
(* request first asks for the type, in the cache of its store and then in    *)
(* the database, and works with that copy; an entry is loaded, changed and   *)
(* saved as a whole row, and Save inserts a row that is gone; a type is      *)
(* deleted in three statements without a transaction.                        *)
(*                                                                          *)
(* A row's data is the set of fields it fills; a schema is the set of fields *)
(* a type requires.  Every stored type has the draft workflow, whatever was  *)
(* asked for: the column's default TRUE replaces a FALSE on insert.          *)
(***************************************************************************)
EXTENDS Integers, FiniteSets

CONSTANTS
    Clients,      \* requests at work at the same time
    Caches,       \* one Redis, or the memory of each process
    Fields,       \* names of fields
    Locales,      \* the first is the default of a new entry
    DefaultLocale,
    MaxTypes,     \* bound: types ever created
    MaxEntries,   \* bound: entries ever created
    MaxRequests,  \* bound: requests begun
    MaxFaults     \* bound: requests that die between two steps

ASSUME LocaleAssumption == DefaultLocale \in Locales
ASSUME ContentBounds == {MaxTypes, MaxEntries, MaxRequests, MaxFaults} \subseteq Nat

VARIABLES
    types,        \* types[t]: the rows of type t
    entry,        \* entry[e]: the row of entry e
    typeCache,    \* typeCache[k]: the type cached for the uid
    request,      \* request[c]: what client c is being served
    nextType, nextEntry, begun, faults,
    decided,      \* history: what became of entry e, by the acknowledged requests
    raced,        \* history: entries saved over a row other than the one loaded
    seen,         \* history: seen[e]: entries there when e looked for a translation
    stale         \* history: stale[k]: what k holds was read before the type went,
                  \* or the type was deleted through another cache or a dying request

rows     == <<types, entry, nextType, nextEntry>>
history  == <<decided, raced, seen, stale>>
contentVars == <<rows, typeCache, request, begun, faults, history>>

TypeIds  == 1 .. MaxTypes
EntryIds == 1 .. MaxEntries

EntryOps == {"create", "import", "translate", "update", "publish", "unpublish", "delete"}
Ops      == EntryOps \cup {"read", "deleteType"}

TypeRow  == [requires : SUBSET Fields, state : {"live", "fieldless"}]
EntryRow == [type : TypeIds, data : SUBSET Fields, locale : Locales,
             group : EntryIds, status : {"draft", "published"}]
TypeCopy == [id : TypeIds, requires : SUBSET Fields]
Input    == [fills : SUBSET Fields, blanks : SUBSET Fields, locale : Locales]
Phases   == {"type", "fill", "load", "save", "look", "insert", "rows",
             "entries", "fields", "row", "invalidate"}

None == [none |-> TRUE]
Idle == [phase |-> "idle"]

Request == [phase : Phases, op : Ops, cache : Caches, ct : TypeCopy \cup {None},
            of : EntryIds, copy : EntryRow \cup {None}, input : Input,
            left : SUBSET SUBSET Fields, seen : SUBSET EntryIds]

ContentTypeOK ==
    /\ types \in [TypeIds -> TypeRow \cup {None}]
    /\ entry \in [EntryIds -> EntryRow \cup {None}]
    /\ typeCache \in [Caches -> TypeCopy \cup {None}]
    /\ \A c \in Clients : request[c] = Idle \/ request[c] \in Request
    /\ nextType \in 1 .. MaxTypes + 1 /\ nextEntry \in 1 .. MaxEntries + 1
    /\ begun \in 0 .. MaxRequests /\ faults \in 0 .. MaxFaults
    /\ decided \in [EntryIds -> {"none", "draft", "published", "deleted"}]
    /\ raced \subseteq EntryIds
    /\ seen \in [EntryIds -> SUBSET EntryIds]
    /\ stale \in [Caches -> BOOLEAN]

ContentInit ==
    /\ types = [t \in TypeIds |-> None]
    /\ entry = [e \in EntryIds |-> None]
    /\ typeCache = [k \in Caches |-> None]
    /\ request = [c \in Clients |-> Idle]
    /\ nextType = 1 /\ nextEntry = 1 /\ begun = 0 /\ faults = 0
    /\ decided = [e \in EntryIds |-> "none"]
    /\ raced = {}
    /\ seen = [e \in EntryIds |-> {}]
    /\ stale = [k \in Caches |-> FALSE]

---------------------------------------------------------------------------------
(* Tables and requests.                                                      *)

Stored  == {t \in TypeIds : types[t] # None}
Entries == {e \in EntryIds : entry[e] # None}
OfType(t) == {e \in Entries : entry[e].type = t}

At(c, phase) == request[c].phase = phase
Serves(c, op) == request[c] # Idle /\ request[c].op = op

Enter(c, phase) == request' = [request EXCEPT ![c].phase = phase]
Finish(c) == request' = [request EXCEPT ![c] = Idle]

(* The schema as FindByUID loads it, the fields after the type; without its  *)
(* fields a type requires nothing.                                           *)
FindByUID(t) ==
    [id |-> t, requires |-> IF types[t].state = "live" THEN types[t].requires ELSE {}]

validateEntryData(ct, data) == ct.requires \subseteq data

Merged(data, input) == (data \cup input.fills) \ input.blanks

(* For the mutants: the status as the request leaves it; published at once.  *)
initialEntryStatusAsAsked == ""
initialEntryStatusPublic == "published"

(* Every stored type has the draft workflow.                                 *)
initialEntryStatus == "draft"

FirstPhase(op) == IF op = "deleteType" THEN "entries" ELSE "type"

NextPhase(op) ==
    CASE op \in {"create"} -> "insert"
      [] op = "import"     -> "rows"
      [] op = "delete"     -> "row"
      [] OTHER             -> "load"

Begin(c) ==
    /\ At(c, "idle")
    /\ begun < MaxRequests
    /\ begun' = begun + 1
    /\ \E op \in Ops, k \in Caches, e \in EntryIds, input \in Input,
          left \in SUBSET SUBSET Fields :
          /\ Cardinality(left) <= 2
          /\ op # "import" => left = {}
          /\ op \notin {"create", "update", "translate"} => input.fills \cup input.blanks = {}
          /\ op \notin {"create", "import", "translate"} => input.locale = DefaultLocale
          /\ op \in {"create", "import", "read", "deleteType"} => e = 1
          /\ op \notin {"create", "import", "read", "deleteType"} => e < nextEntry
          /\ op = "create" => input.blanks = {}
          /\ input.fills \cap input.blanks = {}
          /\ op = "deleteType" => Stored # {}
          /\ \E ct \in IF op = "deleteType"
                       THEN {[id |-> t, requires |-> {}] : t \in Stored} ELSE {None} :
                request' = [request EXCEPT ![c] =
                    [phase |-> FirstPhase(op), op |-> op, cache |-> k, ct |-> ct,
                     of |-> e, copy |-> None, input |-> input, left |-> left,
                     seen |-> {}]]
    /\ UNCHANGED <<rows, typeCache, faults, history>>

---------------------------------------------------------------------------------
(* GetContentType: the cache, the database, and the fill.                    *)

GoOn(c, ct) ==
    LET r == request[c] IN
    request' = [request EXCEPT ![c] = IF r.op = "read" THEN Idle
                   ELSE [r EXCEPT !.phase = NextPhase(r.op), !.ct = ct]]

GetCachedType(c) ==
    /\ At(c, "type")
    /\ typeCache[request[c].cache] # None
    /\ GoOn(c, typeCache[request[c].cache])
    /\ UNCHANGED <<rows, typeCache, begun, faults, history>>

LoadType(c) ==
    /\ At(c, "type")
    /\ typeCache[request[c].cache] = None
    /\ IF Stored = {} THEN Finish(c)
       ELSE \E t \in Stored :
               request' = [request EXCEPT ![c].phase = "fill", ![c].ct = FindByUID(t)]
    /\ UNCHANGED <<rows, typeCache, begun, faults, history>>

FillType(c) ==
    /\ At(c, "fill")
    /\ LET r == request[c] IN
          /\ typeCache' = [typeCache EXCEPT ![r.cache] = r.ct]
          /\ stale' = [stale EXCEPT ![r.cache] = r.ct.id \notin Stored]
          /\ GoOn(c, r.ct)
    /\ UNCHANGED <<rows, begun, faults, decided, raced, seen>>

(* The time to live of a cached type ends.                                   *)
ExpireType(k) ==
    /\ typeCache[k] # None
    /\ typeCache' = [typeCache EXCEPT ![k] = None]
    /\ stale' = [stale EXCEPT ![k] = FALSE]
    /\ UNCHANGED <<rows, request, begun, faults, decided, raced, seen>>

---------------------------------------------------------------------------------
(* Types.                                                                    *)

(* The count by uid and the unique index admit one type; nothing is cached.  *)
CreateContentType ==
    /\ Stored = {} /\ nextType <= MaxTypes
    /\ \E requires \in SUBSET Fields :
          types' = [types EXCEPT ![nextType] = [requires |-> requires, state |-> "live"]]
    /\ nextType' = nextType + 1
    /\ UNCHANGED <<entry, nextEntry, typeCache, request, begun, faults, history>>

(* DeleteContentType: its entries, its fields, its row, then the cache.      *)
DeleteEntriesOfType(c) ==
    /\ At(c, "entries")
    /\ LET gone == OfType(request[c].ct.id) IN
          /\ entry' = [e \in EntryIds |-> IF e \in gone THEN None ELSE entry[e]]
          /\ decided' = [e \in EntryIds |-> IF e \in gone THEN "deleted" ELSE decided[e]]
    /\ Enter(c, "fields")
    /\ UNCHANGED <<types, nextType, nextEntry, typeCache, begun, faults, raced, seen, stale>>

DeleteFields(c) ==
    /\ At(c, "fields")
    /\ LET t == request[c].ct.id IN
          types' = IF t \in Stored THEN [types EXCEPT ![t].state = "fieldless"] ELSE types
    /\ Enter(c, "row")
    /\ UNCHANGED <<entry, nextType, nextEntry, typeCache, begun, faults, history>>

DeleteTypeRow(c) ==
    /\ At(c, "row") /\ Serves(c, "deleteType")
    /\ LET r == request[c] IN
          /\ types' = [types EXCEPT ![r.ct.id] = None]
          /\ stale' = [k \in Caches |->
                stale[k] \/ (k # r.cache /\ typeCache[k] # None /\ typeCache[k].id = r.ct.id)]
    /\ Enter(c, "invalidate")
    /\ UNCHANGED <<entry, nextType, nextEntry, typeCache, begun, faults, decided, raced, seen>>

(* For the mutants: the cache is not told.                                   *)
InvalidateNothing(c) ==
    /\ At(c, "invalidate")
    /\ Finish(c)
    /\ UNCHANGED <<rows, typeCache, begun, faults, history>>

InvalidateType(c) ==
    /\ At(c, "invalidate")
    /\ typeCache' = [typeCache EXCEPT ![request[c].cache] = None]
    /\ stale' = [stale EXCEPT ![request[c].cache] = FALSE]
    /\ Finish(c)
    /\ UNCHANGED <<rows, begun, faults, decided, raced, seen>>

---------------------------------------------------------------------------------
(* New entries.                                                              *)

Insert(c, data, locale, group, sawWhat) ==
    /\ nextEntry <= MaxEntries
    /\ entry' = [entry EXCEPT ![nextEntry] =
          [type |-> request[c].ct.id, data |-> data, locale |-> locale,
           group |-> group, status |-> initialEntryStatus]]
    /\ decided' = [decided EXCEPT ![nextEntry] = "draft"]
    /\ seen' = [seen EXCEPT ![nextEntry] = sawWhat]
    /\ nextEntry' = nextEntry + 1

(* An entry without a group is the root of its own.                          *)
CreateEntry(c) ==
    /\ At(c, "insert") /\ Serves(c, "create")
    /\ LET r == request[c] IN
          IF validateEntryData(r.ct, r.input.fills)
          THEN Insert(c, r.input.fills, r.input.locale, nextEntry, Entries)
          ELSE UNCHANGED <<entry, nextEntry, decided, seen>>
    /\ Finish(c)
    /\ UNCHANGED <<types, nextType, typeCache, begun, faults, raced, stale>>

(* All documents are validated before the first insert; the inserts are one  *)
(* by one, and one that fails is passed over.                                *)
ImportEntries(c) ==
    /\ At(c, "rows")
    /\ LET r == request[c] IN
          IF r.left = {} \/ \E data \in r.left : ~ validateEntryData(r.ct, data)
          THEN Finish(c) /\ UNCHANGED <<entry, nextEntry, decided, seen>>
          ELSE \E data \in r.left :
                  /\ request' = [request EXCEPT ![c].left = @ \ {data}]
                  /\ \/ Insert(c, data, r.input.locale, nextEntry, Entries)
                     \/ UNCHANGED <<entry, nextEntry, decided, seen>>
    /\ UNCHANGED <<types, nextType, typeCache, begun, faults, raced, stale>>

(* For the mutants: the root, which has no group, is not among them.         *)
FindTranslationBesidesRoot(t, group, locale) ==
    {e \in OfType(t) : e # group /\ entry[e].group = group /\ entry[e].locale = locale}

(* Those of the group in the locale: the root has no group but its own id.   *)
FindTranslationInLocale(t, group, locale) ==
    {e \in OfType(t) : entry[e].group = group /\ entry[e].locale = locale}

LookForTranslation(c) ==
    /\ At(c, "look")
    /\ LET r == request[c] IN
          IF FindTranslationInLocale(r.ct.id, r.copy.group, r.input.locale) # {}
             \/ ~ validateEntryData(r.ct, Merged(r.copy.data, r.input))
          THEN Finish(c)
          ELSE request' = [request EXCEPT ![c].phase = "insert", ![c].seen = Entries]
    /\ UNCHANGED <<rows, typeCache, begun, faults, history>>

CreateEntryTranslation(c) ==
    /\ At(c, "insert") /\ Serves(c, "translate")
    /\ LET r == request[c] IN
          Insert(c, Merged(r.copy.data, r.input), r.input.locale, r.copy.group, r.seen)
    /\ Finish(c)
    /\ UNCHANGED <<types, nextType, typeCache, begun, faults, raced, stale>>

---------------------------------------------------------------------------------
(* Entries that are there.                                                   *)

LoadEntry(c) ==
    /\ At(c, "load")
    /\ LET r == request[c] IN
          IF r.of \notin OfType(r.ct.id) THEN Finish(c)
          ELSE request' = [request EXCEPT ![c].copy = entry[r.of],
                  ![c].phase = IF r.op = "translate" THEN "look" ELSE "save"]
    /\ UNCHANGED <<rows, typeCache, begun, faults, history>>

Edited(r) ==
    CASE r.op = "update"    -> [r.copy EXCEPT !.data = Merged(r.copy.data, r.input)]
      [] r.op = "publish"   -> [r.copy EXCEPT !.status = "published"]
      [] r.op = "unpublish" -> [r.copy EXCEPT !.status = "draft"]

(* For the mutants: the row as loaded is validated, not as it will be.       *)
AcceptedAsLoaded(r) == r.op = "unpublish" \/ validateEntryData(r.ct, r.copy.data)

Accepted(r) == r.op = "unpublish" \/ validateEntryData(r.ct, Edited(r).data)

(* Save updates every column by the primary key and, when no row has it,     *)
(* inserts one.                                                              *)
SaveEntry(c) ==
    /\ At(c, "save")
    /\ LET r == request[c] IN
          IF Accepted(r)
          THEN /\ entry' = [entry EXCEPT ![r.of] = Edited(r)]
               /\ raced' = IF entry[r.of] = r.copy THEN raced ELSE raced \cup {r.of}
               /\ decided' = [decided EXCEPT ![r.of] =
                     CASE r.op = "publish"   -> "published"
                       [] r.op = "unpublish" -> "draft"
                       [] OTHER              -> @]
          ELSE UNCHANGED <<entry, raced, decided>>
    /\ Finish(c)
    /\ UNCHANGED <<types, nextType, nextEntry, typeCache, begun, faults, seen, stale>>

DeleteEntry(c) ==
    /\ At(c, "row") /\ Serves(c, "delete")
    /\ LET r == request[c] IN
          IF r.of \in OfType(r.ct.id)
          THEN /\ entry' = [entry EXCEPT ![r.of] = None]
               /\ decided' = [decided EXCEPT ![r.of] = "deleted"]
          ELSE UNCHANGED <<entry, decided>>
    /\ Finish(c)
    /\ UNCHANGED <<types, nextType, nextEntry, typeCache, begun, faults, raced, seen, stale>>

---------------------------------------------------------------------------------
(* A request dies between two steps: a statement fails, or the process ends. *)
Die(c) ==
    /\ request[c] # Idle
    /\ faults < MaxFaults
    /\ faults' = faults + 1
    /\ stale' = IF At(c, "invalidate") THEN [stale EXCEPT ![request[c].cache] = TRUE]
                ELSE stale
    /\ Finish(c)
    /\ UNCHANGED <<rows, typeCache, begun, decided, raced, seen>>

ContentNext ==
    \/ CreateContentType
    \/ \E k \in Caches : ExpireType(k)
    \/ \E c \in Clients :
          \/ Begin(c) \/ GetCachedType(c) \/ LoadType(c) \/ FillType(c)
          \/ DeleteEntriesOfType(c) \/ DeleteFields(c) \/ DeleteTypeRow(c) \/ InvalidateType(c)
          \/ CreateEntry(c) \/ ImportEntries(c)
          \/ LoadEntry(c) \/ LookForTranslation(c) \/ CreateEntryTranslation(c)
          \/ SaveEntry(c) \/ DeleteEntry(c) \/ Die(c)

ContentSpec == ContentInit /\ [][ContentNext]_contentVars

---------------------------------------------------------------------------------
(* What a public read finds: published entries of a type that is there.      *)
Public == {e \in Entries : entry[e].type \in Stored /\ entry[e].status = "published"}

(* However creations, imports, translations, updates and the deletion of the *)
(* type interleave, an entry of a type whose fields are there has every      *)
(* field the type requires: the whole document is validated before each      *)
(* write (content_service.go:376-389, :430, :648, :732).                     *)
EntriesFitTheirType ==
    \A e \in Entries : LET t == entry[e].type IN
        t \in Stored => FindByUID(t).requires \subseteq entry[e].data

(* An entry is a draft until it is published, is what the last publish or     *)
(* unpublish that was answered made of it, and once deleted is gone, unless  *)
(* a request saved it over a row that had changed since it was loaded.       *)
AsDecided ==
    \A e \in EntryIds \ raced :
        IF entry[e] = None THEN decided[e] \in {"none", "deleted"}
        ELSE entry[e].status = decided[e]

(* Two translations of one group in one locale come only from requests each  *)
(* of which looked before the other's entry was there (content_service.go:718).*)
TwinsDidNotSeeEachOther ==
    \A d, e \in Entries :
        /\ d # e
        /\ entry[d].group = entry[e].group /\ entry[d].locale = entry[e].locale
        => d \notin seen[e]

(* A cache that holds a deleted type got it from a read that overlapped the   *)
(* deletion, or the deletion went through another cache, or died, or is      *)
(* about to invalidate it (content_service.go:203, :222).                    *)
StaleTypeIsExplained ==
    \A k \in Caches :
        typeCache[k] # None /\ typeCache[k].id \notin Stored =>
            \/ stale[k]
            \/ \E c \in Clients : /\ At(c, "invalidate")
                                  /\ request[c].cache = k
                                  /\ request[c].ct.id = typeCache[k].id
=================================================================================
