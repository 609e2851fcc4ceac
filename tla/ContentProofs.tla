------------------------------ MODULE ContentProofs ------------------------------
(***************************************************************************)
(* Proofs about content.  Content types and their entries, for any number of *)
(* clients, caches, types and entries: what a request works with is older    *)
(* than what is stored, and the invariants say of every copy of a type and   *)
(* of every version of an entry, wherever it is held, what still holds of    *)
(* it.  Then the search indexes, for any finite set of articles and any      *)
(* number of jobs: the invariant follows what a job has done of its work.    *)
(***************************************************************************)
EXTENDS MCContent, FiniteSetTheorems, TLAPS

---------------------------------------------------------------------------------
(* The phases each operation goes through, and what it holds in them.        *)

Stages(op) ==
    CASE op = "read"       -> {"type", "fill"}
      [] op = "create"     -> {"type", "fill", "insert"}
      [] op = "import"     -> {"type", "fill", "rows"}
      [] op = "translate"  -> {"type", "fill", "load", "look", "insert"}
      [] op = "delete"     -> {"type", "fill", "row"}
      [] op = "deleteType" -> {"entries", "fields", "row", "invalidate"}
      [] OTHER             -> {"type", "fill", "load", "save"}

Routed(r) ==
    /\ r.phase \in Stages(r.op)
    /\ r.phase # "type" => r.ct \in TypeCopy
    /\ r.phase \in {"look", "save"} \/ (r.phase = "insert" /\ r.op = "translate") =>
          r.copy \in EntryRow /\ r.copy.type = r.ct.id
    /\ r.phase = "insert" /\ r.op = "translate" =>
          validateEntryData(r.ct, Merged(r.copy.data, r.input))

Busy(c) == request[c] # Idle

(* The operations on an entry that is there.                                 *)
OnEntry == {"translate", "update", "publish", "unpublish", "delete"}

TypeInv ==
    /\ ContentTypeOK
    /\ request \in [Clients -> Request \cup {Idle}]
    /\ \A c \in Clients : Busy(c) =>
          /\ Routed(request[c])
          /\ request[c].op \in OnEntry => request[c].of < nextEntry
    /\ \A t \in TypeIds : t >= nextType => types[t] = None
    /\ \A e \in EntryIds : e >= nextEntry => entry[e] = None

(* A version of entry d: its row, or the copy some request has loaded.       *)
Version(d, x) ==
    /\ x # None
    /\ \/ x = entry[d]
       \/ \E c \in Clients : Busy(c) /\ request[c].of = d /\ request[c].copy = x

Known(ct) ==
    /\ ct.id < nextType
    /\ ct.id \in Stored => FindByUID(ct.id).requires \subseteq ct.requires

Fits(x) ==
    /\ x.type < nextType
    /\ x.type \in Stored => FindByUID(x.type).requires \subseteq x.data

FitInv ==
    /\ \A k \in Caches : typeCache[k] # None => Known(typeCache[k])
    /\ \A c \in Clients : Busy(c) /\ request[c].op # "deleteType" /\ request[c].ct # None =>
          Known(request[c].ct)
    /\ \A d \in EntryIds, x \in EntryRow : Version(d, x) => Fits(x)

(* The versions of an entry differ in their data and their status only, and  *)
(* a group holds entries of one type.                                        *)
Akin(x, y) == x.type = y.type /\ x.group = y.group /\ x.locale = y.locale

Twins(x, y) == x.group = y.group /\ x.locale = y.locale

GroupInv ==
    /\ \A d \in EntryIds, x \in EntryRow : Version(d, x) => d < nextEntry /\ x.group < nextEntry
    /\ \A d, e \in EntryIds, x, y \in EntryRow :
          Version(d, x) /\ Version(e, y) /\ x.group = y.group => x.type = y.type
    /\ \A d \in EntryIds, x, y \in EntryRow : Version(d, x) /\ Version(d, y) => Akin(x, y)

TwinInv ==
    /\ \A d, e \in EntryIds : d \in seen[e] => d < nextEntry
    /\ \A d, e \in EntryIds, x, y \in EntryRow :
          d # e /\ Version(d, x) /\ Version(e, y) /\ Twins(x, y) => d \notin seen[e]
    /\ \A c \in Clients : Busy(c) => \A d \in request[c].seen : d < nextEntry
    /\ \A c \in Clients : Busy(c) /\ At(c, "insert") /\ Serves(c, "translate") =>
          \A d \in request[c].seen, x \in EntryRow :
              Version(d, x) =>
                  x.group # request[c].copy.group \/ x.locale # request[c].input.locale

---------------------------------------------------------------------------------
(* What one step of client c may do to its request: it keeps what it was     *)
(* asked for, copies what is stored or cached, and begins with nothing.      *)
Moves(c) ==
    LET r == request[c]
        q == request'[c] IN
    /\ request' \in [Clients -> Request \cup {Idle}]
    /\ \A n \in Clients \ {c} : request'[n] = request[n]
    /\ q # Idle =>
          /\ Routed(q)
          /\ q.op \in OnEntry => q.of < nextEntry
          /\ r # Idle => q.op = r.op /\ q.of = r.of /\ q.input = r.input
          /\ q.copy # None => r # Idle /\ q.copy \in {r.copy, entry[r.of]}
          /\ q.ct # None /\ q.op # "deleteType" =>
                \/ r # Idle /\ q.ct = r.ct
                \/ \E k \in Caches : q.ct = typeCache[k]
                \/ \E t \in Stored : q.ct = FindByUID(t)
          /\ q.seen = {} \/ (r # Idle /\ q.seen = r.seen) \/ q.seen = Entries
          /\ q.phase = "insert" /\ q.op = "translate" =>
                /\ r # Idle /\ r.phase = "look" /\ q.copy = r.copy /\ q.ct = r.ct
                /\ FindTranslationInLocale(r.ct.id, r.copy.group, r.input.locale) = {}
                /\ q.seen = Entries

LEMMA NothingIsNothing ==
    None \notin TypeCopy /\ None \notin EntryRow /\ None \notin TypeRow /\ Idle \notin Request
  <1>1. \A x \in TypeCopy : DOMAIN x = {"id", "requires"}
    BY DEF TypeCopy
  <1>2. \A x \in EntryRow : DOMAIN x = {"type", "data", "locale", "group", "status"}
    BY DEF EntryRow
  <1>3. \A x \in TypeRow : DOMAIN x = {"requires", "state"}
    BY DEF TypeRow
  <1>4. DOMAIN None = {"none"}
    BY DEF None
  <1>5. \A x \in Request : x.phase # "idle"
    BY DEF Request, Phases
  <1>6. Idle.phase = "idle"
    BY DEF Idle
  <1> QED
    BY <1>1, <1>2, <1>3, <1>4, <1>5, <1>6

(* A busy client's request, with what TypeInv says of it.                    *)
LEMMA BusyClients ==
    ASSUME TypeInv, NEW c \in Clients, Busy(c)
    PROVE  /\ request[c] \in Request /\ Routed(request[c])
           /\ request[c].op \in Ops /\ request[c].phase \in Stages(request[c].op)
           /\ request[c].of \in EntryIds /\ request[c].input \in Input
           /\ request[c].cache \in Caches /\ request[c].seen \subseteq EntryIds
           /\ request[c].op \in OnEntry => request[c].of < nextEntry
  <1>1. request[c] \in Request /\ Routed(request[c])
    BY DEF TypeInv, Busy
  <1> QED
    BY <1>1 DEF TypeInv, Busy, Request, Routed

LEMMA PhasesAreBusy ==
    ASSUME NEW c \in Clients, NEW phase, phase # "idle", At(c, phase)
    PROVE  Busy(c)
  BY DEF At, Busy, Idle

LEMMA EndsMove ==
    ASSUME TypeInv, NEW c \in Clients, Finish(c)
    PROVE  Moves(c) /\ request'[c] = Idle
  <1>1. request \in [Clients -> Request \cup {Idle}]
    BY DEF TypeInv
  <1>2. request' = [request EXCEPT ![c] = Idle]
    BY DEF Finish
  <1>3. request'[c] = Idle /\ request' \in [Clients -> Request \cup {Idle}]
    BY <1>1, <1>2
  <1>4. \A n \in Clients \ {c} : request'[n] = request[n]
    BY <1>1, <1>2
  <1> QED
    BY <1>3, <1>4 DEF Moves

LEMMA TakesPlace ==
    ASSUME TypeInv, NEW c \in Clients, NEW q \in Request,
           request' = [request EXCEPT ![c] = q]
    PROVE  /\ request' \in [Clients -> Request \cup {Idle}]
           /\ \A n \in Clients \ {c} : request'[n] = request[n]
           /\ request'[c] = q /\ q # Idle
  BY NothingIsNothing DEF TypeInv

LEMMA MovesOn ==
    ASSUME TypeInv, NEW c \in Clients, Busy(c), NEW q \in Request,
           request' = [request EXCEPT ![c] = q],
           q.op = request[c].op, q.of = request[c].of, q.input = request[c].input,
           Routed(q),
           q.copy # None => q.copy \in {request[c].copy, entry[request[c].of]},
           q.ct # None /\ q.op # "deleteType" =>
              \/ q.ct = request[c].ct
              \/ \E k \in Caches : q.ct = typeCache[k]
              \/ \E t \in Stored : q.ct = FindByUID(t),
           q.seen = {} \/ q.seen = request[c].seen \/ q.seen = Entries,
           q.phase = "insert" /\ q.op = "translate" =>
              /\ request[c].phase = "look" /\ q.copy = request[c].copy /\ q.ct = request[c].ct
              /\ FindTranslationInLocale(request[c].ct.id, request[c].copy.group,
                                         request[c].input.locale) = {}
              /\ q.seen = Entries
    PROVE  Moves(c) /\ request'[c] = q
  <1>1. /\ request' \in [Clients -> Request \cup {Idle}]
        /\ \A n \in Clients \ {c} : request'[n] = request[n]
        /\ request'[c] = q
    BY TakesPlace
  <1>2. q.op \in OnEntry => q.of < nextEntry
    BY BusyClients
  <1>3. request[c] # Idle
    BY DEF Busy
  <1> QED
    BY <1>1, <1>2, <1>3 DEF Moves

(* Fields of a request changed, and the request still one.                   *)
LEMMA GoesOn ==
    ASSUME TypeInv, NEW c \in Clients, NEW ct \in TypeCopy, GoOn(c, ct),
           request[c].phase \in {"type", "fill"},
           \/ \E k \in Caches : ct = typeCache[k]
           \/ ct = request[c].ct
    PROVE  Moves(c)
  <1> DEFINE r == request[c]
             q == [r EXCEPT !.phase = NextPhase(r.op), !.ct = ct]
  <1>1. Busy(c) /\ r \in Request /\ r.op \in Ops /\ r.phase \in Stages(r.op)
    BY BusyClients DEF Busy, Idle
  <1>2. r.op # "deleteType"
    BY <1>1 DEF Stages
  <1>3. CASE r.op = "read"
    BY <1>1, <1>3, EndsMove DEF GoOn, Finish
  <1>4. CASE r.op # "read"
    <2>1. request' = [request EXCEPT ![c] = q]
      BY <1>4 DEF GoOn
    <2>2. /\ NextPhase(r.op) \in Stages(r.op) \cap Phases
          /\ NextPhase(r.op) \in {"insert", "rows", "row", "load"}
          /\ NextPhase(r.op) = "insert" => r.op = "create"
      BY <1>1, <1>2, <1>4 DEF NextPhase, Stages, Ops, EntryOps, Phases
    <2>3. /\ q \in Request /\ q.phase = NextPhase(r.op) /\ q.ct = ct /\ q.op = r.op
          /\ q.of = r.of /\ q.input = r.input /\ q.copy = r.copy /\ q.seen = r.seen
      <3> DEFINE phase == NextPhase(r.op)
      <3>1. phase \in Phases
        BY <2>2
      <3> HIDE DEF phase
      <3>2. /\ [r EXCEPT !.phase = phase, !.ct = ct] \in Request
            /\ [r EXCEPT !.phase = phase, !.ct = ct].phase = phase
            /\ [r EXCEPT !.phase = phase, !.ct = ct].ct = ct
            /\ [r EXCEPT !.phase = phase, !.ct = ct].op = r.op
            /\ [r EXCEPT !.phase = phase, !.ct = ct].of = r.of
            /\ [r EXCEPT !.phase = phase, !.ct = ct].input = r.input
            /\ [r EXCEPT !.phase = phase, !.ct = ct].copy = r.copy
            /\ [r EXCEPT !.phase = phase, !.ct = ct].seen = r.seen
        BY <1>1, <3>1 DEF Request
      <3> QED
        BY <3>2 DEF phase
    <2> HIDE DEF q
    <2>4. Routed(q)
      BY <2>2, <2>3 DEF Routed
    <2>5. ~ (q.phase = "insert" /\ q.op = "translate")
      BY <2>2, <2>3
    <2> QED
      BY <1>1, <2>1, <2>3, <2>4, <2>5, MovesOn
  <1> QED
    BY <1>3, <1>4

LEMMA CachedTypeMoves ==
    ASSUME TypeInv, NEW c \in Clients, GetCachedType(c)
    PROVE  Moves(c)
  <1>1. Busy(c) /\ request[c].phase = "type"
    BY PhasesAreBusy DEF GetCachedType, At
  <1>2. request[c].cache \in Caches
    BY <1>1, BusyClients
  <1>3. typeCache[request[c].cache] \in TypeCopy
    BY <1>2 DEF GetCachedType, TypeInv, ContentTypeOK
  <1> QED
    BY <1>1, <1>2, <1>3, GoesOn DEF GetCachedType

LEMMA FillsMove ==
    ASSUME TypeInv, NEW c \in Clients, FillType(c)
    PROVE  Moves(c) /\ Busy(c) /\ request[c].ct \in TypeCopy /\ request[c].op # "deleteType"
  <1>1. Busy(c) /\ request[c].phase = "fill"
    BY PhasesAreBusy DEF FillType, At
  <1>2. Routed(request[c]) /\ request[c].op \in Ops
    BY <1>1, BusyClients
  <1>3. request[c].ct \in TypeCopy /\ request[c].op # "deleteType"
    BY <1>1, <1>2 DEF Routed, Stages
  <1> QED
    BY <1>1, <1>3, GoesOn DEF FillType

LEMMA TypesFound ==
    ASSUME TypeInv, NEW t \in Stored
    PROVE  /\ t \in TypeIds /\ t < nextType /\ types[t] \in TypeRow
           /\ FindByUID(t) \in TypeCopy /\ FindByUID(t).id = t
           /\ FindByUID(t).requires \subseteq types[t].requires
  <1>1. t \in TypeIds /\ types[t] \in TypeRow
    BY DEF Stored, TypeInv, ContentTypeOK
  <1>2. t < nextType
    BY <1>1 DEF Stored, TypeInv, ContentTypeOK, TypeIds
  <1> QED
    BY <1>1, <1>2 DEF FindByUID, TypeCopy, TypeRow

LEMMA LoadsTypeMove ==
    ASSUME TypeInv, NEW c \in Clients, LoadType(c)
    PROVE  Moves(c)
  <1> DEFINE r == request[c]
  <1>1. /\ Busy(c) /\ r.phase = "type" /\ r \in Request /\ r.op \in Ops
        /\ r.phase \in Stages(r.op)
    BY PhasesAreBusy, BusyClients DEF LoadType, At
  <1>2. CASE Stored = {}
    BY <1>2, EndsMove DEF LoadType
  <1>3. CASE Stored # {}
    <2>1. PICK t \in Stored :
             request' = [request EXCEPT ![c].phase = "fill", ![c].ct = FindByUID(t)]
      BY <1>3 DEF LoadType
    <2> DEFINE q == [r EXCEPT !.phase = "fill", !.ct = FindByUID(t)]
    <2>2. request' = [request EXCEPT ![c] = q]
      BY <2>1
    <2>3. FindByUID(t) \in TypeCopy
      BY TypesFound
    <2>4. /\ q \in Request /\ q.phase = "fill" /\ q.ct = FindByUID(t) /\ q.op = r.op
          /\ q.of = r.of /\ q.input = r.input /\ q.copy = r.copy /\ q.seen = r.seen
      BY <1>1, <2>3 DEF Request, Phases
    <2>5. "fill" \in Stages(r.op)
      BY <1>1 DEF Stages, Ops, EntryOps
    <2> HIDE DEF q
    <2>6. Routed(q)
      BY <2>3, <2>4, <2>5 DEF Routed
    <2> QED
      BY <1>1, <2>2, <2>4, <2>6, MovesOn
  <1> QED
    BY <1>2, <1>3

LEMMA BeginsMove ==
    ASSUME TypeInv, NEW c \in Clients, Begin(c)
    PROVE  Moves(c)
  <1>1. PICK op \in Ops, k \in Caches, e \in EntryIds, input \in Input,
             left \in SUBSET SUBSET Fields :
          /\ Cardinality(left) <= 2
          /\ op # "import" => left = {}
          /\ op \notin {"create", "update", "translate"} => input.fills \cup input.blanks = {}
          /\ op \notin {"create", "import", "translate"} => input.locale = DefaultLocale
          /\ op \in {"create", "import", "read", "deleteType"} => e = 1
          /\ op \notin {"create", "import", "read", "deleteType"} => e < nextEntry
          /\ op = "create" => input.blanks = {}
          /\ input.fills \cap input.blanks = {}
          /\ op = "deleteType" => Stored # {}
          /\ \E ct \in IF op = "deleteType"
                       THEN {[id |-> t, requires |-> {}] : t \in Stored} ELSE {None} :
                request' = [request EXCEPT ![c] =
                    [phase |-> FirstPhase(op), op |-> op, cache |-> k, ct |-> ct,
                     of |-> e, copy |-> None, input |-> input, left |-> left,
                     seen |-> {}]]
    BY DEF Begin
  <1>2. PICK ct \in IF op = "deleteType"
                    THEN {[id |-> t, requires |-> {}] : t \in Stored} ELSE {None} :
          request' = [request EXCEPT ![c] =
              [phase |-> FirstPhase(op), op |-> op, cache |-> k, ct |-> ct,
               of |-> e, copy |-> None, input |-> input, left |-> left,
               seen |-> {}]]
    BY <1>1
  <1> DEFINE q == [phase |-> FirstPhase(op), op |-> op, cache |-> k, ct |-> ct,
                   of |-> e, copy |-> None, input |-> input, left |-> left, seen |-> {}]
  <1>3. /\ op = "deleteType" => ct \in TypeCopy
        /\ op # "deleteType" => ct = None
    BY DEF TypeCopy, Stored
  <1>4. /\ FirstPhase(op) \in Phases \cap Stages(op)
        /\ FirstPhase(op) \in {"type", "entries"}
        /\ op # "deleteType" => FirstPhase(op) = "type"
        /\ op = "deleteType" => FirstPhase(op) = "entries"
    BY DEF FirstPhase, Stages, Phases, Ops, EntryOps
  <1>5. q \in Request
    <2> DEFINE phase == FirstPhase(op)
    <2>1. phase \in Phases
      BY <1>4
    <2>2. ct \in TypeCopy \cup {None}
      BY <1>3
    <2> HIDE DEF phase
    <2>3. [phase |-> phase, op |-> op, cache |-> k, ct |-> ct, of |-> e, copy |-> None,
           input |-> input, left |-> left, seen |-> {}] \in Request
      BY <2>1, <2>2 DEF Request
    <2> QED
      BY <2>3 DEF phase
  <1>6. /\ q.phase = FirstPhase(op) /\ q.op = op /\ q.ct = ct /\ q.of = e
        /\ q.copy = None /\ q.seen = {}
    OBVIOUS
  <1>7. request' = [request EXCEPT ![c] = q]
    BY <1>2
  <1> HIDE DEF q
  <1>8. Routed(q)
    BY <1>3, <1>4, <1>6 DEF Routed
  <1>9. /\ request' \in [Clients -> Request \cup {Idle}]
        /\ \A n \in Clients \ {c} : request'[n] = request[n]
        /\ request'[c] = q
    BY <1>5, <1>7, TakesPlace
  <1>10. request[c] = Idle
    <2>1. request[c].phase = "idle"
      BY DEF Begin, At
    <2>2. \A x \in Request : x.phase # "idle"
      BY DEF Request, Phases
    <2> QED
      BY <2>1, <2>2 DEF TypeInv
  <1>11. q.op \in OnEntry => q.of < nextEntry
    BY <1>1, <1>6 DEF OnEntry
  <1>12. q.op # "deleteType" => q.ct = None
    BY <1>3, <1>6
  <1>13. q.phase # "insert"
    BY <1>4, <1>6
  <1> QED
    BY <1>6, <1>8, <1>9, <1>10, <1>11, <1>12, <1>13 DEF Moves

(* A request that enters another phase of its operation, and changes nothing.*)
LEMMA EntersMove ==
    ASSUME TypeInv, NEW c \in Clients, NEW phase, Busy(c), Enter(c, phase),
           phase \in Stages(request[c].op),
           request[c].phase # "type", phase \in {"fields", "row", "invalidate"}
    PROVE  Moves(c)
  <1> DEFINE r == request[c]
             q == [r EXCEPT !.phase = phase]
  <1>1. r \in Request /\ Routed(r)
    BY BusyClients
  <1>2. request' = [request EXCEPT ![c] = q]
    BY DEF Enter
  <1>3. /\ q \in Request /\ q.phase = phase /\ q.ct = r.ct /\ q.op = r.op
        /\ q.of = r.of /\ q.input = r.input /\ q.copy = r.copy /\ q.seen = r.seen
    BY <1>1 DEF Request, Phases
  <1> HIDE DEF q
  <1>4. Routed(q)
    BY <1>1, <1>3 DEF Routed
  <1> QED
    BY <1>2, <1>3, <1>4, MovesOn

(* The deletion of a type: what it deletes it knows from the start.          *)
LEMMA DeletionsMove ==
    ASSUME TypeInv, NEW c \in Clients,
           DeleteEntriesOfType(c) \/ DeleteFields(c) \/ DeleteTypeRow(c) \/ InvalidateType(c)
    PROVE  Moves(c) /\ Busy(c) /\ request[c].op = "deleteType" /\ request[c].ct \in TypeCopy
  <1> DEFINE r == request[c]
  <1>1. Busy(c)
    BY PhasesAreBusy
       DEF DeleteEntriesOfType, DeleteFields, DeleteTypeRow, InvalidateType
  <1>2. r.op \in Ops /\ r.phase \in Stages(r.op) /\ Routed(r)
    BY <1>1, BusyClients
  <1>3. /\ r.phase \in {"entries", "fields", "row", "invalidate"}
        /\ r.phase = "row" => r.op = "deleteType"
    BY DEF DeleteEntriesOfType, DeleteFields, DeleteTypeRow, InvalidateType, At, Serves
  <1>4. r.op = "deleteType" /\ r.ct \in TypeCopy
    BY <1>2, <1>3 DEF Stages, Ops, EntryOps, Routed
  <1>5. {"fields", "row", "invalidate"} \subseteq Stages(r.op)
    BY <1>4 DEF Stages
  <1>6. InvalidateType(c) => Moves(c)
    BY EndsMove DEF InvalidateType
  <1>7. ~ InvalidateType(c) => Moves(c)
    <2>1. r.phase # "type"
      BY <1>3
    <2>2. DeleteEntriesOfType(c) => Moves(c)
      BY <1>1, <1>5, <2>1, EntersMove DEF DeleteEntriesOfType
    <2>3. DeleteFields(c) => Moves(c)
      BY <1>1, <1>5, <2>1, EntersMove DEF DeleteFields
    <2>4. DeleteTypeRow(c) => Moves(c)
      BY <1>1, <1>5, <2>1, EntersMove DEF DeleteTypeRow
    <2> QED
      BY <2>2, <2>3, <2>4
  <1> QED
    BY <1>1, <1>4, <1>6, <1>7

LEMMA ImportsMove ==
    ASSUME TypeInv, NEW c \in Clients, ImportEntries(c)
    PROVE  Moves(c)
  <1> DEFINE r == request[c]
  <1>1. Busy(c) /\ r.phase = "rows"
    BY PhasesAreBusy DEF ImportEntries, At
  <1>2. r \in Request /\ Routed(r) /\ r.op \in Ops
    BY <1>1, BusyClients
  <1>3. CASE Finish(c)
    BY <1>3, EndsMove
  <1>4. CASE ~ Finish(c)
    <2>1. PICK data \in r.left : request' = [request EXCEPT ![c].left = @ \ {data}]
      BY <1>4 DEF ImportEntries
    <2> DEFINE q == [r EXCEPT !.left = @ \ {data}]
    <2>2. request' = [request EXCEPT ![c] = q]
      BY <2>1
    <2>3. /\ q \in Request /\ q.phase = "rows" /\ q.ct = r.ct /\ q.op = r.op
          /\ q.of = r.of /\ q.input = r.input /\ q.copy = r.copy /\ q.seen = r.seen
      BY <1>1, <1>2 DEF Request
    <2> HIDE DEF q
    <2>4. Routed(q)
      BY <1>1, <1>2, <2>3 DEF Routed
    <2> QED
      BY <1>1, <2>2, <2>3, <2>4, MovesOn
  <1> QED
    BY <1>3, <1>4

LEMMA LoadsMove ==
    ASSUME TypeInv, NEW c \in Clients, LoadEntry(c)
    PROVE  Moves(c)
  <1> DEFINE r == request[c]
             phase == IF r.op = "translate" THEN "look" ELSE "save"
  <1>1. Busy(c) /\ r.phase = "load"
    BY PhasesAreBusy DEF LoadEntry, At
  <1>2. /\ r \in Request /\ Routed(r) /\ r.op \in Ops /\ r.of \in EntryIds
        /\ r.phase \in Stages(r.op)
    BY <1>1, BusyClients
  <1>3. CASE r.of \notin OfType(r.ct.id)
    BY <1>3, EndsMove DEF LoadEntry
  <1>4. CASE r.of \in OfType(r.ct.id)
    <2> DEFINE x == entry[r.of]
               q == [r EXCEPT !.copy = x, !.phase = phase]
    <2>1. x \in EntryRow /\ x.type = r.ct.id
      BY <1>2, <1>4 DEF OfType, Entries, TypeInv, ContentTypeOK
    <2>2. request' = [request EXCEPT ![c] = q]
      BY <1>4 DEF LoadEntry
    <2>3. phase \in {"look", "save"} /\ phase \in Phases /\ phase \in Stages(r.op)
      BY <1>1, <1>2 DEF Phases, Stages, Ops, EntryOps
    <2>4. /\ q \in Request /\ q.phase = phase /\ q.ct = r.ct /\ q.op = r.op
          /\ q.of = r.of /\ q.input = r.input /\ q.copy = x /\ q.seen = r.seen
      <3> HIDE DEF x, phase
      <3> QED
        BY <1>2, <2>1, <2>3 DEF Request
    <2> HIDE DEF q
    <2>5. Routed(q)
      BY <1>1, <1>2, <2>1, <2>3, <2>4 DEF Routed
    <2> HIDE DEF x, phase
    <2>6. x = entry[r.of]
      BY DEF x
    <2> QED
      BY <1>1, <2>2, <2>3, <2>4, <2>5, <2>6, MovesOn
  <1> QED
    BY <1>3, <1>4

LEMMA LooksMove ==
    ASSUME TypeInv, NEW c \in Clients, LookForTranslation(c)
    PROVE  Moves(c)
  <1> DEFINE r == request[c]
             q == [r EXCEPT !.phase = "insert", !.seen = Entries]
  <1>1. Busy(c) /\ r.phase = "look"
    BY PhasesAreBusy DEF LookForTranslation, At
  <1>2. /\ r \in Request /\ Routed(r) /\ r.op \in Ops /\ r.of \in EntryIds
        /\ r.phase \in Stages(r.op)
    BY <1>1, BusyClients
  <1>3. r.op = "translate" /\ "insert" \in Stages(r.op)
    BY <1>1, <1>2 DEF Stages, Ops, EntryOps
  <1>4. CASE Finish(c)
    BY <1>4, EndsMove
  <1>5. CASE ~ Finish(c)
    <2>1. /\ FindTranslationInLocale(r.ct.id, r.copy.group, r.input.locale) = {}
          /\ validateEntryData(r.ct, Merged(r.copy.data, r.input))
          /\ request' = [request EXCEPT ![c] = q]
      BY <1>5 DEF LookForTranslation
    <2>2. /\ q \in Request /\ q.phase = "insert" /\ q.ct = r.ct /\ q.op = r.op
          /\ q.of = r.of /\ q.input = r.input /\ q.copy = r.copy /\ q.seen = Entries
      BY <1>2 DEF Request, Phases, Entries
    <2> HIDE DEF q
    <2>3. Routed(q)
      BY <1>1, <1>2, <1>3, <2>1, <2>2 DEF Routed
    <2>4. request[c].phase = "look"
      BY <1>1
    <2> QED
      BY <1>1, <2>1, <2>2, <2>3, <2>4, MovesOn
  <1> QED
    BY <1>4, <1>5

LEMMA FinishersMove ==
    ASSUME TypeInv, NEW c \in Clients,
           \/ CreateEntry(c) \/ CreateEntryTranslation(c) \/ SaveEntry(c)
           \/ DeleteEntry(c) \/ Die(c)
    PROVE  Moves(c)
  BY EndsMove DEF CreateEntry, CreateEntryTranslation, SaveEntry, DeleteEntry, Die

---------------------------------------------------------------------------------
(* What one step of client c may do to the entries.                          *)
Edits(c, d) ==
    LET r == request[c] IN
    /\ r.phase = "save" /\ Accepted(r) /\ d = r.of
    /\ entry'[d] = Edited(r)

Adds(c, d) ==
    LET r == request[c] IN
    /\ Busy(c) /\ r.op \in {"create", "import", "translate"} /\ r.ct \in TypeCopy
    /\ d = nextEntry /\ nextEntry' = nextEntry + 1
    /\ entry'[d] \in EntryRow
    /\ entry'[d].type = r.ct.id /\ entry'[d].status = "draft"
    /\ validateEntryData(r.ct, entry'[d].data)
    /\ \/ entry'[d].group = nextEntry /\ seen'[d] = Entries
       \/ /\ r.phase = "insert" /\ r.op = "translate"
          /\ entry'[d].group = r.copy.group /\ entry'[d].locale = r.input.locale
          /\ seen'[d] = r.seen

Changes(c) ==
    /\ nextEntry' \in {nextEntry, nextEntry + 1} /\ nextEntry' \in 1 .. MaxEntries + 1
    /\ entry' \in [EntryIds -> EntryRow \cup {None}] /\ seen' \in [EntryIds -> SUBSET EntryIds]
    /\ \A d \in EntryIds : entry'[d] = entry[d] \/ entry'[d] = None \/ Edits(c, d) \/ Adds(c, d)
    /\ \A d \in EntryIds : seen'[d] = seen[d] \/ Adds(c, d)

LEMMA ChangedRows ==
    ASSUME NEW r \in Request, r.copy \in EntryRow, r.op \in {"update", "publish", "unpublish"}
    PROVE  /\ Edited(r) \in EntryRow /\ Akin(Edited(r), r.copy)
           /\ r.op = "update"    => Edited(r).status = r.copy.status
           /\ r.op = "publish"   => Edited(r).status = "published"
           /\ r.op = "unpublish" => Edited(r).status = "draft"
           /\ r.op # "update"    => Edited(r).data = r.copy.data
  <1>1. r.input \in Input
    BY DEF Request
  <1>2. Merged(r.copy.data, r.input) \in SUBSET Fields
    BY <1>1 DEF Merged, EntryRow, Input
  <1>3. CASE r.op = "update"
    <2> DEFINE data == Merged(r.copy.data, r.input)
    <2>1. Edited(r) = [r.copy EXCEPT !.data = data]
      BY <1>3 DEF Edited
    <2> HIDE DEF data
    <2>2. data \in SUBSET Fields
      BY <1>2 DEF data
    <2> QED
      BY <1>3, <2>1, <2>2 DEF EntryRow, Akin
  <1>4. CASE r.op = "publish"
    <2>1. Edited(r) = [r.copy EXCEPT !.status = "published"]
      BY <1>4 DEF Edited
    <2> QED
      BY <1>4, <2>1 DEF EntryRow, Akin
  <1>5. CASE r.op = "unpublish"
    <2>1. Edited(r) = [r.copy EXCEPT !.status = "draft"]
      BY <1>5 DEF Edited
    <2> QED
      BY <1>5, <2>1 DEF EntryRow, Akin
  <1> QED
    BY <1>3, <1>4, <1>5

(* A request about to save one.                                              *)
LEMMA Savers ==
    ASSUME TypeInv, NEW c \in Clients, request[c].phase = "save"
    PROVE  /\ Busy(c) /\ request[c] \in Request /\ request[c].of \in EntryIds
           /\ request[c].of < nextEntry
           /\ request[c].op \in {"update", "publish", "unpublish"}
           /\ request[c].copy \in EntryRow /\ request[c].ct \in TypeCopy
           /\ request[c].copy.type = request[c].ct.id
  <1>1. Busy(c)
    BY DEF Busy, Idle
  <1>2. /\ request[c] \in Request /\ Routed(request[c]) /\ request[c].of \in EntryIds
        /\ request[c].op \in Ops /\ "save" \in Stages(request[c].op)
        /\ request[c].op \in OnEntry => request[c].of < nextEntry
    BY <1>1, BusyClients
  <1>3. request[c].op \in {"update", "publish", "unpublish"}
    BY <1>2 DEF Stages, Ops, EntryOps
  <1> QED
    BY <1>1, <1>2, <1>3 DEF Routed, OnEntry

LEMMA Inserted ==
    ASSUME TypeInv, NEW c \in Clients, NEW data \in SUBSET Fields, NEW locale \in Locales,
           NEW group \in EntryIds \cup {nextEntry}, NEW sawWhat \in SUBSET EntryIds,
           request[c].ct \in TypeCopy, Insert(c, data, locale, group, sawWhat)
    PROVE  /\ nextEntry \in EntryIds /\ nextEntry' = nextEntry + 1
           /\ entry'[nextEntry] \in EntryRow
           /\ entry'[nextEntry] = [type |-> request[c].ct.id, data |-> data, locale |-> locale,
                                   group |-> group, status |-> "draft"]
           /\ seen'[nextEntry] = sawWhat /\ decided'[nextEntry] = "draft"
           /\ entry' \in [EntryIds -> EntryRow \cup {None}]
           /\ seen' \in [EntryIds -> SUBSET EntryIds]
           /\ decided' \in [EntryIds -> {"none", "draft", "published", "deleted"}]
           /\ \A d \in EntryIds \ {nextEntry} :
                 entry'[d] = entry[d] /\ seen'[d] = seen[d] /\ decided'[d] = decided[d]
  <1>1. /\ nextEntry \in Nat /\ nextEntry \in EntryIds /\ group \in EntryIds
    BY ContentBounds DEF Insert, TypeInv, ContentTypeOK, EntryIds
  <1> DEFINE x == [type |-> request[c].ct.id, data |-> data, locale |-> locale,
                   group |-> group, status |-> "draft"]
  <1>2. x \in EntryRow
    BY <1>1 DEF EntryRow, TypeCopy
  <1>3. /\ entry' = [entry EXCEPT ![nextEntry] = x]
        /\ seen' = [seen EXCEPT ![nextEntry] = sawWhat]
        /\ decided' = [decided EXCEPT ![nextEntry] = "draft"]
        /\ nextEntry' = nextEntry + 1
    BY DEF Insert, initialEntryStatus
  <1> HIDE DEF x
  <1>4. /\ entry \in [EntryIds -> EntryRow \cup {None}] /\ seen \in [EntryIds -> SUBSET EntryIds]
        /\ decided \in [EntryIds -> {"none", "draft", "published", "deleted"}]
    BY DEF TypeInv, ContentTypeOK
  <1>5. /\ entry'[nextEntry] = x /\ entry' \in [EntryIds -> EntryRow \cup {None}]
        /\ \A d \in EntryIds \ {nextEntry} : entry'[d] = entry[d]
    BY <1>1, <1>2, <1>3, <1>4
  <1>6. /\ seen'[nextEntry] = sawWhat /\ seen' \in [EntryIds -> SUBSET EntryIds]
        /\ \A d \in EntryIds \ {nextEntry} : seen'[d] = seen[d]
    BY <1>1, <1>3, <1>4
  <1>7. /\ decided'[nextEntry] = "draft"
        /\ decided' \in [EntryIds -> {"none", "draft", "published", "deleted"}]
        /\ \A d \in EntryIds \ {nextEntry} : decided'[d] = decided[d]
    BY <1>1, <1>3, <1>4
  <1> QED
    BY <1>1, <1>2, <1>3, <1>5, <1>6, <1>7 DEF x

(* An insertion, as each of the operations makes it, is an addition.         *)
LEMMA InsertionsAdd ==
    ASSUME TypeInv, NEW c \in Clients, NEW data \in SUBSET Fields, NEW locale \in Locales,
           NEW group \in EntryIds \cup {nextEntry}, NEW sawWhat \in SUBSET EntryIds,
           Busy(c), request[c].op \in {"create", "import", "translate"},
           request[c].ct \in TypeCopy, validateEntryData(request[c].ct, data),
           Insert(c, data, locale, group, sawWhat),
           \/ group = nextEntry /\ sawWhat = Entries
           \/ /\ request[c].phase = "insert" /\ request[c].op = "translate"
              /\ group = request[c].copy.group /\ locale = request[c].input.locale
              /\ sawWhat = request[c].seen
    PROVE  Adds(c, nextEntry) /\ Changes(c)
  <1>1. /\ nextEntry \in EntryIds /\ nextEntry' = nextEntry + 1
        /\ entry'[nextEntry] \in EntryRow
        /\ entry'[nextEntry] = [type |-> request[c].ct.id, data |-> data, locale |-> locale,
                                group |-> group, status |-> "draft"]
        /\ seen'[nextEntry] = sawWhat
        /\ entry' \in [EntryIds -> EntryRow \cup {None}] /\ seen' \in [EntryIds -> SUBSET EntryIds]
        /\ \A d \in EntryIds \ {nextEntry} : entry'[d] = entry[d] /\ seen'[d] = seen[d]
    BY Inserted
  <1>2. /\ entry'[nextEntry].type = request[c].ct.id /\ entry'[nextEntry].status = "draft"
        /\ entry'[nextEntry].data = data /\ entry'[nextEntry].group = group
        /\ entry'[nextEntry].locale = locale
    BY <1>1
  <1>3. Adds(c, nextEntry)
    BY <1>1, <1>2 DEF Adds
  <1>4. nextEntry' \in 1 .. MaxEntries + 1
    BY <1>1, ContentBounds DEF EntryIds
  <1> QED
    BY <1>1, <1>3, <1>4 DEF Changes

LEMMA StillChanges ==
    ASSUME TypeInv, NEW c, entry' = entry, nextEntry' = nextEntry, seen' = seen
    PROVE  Changes(c)
  BY DEF Changes, TypeInv, ContentTypeOK

(* What a creation and an import work with.                                  *)
LEMMA Creators ==
    ASSUME TypeInv, NEW c \in Clients,
           CreateEntry(c) \/ ImportEntries(c) \/ CreateEntryTranslation(c)
    PROVE  /\ Busy(c) /\ request[c] \in Request /\ Routed(request[c])
           /\ request[c].op \in {"create", "import", "translate"}
           /\ request[c].ct \in TypeCopy /\ request[c].input \in Input
           /\ request[c].seen \in SUBSET EntryIds /\ Entries \in SUBSET EntryIds
           /\ request[c].left \subseteq SUBSET Fields
  <1> DEFINE r == request[c]
  <1>1. Busy(c) /\ r.phase \in {"insert", "rows"}
    BY PhasesAreBusy DEF CreateEntry, ImportEntries, CreateEntryTranslation, At
  <1>2. r \in Request /\ Routed(r) /\ r.op \in Ops /\ r.phase \in Stages(r.op)
    BY <1>1, BusyClients
  <1>3. r.op \in {"create", "import", "translate"}
    BY <1>1, <1>2 DEF Stages, Ops, EntryOps
  <1>4. r.ct \in TypeCopy
    BY <1>1, <1>2 DEF Routed
  <1> QED
    BY <1>1, <1>2, <1>3, <1>4 DEF Request, Entries

LEMMA CreationsChange ==
    ASSUME TypeInv, NEW c \in Clients, CreateEntry(c)
    PROVE  Changes(c)
  <1> DEFINE r == request[c]
  <1>1. CASE ~ validateEntryData(r.ct, r.input.fills)
    BY <1>1, StillChanges DEF CreateEntry
  <1>2. CASE validateEntryData(r.ct, r.input.fills)
    <2>1. Insert(c, r.input.fills, r.input.locale, nextEntry, Entries)
      BY <1>2 DEF CreateEntry
    <2>2. r.input.fills \in SUBSET Fields /\ r.input.locale \in Locales
      BY Creators DEF Input
    <2> QED
      BY <1>2, <2>1, <2>2, Creators, InsertionsAdd
  <1> QED
    BY <1>1, <1>2

LEMMA ImportsChange ==
    ASSUME TypeInv, NEW c \in Clients, ImportEntries(c)
    PROVE  Changes(c)
  <1> DEFINE r == request[c]
  <1>1. CASE UNCHANGED <<entry, nextEntry, decided, seen>>
    BY <1>1, StillChanges
  <1>2. CASE ~ UNCHANGED <<entry, nextEntry, decided, seen>>
    <2>1. PICK data \in r.left :
             /\ validateEntryData(r.ct, data)
             /\ Insert(c, data, r.input.locale, nextEntry, Entries)
      BY <1>2 DEF ImportEntries
    <2>2. data \in SUBSET Fields /\ r.input.locale \in Locales
      BY Creators DEF Input
    <2> QED
      BY <2>1, <2>2, Creators, InsertionsAdd
  <1> QED
    BY <1>1, <1>2

LEMMA TranslationsChange ==
    ASSUME TypeInv, NEW c \in Clients, CreateEntryTranslation(c)
    PROVE  Changes(c) /\ Adds(c, nextEntry)
  <1> DEFINE r == request[c]
             data == Merged(r.copy.data, r.input)
  <1>1. r.phase = "insert" /\ r.op = "translate"
    BY DEF CreateEntryTranslation, At, Serves
  <1>2. r.copy \in EntryRow /\ validateEntryData(r.ct, data)
    BY <1>1, Creators DEF Routed
  <1>3. /\ data \in SUBSET Fields /\ r.input.locale \in Locales
        /\ r.copy.group \in EntryIds
    BY <1>2, Creators DEF Merged, Input, EntryRow
  <1>4. Insert(c, data, r.input.locale, r.copy.group, r.seen)
    BY DEF CreateEntryTranslation
  <1> HIDE DEF data
  <1> QED
    BY <1>1, <1>2, <1>3, <1>4, Creators, InsertionsAdd

LEMMA SavesChange ==
    ASSUME TypeInv, NEW c \in Clients, SaveEntry(c)
    PROVE  /\ Changes(c) /\ request[c].phase = "save"
           /\ entry' \in [EntryIds -> EntryRow \cup {None}]
           /\ \A d \in EntryIds \ {request[c].of} : entry'[d] = entry[d]
           /\ entry'[request[c].of] \in {entry[request[c].of], Edited(request[c])}
  <1> DEFINE r == request[c]
             x == Edited(r)
  <1>1. r.phase = "save" /\ nextEntry' = nextEntry /\ seen' = seen
    BY DEF SaveEntry, At
  <1>2. x \in EntryRow /\ r.of \in EntryIds
    BY <1>1, Savers, ChangedRows
  <1>3. CASE ~ Accepted(r)
    BY <1>1, <1>3, StillChanges DEF SaveEntry, TypeInv, ContentTypeOK
  <1>4. CASE Accepted(r)
    <2>1. entry' = [entry EXCEPT ![r.of] = x]
      BY <1>4 DEF SaveEntry
    <2> HIDE DEF x
    <2>2. /\ entry'[r.of] = x /\ entry' \in [EntryIds -> EntryRow \cup {None}]
          /\ \A d \in EntryIds \ {r.of} : entry'[d] = entry[d]
      BY <1>2, <2>1 DEF TypeInv, ContentTypeOK
    <2>3. Edits(c, r.of)
      BY <1>1, <1>4, <2>2 DEF Edits, x
    <2> QED
      BY <1>1, <2>2, <2>3 DEF Changes, x, TypeInv, ContentTypeOK
  <1> QED
    BY <1>3, <1>4

LEMMA DeletesChange ==
    ASSUME TypeInv, NEW c \in Clients, DeleteEntry(c) \/ DeleteEntriesOfType(c)
    PROVE  /\ Changes(c)
           /\ entry' \in [EntryIds -> EntryRow \cup {None}]
           /\ \A d \in EntryIds : entry'[d] = entry[d] \/ entry'[d] = None
  <1>1. entry \in [EntryIds -> EntryRow \cup {None}]
    BY DEF TypeInv, ContentTypeOK
  <1>2. /\ entry' \in [EntryIds -> EntryRow \cup {None}]
        /\ \A d \in EntryIds : entry'[d] = entry[d] \/ entry'[d] = None
    <2>1. CASE DeleteEntriesOfType(c)
      BY <1>1, <2>1 DEF DeleteEntriesOfType
    <2>2. CASE DeleteEntry(c)
      BY <1>1, <2>2 DEF DeleteEntry
    <2> QED
      BY <2>1, <2>2
  <1>3. nextEntry' = nextEntry /\ seen' = seen
    BY DEF DeleteEntry, DeleteEntriesOfType
  <1> QED
    BY <1>2, <1>3 DEF Changes, TypeInv, ContentTypeOK

---------------------------------------------------------------------------------
(* What one step may do to the types, and to the caches.                     *)
TypesKept ==
    /\ nextType' >= nextType /\ nextType' \in 1 .. MaxTypes + 1
    /\ \A t \in TypeIds : t < nextType /\ t \in Stored' =>
          t \in Stored /\ FindByUID(t).requires' \subseteq FindByUID(t).requires
    /\ types' \in [TypeIds -> TypeRow \cup {None}]
    /\ \A t \in TypeIds : t >= nextType' => types'[t] = None

CachesFed ==
    /\ typeCache' \in [Caches -> TypeCopy \cup {None}]
    /\ \A k \in Caches :
          \/ typeCache'[k] = None
          \/ typeCache'[k] = typeCache[k]
          \/ \E c \in Clients : /\ Busy(c) /\ request[c].op # "deleteType"
                                /\ typeCache'[k] = request[c].ct /\ request[c].ct \in TypeCopy

LEMMA CreationKeepsTypes ==
    ASSUME TypeInv, CreateContentType
    PROVE  TypesKept
  <1>1. PICK required \in SUBSET Fields :
           types' = [types EXCEPT ![nextType] = [requires |-> required, state |-> "live"]]
    BY DEF CreateContentType
  <1> DEFINE x == [requires |-> required, state |-> "live"]
  <1>2. x \in TypeRow
    BY DEF TypeRow
  <1>3. types' = [types EXCEPT ![nextType] = x]
    BY <1>1
  <1> HIDE DEF x
  <1>4. /\ nextType \in TypeIds /\ nextType' = nextType + 1
        /\ types \in [TypeIds -> TypeRow \cup {None}]
        /\ \A t \in TypeIds : t >= nextType => types[t] = None
        /\ MaxTypes \in Nat /\ nextType \in Nat
    BY ContentBounds DEF CreateContentType, TypeInv, ContentTypeOK, TypeIds
  <1>5. /\ types' \in [TypeIds -> TypeRow \cup {None}]
        /\ \A t \in TypeIds : t # nextType => types'[t] = types[t]
    BY <1>2, <1>3, <1>4
  <1>6. \A t \in TypeIds : t < nextType /\ t \in Stored' =>
          t \in Stored /\ FindByUID(t).requires' = FindByUID(t).requires
    BY <1>4, <1>5 DEF Stored, FindByUID, TypeIds
  <1>7. nextType' >= nextType /\ nextType' \in 1 .. MaxTypes + 1
    BY <1>4 DEF TypeIds
  <1>8. \A t \in TypeIds : t >= nextType' => types'[t] = None
    BY <1>4, <1>5 DEF TypeIds
  <1> QED
    BY <1>5, <1>6, <1>7, <1>8 DEF TypesKept

LEMMA SameTypesKept ==
    ASSUME TypeInv, types' = types, nextType' = nextType
    PROVE  TypesKept
  <1>1. nextType \in Int /\ nextType \in 1 .. MaxTypes + 1
    BY DEF TypeInv, ContentTypeOK
  <1>2. \A t \in TypeIds : t \in Stored' =>
          t \in Stored /\ FindByUID(t).requires' = FindByUID(t).requires
    BY DEF Stored, FindByUID
  <1> QED
    BY <1>1, <1>2 DEF TypesKept, TypeInv, ContentTypeOK

LEMMA DeletionKeepsTypes ==
    ASSUME TypeInv, NEW c \in Clients, DeleteFields(c) \/ DeleteTypeRow(c)
    PROVE  TypesKept
  <1> DEFINE t == request[c].ct.id
  <1>1. t \in TypeIds
    BY DeletionsMove DEF TypeCopy
  <1>2. types \in [TypeIds -> TypeRow \cup {None}] /\ nextType' = nextType /\ nextType \in Int
    BY DEF TypeInv, ContentTypeOK, DeleteFields, DeleteTypeRow
  <1>3. CASE t \notin Stored /\ DeleteFields(c)
    BY <1>2, <1>3, SameTypesKept DEF DeleteFields
  <1>4. CASE t \in Stored /\ DeleteFields(c)
    <2> DEFINE x == [types[t] EXCEPT !.state = "fieldless"]
    <2>1. types' = [types EXCEPT ![t] = x]
      BY <1>4 DEF DeleteFields
    <2>2. x \in TypeRow /\ x.state = "fieldless"
      BY <1>4, TypesFound DEF TypeRow
    <2> HIDE DEF x
    <2>3. types'[t] = x /\ \A s \in TypeIds \ {t} : types'[s] = types[s]
      BY <1>1, <1>2, <2>1
    <2>4. types' \in [TypeIds -> TypeRow \cup {None}]
      BY <1>1, <1>2, <2>1, <2>2
    <2>5. ASSUME NEW s \in TypeIds, s \in Stored'
          PROVE  s \in Stored /\ FindByUID(s).requires' \subseteq FindByUID(s).requires
      <3>1. CASE s = t
        BY <1>4, <2>2, <2>3, <3>1 DEF FindByUID
      <3>2. CASE s # t
        BY <2>3, <2>5, <3>2 DEF FindByUID, Stored
      <3> QED
        BY <3>1, <3>2
    <2>6. \A s \in TypeIds : s >= nextType => types'[s] = None
      <3>1. t < nextType
        BY <1>4, TypesFound
      <3>2. \A s \in TypeIds : s >= nextType => s # t
        BY <1>1, <1>2, <3>1 DEF TypeIds
      <3> QED
        BY <2>3, <3>2 DEF TypeInv
    <2> QED
      BY <1>2, <2>4, <2>5, <2>6 DEF TypesKept, TypeInv, ContentTypeOK
  <1>5. CASE DeleteTypeRow(c)
    <2>1. types' = [types EXCEPT ![t] = None]
      BY <1>5 DEF DeleteTypeRow
    <2>2. types'[t] = None /\ \A s \in TypeIds \ {t} : types'[s] = types[s]
      BY <1>1, <1>2, <2>1
    <2>3. types' \in [TypeIds -> TypeRow \cup {None}]
      BY <1>1, <1>2, <2>1
    <2>4. ASSUME NEW s \in TypeIds, s \in Stored'
          PROVE  s \in Stored /\ FindByUID(s).requires' \subseteq FindByUID(s).requires
      BY <2>2, <2>4 DEF FindByUID, Stored
    <2>5. \A s \in TypeIds : s >= nextType => types'[s] = None
      BY <2>2 DEF TypeInv
    <2> QED
      BY <1>2, <2>3, <2>4, <2>5 DEF TypesKept, TypeInv, ContentTypeOK
  <1> QED
    BY <1>3, <1>4, <1>5

LEMMA SameCachesFed ==
    ASSUME TypeInv, typeCache' = typeCache
    PROVE  CachesFed
  BY DEF CachesFed, TypeInv, ContentTypeOK

LEMMA ClearedCachesFed ==
    ASSUME TypeInv, NEW k \in Caches, typeCache' = [typeCache EXCEPT ![k] = None]
    PROVE  CachesFed /\ typeCache'[k] = None /\ \A j \in Caches \ {k} : typeCache'[j] = typeCache[j]
  <1>1. typeCache \in [Caches -> TypeCopy \cup {None}]
    BY DEF TypeInv, ContentTypeOK
  <1>2. /\ typeCache'[k] = None /\ typeCache' \in [Caches -> TypeCopy \cup {None}]
        /\ \A j \in Caches \ {k} : typeCache'[j] = typeCache[j]
    BY <1>1
  <1> QED
    BY <1>2 DEF CachesFed

LEMMA FilledCachesFed ==
    ASSUME TypeInv, NEW c \in Clients, FillType(c)
    PROVE  /\ CachesFed /\ request[c].cache \in Caches
           /\ typeCache'[request[c].cache] = request[c].ct
           /\ \A j \in Caches \ {request[c].cache} : typeCache'[j] = typeCache[j]
  <1> DEFINE k == request[c].cache
             ct == request[c].ct
  <1>1. Busy(c) /\ request[c].op # "deleteType" /\ ct \in TypeCopy /\ k \in Caches
    BY FillsMove, BusyClients
  <1>2. typeCache' = [typeCache EXCEPT ![k] = ct]
    BY DEF FillType
  <1>3. typeCache \in [Caches -> TypeCopy \cup {None}]
    BY DEF TypeInv, ContentTypeOK
  <1>4. /\ typeCache'[k] = ct /\ typeCache' \in [Caches -> TypeCopy \cup {None}]
        /\ \A j \in Caches \ {k} : typeCache'[j] = typeCache[j]
    BY <1>1, <1>2, <1>3
  <1> QED
    BY <1>1, <1>4 DEF CachesFed

---------------------------------------------------------------------------------
(* One step: some client moves, or none.                                     *)
EntrySteps == \E c \in Clients : Moves(c) /\ Changes(c)

Rests == request' = request /\ entry' = entry /\ nextEntry' = nextEntry /\ seen' = seen

LEMMA ClientsStep ==
    ASSUME TypeInv, NEW c \in Clients,
           \/ Begin(c) \/ GetCachedType(c) \/ LoadType(c) \/ FillType(c)
           \/ DeleteEntriesOfType(c) \/ DeleteFields(c) \/ DeleteTypeRow(c) \/ InvalidateType(c)
           \/ CreateEntry(c) \/ ImportEntries(c)
           \/ LoadEntry(c) \/ LookForTranslation(c) \/ CreateEntryTranslation(c)
           \/ SaveEntry(c) \/ DeleteEntry(c) \/ Die(c)
    PROVE  Moves(c) /\ Changes(c) /\ TypesKept /\ CachesFed
  <1>1. CASE Begin(c) \/ GetCachedType(c) \/ LoadType(c) \/ LoadEntry(c)
                \/ LookForTranslation(c) \/ Die(c)
    <2>1. Moves(c)
      BY <1>1, BeginsMove, CachedTypeMoves, LoadsTypeMove, LoadsMove, LooksMove, FinishersMove
    <2>2. UNCHANGED <<rows, seen, typeCache>>
      BY <1>1 DEF Begin, GetCachedType, LoadType, LoadEntry, LookForTranslation, Die, history
    <2> QED
      BY <2>1, <2>2, StillChanges, SameTypesKept, SameCachesFed DEF rows
  <1>2. CASE FillType(c)
    <2>1. Moves(c) /\ CachesFed
      BY <1>2, FillsMove, FilledCachesFed
    <2>2. UNCHANGED <<rows, seen>>
      BY <1>2 DEF FillType
    <2> QED
      BY <2>1, <2>2, StillChanges, SameTypesKept DEF rows
  <1>3. CASE DeleteFields(c) \/ DeleteTypeRow(c)
    <2>1. Moves(c) /\ TypesKept
      BY <1>3, DeletionsMove, DeletionKeepsTypes
    <2>2. UNCHANGED <<entry, nextEntry, typeCache, seen>>
      BY <1>3 DEF DeleteFields, DeleteTypeRow, history
    <2> QED
      BY <2>1, <2>2, StillChanges, SameCachesFed
  <1>4. CASE InvalidateType(c)
    <2>1. Moves(c)
      BY <1>4, DeletionsMove
    <2>2. CachesFed
      <3>1. request[c].cache \in Caches
        BY <1>4, DeletionsMove, BusyClients
      <3> QED
        BY <1>4, <3>1, ClearedCachesFed DEF InvalidateType
    <2>3. UNCHANGED <<rows, seen>>
      BY <1>4 DEF InvalidateType
    <2> QED
      BY <2>1, <2>2, <2>3, StillChanges, SameTypesKept DEF rows
  <1>5. CASE DeleteEntriesOfType(c) \/ CreateEntry(c) \/ ImportEntries(c)
                \/ CreateEntryTranslation(c) \/ SaveEntry(c) \/ DeleteEntry(c)
    <2>1. Moves(c)
      BY <1>5, DeletionsMove, ImportsMove, FinishersMove
    <2>2. Changes(c)
      BY <1>5, CreationsChange, ImportsChange, TranslationsChange, SavesChange, DeletesChange
    <2>3. UNCHANGED <<types, nextType, typeCache>>
      BY <1>5 DEF DeleteEntriesOfType, CreateEntry, ImportEntries, CreateEntryTranslation,
                  SaveEntry, DeleteEntry
    <2> QED
      BY <2>1, <2>2, <2>3, SameTypesKept, SameCachesFed
  <1> QED
    BY <1>1, <1>2, <1>3, <1>4, <1>5

LEMMA NextSteps ==
    ASSUME TypeInv, [ContentNext]_contentVars
    PROVE  (EntrySteps \/ Rests) /\ TypesKept /\ CachesFed
  <1>1. CASE CreateContentType
    <2>1. Rests /\ typeCache' = typeCache
      BY <1>1 DEF CreateContentType, Rests, history
    <2> QED
      BY <1>1, <2>1, CreationKeepsTypes, SameCachesFed
  <1>2. ASSUME NEW k \in Caches, ExpireType(k)
        PROVE  Rests /\ TypesKept /\ CachesFed
    <2>1. Rests /\ types' = types /\ nextType' = nextType
      BY <1>2 DEF ExpireType, Rests, rows
    <2>2. CachesFed
      BY <1>2, ClearedCachesFed DEF ExpireType
    <2> QED
      BY <2>1, <2>2, SameTypesKept
  <1>3. CASE UNCHANGED contentVars
    <2>1. Rests /\ types' = types /\ nextType' = nextType /\ typeCache' = typeCache
      BY <1>3 DEF contentVars, rows, history, Rests
    <2> QED
      BY <2>1, SameTypesKept, SameCachesFed
  <1>4. ASSUME NEW c \in Clients,
               \/ Begin(c) \/ GetCachedType(c) \/ LoadType(c) \/ FillType(c)
               \/ DeleteEntriesOfType(c) \/ DeleteFields(c) \/ DeleteTypeRow(c)
               \/ InvalidateType(c) \/ CreateEntry(c) \/ ImportEntries(c)
               \/ LoadEntry(c) \/ LookForTranslation(c) \/ CreateEntryTranslation(c)
               \/ SaveEntry(c) \/ DeleteEntry(c) \/ Die(c)
        PROVE  EntrySteps /\ TypesKept /\ CachesFed
    BY <1>4, ClientsStep DEF EntrySteps
  <1> QED
    BY <1>1, <1>2, <1>3, <1>4 DEF ContentNext

---------------------------------------------------------------------------------
(* The types of all this.                                                    *)
HistoryOK ==
    /\ begun \in 0 .. MaxRequests /\ faults \in 0 .. MaxFaults
    /\ decided \in [EntryIds -> {"none", "draft", "published", "deleted"}]
    /\ raced \subseteq EntryIds
    /\ stale \in [Caches -> BOOLEAN]

LEMMA HistoryStep ==
    ASSUME TypeInv, [ContentNext]_contentVars
    PROVE  HistoryOK'
  <1>1. /\ HistoryOK /\ MaxRequests \in Nat /\ MaxFaults \in Nat
    BY ContentBounds DEF HistoryOK, TypeInv, ContentTypeOK
  <1>2. CASE UNCHANGED <<begun, faults, decided, raced, stale>>
    BY <1>1, <1>2 DEF HistoryOK
  <1>3. ASSUME NEW k \in Caches, ExpireType(k)
        PROVE  HistoryOK'
    BY <1>1, <1>3 DEF ExpireType, HistoryOK
  <1>4. ASSUME NEW c \in Clients, Begin(c)
        PROVE  HistoryOK'
    BY <1>1, <1>4 DEF Begin, HistoryOK, history
  <1>5. ASSUME NEW c \in Clients, FillType(c)
        PROVE  HistoryOK'
    <2>1. /\ stale' = [stale EXCEPT ![request[c].cache] = request[c].ct.id \notin Stored]
          /\ UNCHANGED <<begun, faults, decided, raced>>
      BY <1>5 DEF FillType
    <2>2. (request[c].ct.id \notin Stored) \in BOOLEAN
      OBVIOUS
    <2> QED
      BY <1>1, <2>1, <2>2 DEF HistoryOK
  <1>6. ASSUME NEW c \in Clients, DeleteEntriesOfType(c)
        PROVE  HistoryOK'
    BY <1>1, <1>6 DEF DeleteEntriesOfType, HistoryOK
  <1>7. ASSUME NEW c \in Clients, DeleteTypeRow(c)
        PROVE  HistoryOK'
    <2> DEFINE more(k) == stale[k] \/ (k # request[c].cache /\ typeCache[k] # None
                                         /\ typeCache[k].id = request[c].ct.id)
    <2>1. stale' = [k \in Caches |-> more(k)] /\ UNCHANGED <<begun, faults, decided, raced>>
      BY <1>7 DEF DeleteTypeRow
    <2>2. \A k \in Caches : more(k) \in BOOLEAN
      OBVIOUS
    <2> HIDE DEF more
    <2>3. stale' \in [Caches -> BOOLEAN]
      BY <2>1, <2>2
    <2> QED
      BY <1>1, <2>1, <2>3 DEF HistoryOK
  <1>8. ASSUME NEW c \in Clients, InvalidateType(c)
        PROVE  HistoryOK'
    BY <1>1, <1>8 DEF InvalidateType, HistoryOK
  <1>9. ASSUME NEW c \in Clients, CreateEntry(c) \/ ImportEntries(c) \/ CreateEntryTranslation(c)
        PROVE  HistoryOK'
    <2>1. \/ UNCHANGED decided
          \/ decided' = [decided EXCEPT ![nextEntry] = "draft"]
      BY <1>9 DEF CreateEntry, ImportEntries, CreateEntryTranslation, Insert
    <2>2. UNCHANGED <<begun, faults, raced, stale>>
      BY <1>9 DEF CreateEntry, ImportEntries, CreateEntryTranslation
    <2> QED
      BY <1>1, <2>1, <2>2 DEF HistoryOK
  <1>10. ASSUME NEW c \in Clients, SaveEntry(c)
         PROVE  HistoryOK'
    <2> DEFINE r == request[c]
               s == IF r.op = "publish" THEN "published"
                    ELSE IF r.op = "unpublish" THEN "draft" ELSE decided[r.of]
    <2>1. r.of \in EntryIds /\ UNCHANGED <<begun, faults, stale>>
          /\ r.op \in {"update", "publish", "unpublish"}
      BY <1>10, SavesChange, Savers DEF SaveEntry
    <2>2. decided' = decided \/ decided' = [decided EXCEPT ![r.of] = s]
      BY <1>10, <2>1 DEF SaveEntry
    <2>3. s \in {"none", "draft", "published", "deleted"}
      BY <1>1, <2>1 DEF HistoryOK
    <2>4. raced' \in {raced, raced \cup {r.of}}
      BY <1>10 DEF SaveEntry
    <2> HIDE DEF s
    <2> QED
      BY <1>1, <2>1, <2>2, <2>3, <2>4 DEF HistoryOK
  <1>11. ASSUME NEW c \in Clients, DeleteEntry(c)
         PROVE  HistoryOK'
    <2>1. \/ UNCHANGED decided
          \/ decided' = [decided EXCEPT ![request[c].of] = "deleted"]
      BY <1>11 DEF DeleteEntry
    <2>2. UNCHANGED <<begun, faults, raced, stale>>
      BY <1>11 DEF DeleteEntry
    <2> QED
      BY <1>1, <2>1, <2>2 DEF HistoryOK
  <1>12. ASSUME NEW c \in Clients, Die(c)
         PROVE  HistoryOK'
    <2>1. stale' = stale \/ stale' = [stale EXCEPT ![request[c].cache] = TRUE]
      BY <1>12 DEF Die
    <2>2. faults < MaxFaults /\ faults' = faults + 1 /\ UNCHANGED <<begun, decided, raced>>
      BY <1>12 DEF Die
    <2>3. stale' \in [Caches -> BOOLEAN]
      BY <1>1, <2>1 DEF HistoryOK
    <2> QED
      BY <1>1, <2>2, <2>3 DEF HistoryOK
  <1>13. ASSUME NEW c \in Clients,
                GetCachedType(c) \/ LoadType(c) \/ DeleteFields(c) \/ LoadEntry(c)
                  \/ LookForTranslation(c)
         PROVE  UNCHANGED <<begun, faults, decided, raced, stale>>
    BY <1>13 DEF GetCachedType, LoadType, DeleteFields, LoadEntry, LookForTranslation, history
  <1>14. CASE CreateContentType
    BY <1>2, <1>14 DEF CreateContentType, history
  <1>15. CASE UNCHANGED contentVars
    BY <1>2, <1>15 DEF contentVars, history
  <1> QED
    BY <1>2, <1>3, <1>4, <1>5, <1>6, <1>7, <1>8, <1>9, <1>10, <1>11, <1>12, <1>13, <1>14, <1>15
       DEF ContentNext

LEMMA FreshStep ==
    ASSUME TypeInv, NEW c \in Clients, Changes(c)
    PROVE  \A e \in EntryIds : e >= nextEntry' => entry'[e] = None
  <1> SUFFICES ASSUME NEW e \in EntryIds, e >= nextEntry'
               PROVE  entry'[e] = None
    OBVIOUS
  <1>1. nextEntry \in Int /\ e \in Int /\ e >= nextEntry /\ entry[e] = None
    BY DEF TypeInv, ContentTypeOK, EntryIds, Changes
  <1>2. ~ Adds(c, e)
    BY <1>1 DEF Adds
  <1>3. ~ Edits(c, e)
    BY <1>1, Savers DEF Edits
  <1> QED
    BY <1>1, <1>2, <1>3 DEF Changes

LEMMA RequestsStep ==
    ASSUME TypeInv, NEW c \in Clients, Moves(c), Changes(c)
    PROVE  /\ request' \in [Clients -> Request \cup {Idle}]
           /\ \A n \in Clients : Busy(n)' =>
                 /\ Routed(request[n])'
                 /\ request'[n].op \in OnEntry => request'[n].of < nextEntry'
  <1>1. nextEntry \in Int /\ nextEntry' \in Int /\ nextEntry' >= nextEntry
    BY DEF TypeInv, ContentTypeOK, Changes
  <1>2. request' \in [Clients -> Request \cup {Idle}]
    BY DEF Moves
  <1>3. ASSUME NEW n \in Clients, Busy(n)'
        PROVE  /\ Routed(request[n])'
               /\ request'[n].op \in OnEntry =>
                     request'[n].of \in EntryIds /\ request'[n].of < nextEntry
    <2>1. request'[n] # Idle /\ request'[n] \in Request
      BY <1>2, <1>3 DEF Busy
    <2>2. CASE n = c
      <3>1. Routed(request'[c])
        BY <2>1, <2>2 DEF Moves
      <3>2. Routed(request[n])'
        BY <3>1, <2>2 DEF Routed
      <3> QED
        BY <2>1, <2>2, <3>2 DEF Moves, Request
    <2>3. CASE n # c
      <3>1. request'[n] = request[n]
        BY <2>3 DEF Moves
      <3>2. Busy(n)
        BY <2>1, <3>1 DEF Busy
      <3>3. Routed(request[n]) /\ (request[n].op \in OnEntry => request[n].of < nextEntry)
            /\ request[n].of \in EntryIds
        BY <3>2, BusyClients
      <3> QED
        BY <3>1, <3>3 DEF Routed
    <2> QED
      BY <2>2, <2>3
  <1>4. ASSUME NEW n \in Clients, Busy(n)', request'[n].op \in OnEntry
        PROVE  request'[n].of < nextEntry'
    <2>1. request'[n].of \in EntryIds /\ request'[n].of < nextEntry
      BY <1>3, <1>4
    <2> HIDE DEF TypeInv
    <2> QED
      BY <1>1, <2>1 DEF EntryIds
  <1> QED
    BY <1>2, <1>3, <1>4

LEMMA StepTypes ==
    ASSUME TypeInv, [ContentNext]_contentVars
    PROVE  TypeInv'
  <1>1. HistoryOK' /\ TypesKept /\ CachesFed /\ (EntrySteps \/ Rests)
    BY HistoryStep, NextSteps
  <1>2. CASE Rests
    <2>1. /\ request' \in [Clients -> Request \cup {Idle}]
          /\ \A n \in Clients : Busy(n)' =>
                /\ Routed(request[n])'
                /\ request'[n].op \in OnEntry => request'[n].of < nextEntry'
      BY <1>2 DEF Rests, TypeInv, Busy, Routed
    <2>2. \A n \in Clients : request'[n] = Idle \/ request'[n] \in Request
      BY <2>1
    <2> QED
      BY <1>1, <1>2, <2>1, <2>2 DEF Rests, TypeInv, ContentTypeOK, HistoryOK, TypesKept, CachesFed
  <1>3. CASE EntrySteps
    <2>1. PICK c \in Clients : Moves(c) /\ Changes(c)
      BY <1>3 DEF EntrySteps
    <2>2. /\ request' \in [Clients -> Request \cup {Idle}]
          /\ \A n \in Clients : Busy(n)' =>
                /\ Routed(request[n])'
                /\ request'[n].op \in OnEntry => request'[n].of < nextEntry'
      BY <2>1, RequestsStep
    <2>3. \A n \in Clients : request'[n] = Idle \/ request'[n] \in Request
      BY <2>2
    <2>4. \A e \in EntryIds : e >= nextEntry' => entry'[e] = None
      BY <2>1, FreshStep
    <2>5. /\ entry' \in [EntryIds -> EntryRow \cup {None}]
          /\ seen' \in [EntryIds -> SUBSET EntryIds] /\ nextEntry' \in 1 .. MaxEntries + 1
      BY <2>1 DEF Changes
    <2> QED
      BY <1>1, <2>2, <2>3, <2>4, <2>5 DEF TypeInv, ContentTypeOK, HistoryOK, TypesKept, CachesFed
  <1> QED
    BY <1>1, <1>2, <1>3

LEMMA InitTypes == ContentInit => TypeInv
  <1> SUFFICES ASSUME ContentInit
               PROVE  TypeInv
    OBVIOUS
  <1>1. {MaxTypes, MaxEntries, MaxRequests, MaxFaults} \subseteq Nat
    BY ContentBounds
  <1>2. ContentTypeOK
    BY <1>1 DEF ContentInit, ContentTypeOK, TypeIds, EntryIds
  <1> QED
    BY <1>2 DEF ContentInit, TypeInv, Busy

(* Every variable keeps its type, a request is always at a step of what it   *)
(* was asked for, and only what was created has a row.                       *)
THEOREM EntriesTypeCorrect == ContentSpec => []TypeInv
  <1>1. ContentInit => TypeInv
    BY InitTypes
  <1>2. TypeInv /\ [ContentNext]_contentVars => TypeInv'
    BY StepTypes
  <1> QED
    BY <1>1, <1>2, PTL DEF ContentSpec

---------------------------------------------------------------------------------
(* Where the versions of entries come from: each was one before, of the same *)
(* entry and akin, or is the row a step has added.                           *)
LEMMA VersionsCome ==
    ASSUME TypeInv, NEW c \in Clients, Moves(c), Changes(c),
           NEW d \in EntryIds, NEW x \in EntryRow, Version(d, x)'
    PROVE  \/ Version(d, x)
           \/ Edits(c, d) /\ x = Edited(request[c])
           \/ Adds(c, d) /\ x = entry'[d]
  <1>1. CASE x = entry'[d]
    <2>1. x # None
      BY NothingIsNothing
    <2> QED
      BY <1>1, <2>1 DEF Changes, Version, Edits
  <1>2. CASE x # entry'[d]
    <2>1. PICK n \in Clients : request'[n] # Idle /\ request'[n].of = d /\ request'[n].copy = x
      BY <1>2 DEF Version, Busy
    <2>2. x # None
      BY NothingIsNothing
    <2>3. CASE n # c
      BY <2>1, <2>2, <2>3 DEF Moves, Version, Busy
    <2>4. CASE n = c
      <3>1. request[c] # Idle /\ request[c].of = d /\ x \in {request[c].copy, entry[d]}
        BY <2>1, <2>2, <2>4 DEF Moves
      <3> QED
        BY <2>2, <3>1 DEF Version, Busy
    <2> QED
      BY <2>3, <2>4
  <1> QED
    BY <1>1, <1>2

LEMMA RestingVersions ==
    ASSUME TypeInv, Rests, NEW d \in EntryIds, NEW x \in EntryRow, Version(d, x)'
    PROVE  Version(d, x)
  BY DEF Rests, Version, Busy

(* The copy a request works with is a version of its entry.                  *)
LEMMA CopiesAreVersions ==
    ASSUME TypeInv, NEW c \in Clients, Busy(c), request[c].copy \in EntryRow
    PROVE  Version(request[c].of, request[c].copy)
  BY NothingIsNothing DEF Version

LEMMA RowsAreVersions ==
    ASSUME TypeInv, NEW d \in EntryIds, d \in Entries
    PROVE  entry[d] \in EntryRow /\ Version(d, entry[d]) /\ d < nextEntry
  <1>1. entry[d] \in EntryRow /\ entry[d] # None
    BY DEF Entries, TypeInv, ContentTypeOK
  <1>2. d < nextEntry
    BY <1>1 DEF TypeInv, ContentTypeOK, EntryIds
  <1> QED
    BY <1>1, <1>2 DEF Version

---------------------------------------------------------------------------------
(* Entries fit their type.                                                   *)

LEMMA KnownStays ==
    ASSUME TypeInv, TypesKept, NEW ct \in TypeCopy, Known(ct)
    PROVE  Known(ct)'
  <1>1. ct.id \in TypeIds /\ ct.id < nextType /\ ct.id < nextType'
    BY DEF TypeCopy, TypesKept, Known, TypeInv, ContentTypeOK, TypeIds
  <1>2. ct.id \in Stored' => FindByUID(ct.id).requires' \subseteq ct.requires
    BY <1>1 DEF TypesKept, Known
  <1> QED
    BY <1>1, <1>2 DEF Known

LEMMA FitStays ==
    ASSUME TypeInv, TypesKept, NEW x \in EntryRow, Fits(x)
    PROVE  Fits(x)'
  <1>1. x.type \in TypeIds /\ x.type < nextType /\ x.type < nextType'
    BY DEF EntryRow, TypesKept, Fits, TypeInv, ContentTypeOK, TypeIds
  <1>2. x.type \in Stored' => FindByUID(x.type).requires' \subseteq x.data
    BY <1>1 DEF TypesKept, Fits
  <1> QED
    BY <1>1, <1>2 DEF Fits

LEMMA ValidFits ==
    ASSUME NEW ct, Known(ct), NEW x, x.type = ct.id, validateEntryData(ct, x.data)
    PROVE  Fits(x)
  BY DEF Known, Fits, validateEntryData

LEMMA NewVersionsFit ==
    ASSUME TypeInv, FitInv, NEW c \in Clients, Moves(c), Changes(c),
           NEW d \in EntryIds, NEW x \in EntryRow, Version(d, x)'
    PROVE  Fits(x)
  <1> DEFINE r == request[c]
  <1>1. CASE Version(d, x)
    BY <1>1 DEF FitInv
  <1>2. CASE Edits(c, d) /\ x = Edited(r)
    <2>1. r.phase = "save" /\ Accepted(r)
      BY <1>2 DEF Edits
    <2>2. /\ Busy(c) /\ r \in Request /\ r.of \in EntryIds
          /\ r.op \in {"update", "publish", "unpublish"}
          /\ r.copy \in EntryRow /\ r.ct \in TypeCopy /\ r.copy.type = r.ct.id
      BY <2>1, Savers
    <2>3. Akin(x, r.copy) /\ (r.op # "update" => x.data = r.copy.data)
      BY <1>2, <2>2, ChangedRows
    <2>4. CASE r.op = "unpublish"
      <3>1. Fits(r.copy)
        BY <2>2, CopiesAreVersions DEF FitInv
      <3> QED
        BY <2>3, <2>4, <3>1 DEF Fits, Akin
    <2>5. CASE r.op # "unpublish"
      <3>1. validateEntryData(r.ct, x.data)
        BY <1>2, <2>1, <2>5 DEF Accepted
      <3>2. Known(r.ct)
        BY <2>2, NothingIsNothing DEF FitInv
      <3> QED
        BY <2>2, <2>3, <3>1, <3>2, ValidFits DEF Akin
    <2> QED
      BY <2>4, <2>5
  <1>3. CASE Adds(c, d) /\ x = entry'[d]
    <2>1. /\ Busy(c) /\ r.op # "deleteType" /\ r.ct \in TypeCopy
          /\ x.type = r.ct.id /\ validateEntryData(r.ct, x.data)
      BY <1>3 DEF Adds
    <2>2. Known(r.ct)
      BY <2>1, NothingIsNothing DEF FitInv
    <2> QED
      BY <2>1, <2>2, ValidFits
  <1> QED
    BY <1>1, <1>2, <1>3, VersionsCome

LEMMA StoredTypesKnown ==
    ASSUME TypeInv, NEW t \in Stored
    PROVE  Known(FindByUID(t))
  <1>1. t < nextType /\ FindByUID(t).id = t
    BY TypesFound
  <1> QED
    BY <1>1 DEF Known

LEMMA StepFits ==
    ASSUME TypeInv, TypeInv', FitInv, [ContentNext]_contentVars
    PROVE  FitInv'
  <1>1. TypesKept /\ CachesFed /\ (EntrySteps \/ Rests)
    BY NextSteps
  <1>2. ASSUME NEW k \in Caches, typeCache'[k] # None
        PROVE  Known(typeCache[k])'
    <2>1. typeCache'[k] \in TypeCopy
      BY <1>1, <1>2 DEF CachesFed
    <2>2. PICK ct \in TypeCopy : typeCache'[k] = ct
      BY <2>1
    <2>3. Known(ct)
      <3>1. CASE typeCache'[k] = typeCache[k]
        BY <1>2, <2>2, <3>1 DEF FitInv
      <3>2. CASE typeCache'[k] # typeCache[k]
        <4>1. PICK c \in Clients : Busy(c) /\ request[c].op # "deleteType" /\ ct = request[c].ct
          BY <1>1, <1>2, <2>2, <3>2 DEF CachesFed
        <4> QED
          BY <4>1, NothingIsNothing DEF FitInv
      <3> QED
        BY <3>1, <3>2
    <2>4. Known(ct)'
      BY <1>1, <2>3, KnownStays
    <2> QED
      BY <2>2, <2>4 DEF Known
  <1>3. ASSUME NEW n \in Clients, Busy(n)', request'[n].op # "deleteType",
               request'[n].ct # None
        PROVE  Known(request[n].ct)'
    <2>1. request'[n] \in Request /\ request'[n].ct \in TypeCopy
      BY <1>3 DEF TypeInv, Busy, Request
    <2>2. PICK ct \in TypeCopy : request'[n].ct = ct
      BY <2>1
    <2>3. Known(ct)
      <3>1. CASE request'[n] = request[n]
        <4>1. Busy(n) /\ request[n].op # "deleteType" /\ request[n].ct = ct /\ ct # None
          BY <1>3, <2>2, <3>1, NothingIsNothing DEF Busy
        <4> QED
          BY <4>1 DEF FitInv
      <3>2. CASE request'[n] # request[n]
        <4>1. Moves(n)
          BY <1>1, <3>2 DEF EntrySteps, Rests, Moves
        <4>2. CASE request[n] # Idle /\ request'[n].ct = request[n].ct
          <5>1. request[n].op # "deleteType" /\ Busy(n)
            BY <1>3, <4>1, <4>2 DEF Moves, Busy
          <5> QED
            BY <2>2, <4>2, <5>1, NothingIsNothing DEF FitInv
        <4>3. ASSUME NEW k \in Caches, request'[n].ct = typeCache[k]
              PROVE  Known(ct)
          BY <2>2, <4>3, NothingIsNothing DEF FitInv
        <4>4. ASSUME NEW t \in Stored, request'[n].ct = FindByUID(t)
              PROVE  Known(ct)
          BY <2>2, <4>4, StoredTypesKnown
        <4> QED
          BY <1>3, <4>1, <4>2, <4>3, <4>4 DEF Moves, Busy
      <3> QED
        BY <3>1, <3>2
    <2>4. Known(ct)'
      BY <1>1, <2>3, KnownStays
    <2> QED
      BY <2>2, <2>4 DEF Known
  <1>4. ASSUME NEW d \in EntryIds, NEW x \in EntryRow, Version(d, x)'
        PROVE  Fits(x)'
    <2>1. Fits(x)
      <3>1. CASE Rests
        BY <1>4, <3>1, RestingVersions DEF FitInv
      <3>2. CASE EntrySteps
        BY <1>4, <3>2, NewVersionsFit DEF EntrySteps
      <3> QED
        BY <1>1, <3>1, <3>2
    <2> QED
      BY <1>1, <2>1, FitStays
  <1> QED
    BY <1>2, <1>3, <1>4 DEF FitInv

LEMMA InitFits == ContentInit => FitInv
  BY DEF ContentInit, FitInv, Version, Busy

LEMMA FitMeansFits == TypeInv /\ FitInv => EntriesFitTheirType
  <1> SUFFICES ASSUME TypeInv, FitInv, NEW e \in Entries
               PROVE  entry[e].type \in Stored =>
                         FindByUID(entry[e].type).requires \subseteq entry[e].data
    BY DEF EntriesFitTheirType
  <1>1. e \in EntryIds /\ entry[e] \in EntryRow /\ Version(e, entry[e])
    BY RowsAreVersions DEF Entries
  <1> QED
    BY <1>1 DEF FitInv, Fits

(* However the steps of creations, imports, translations, updates and the    *)
(* deletion of the type interleave, and however old the cached schema is, an *)
(* entry of a type that is there has every field the type requires.          *)
THEOREM EntriesFit == ContentSpec => []EntriesFitTheirType
  <1>1. ContentInit => TypeInv /\ FitInv
    BY InitTypes, InitFits
  <1>2. TypeInv /\ FitInv /\ [ContentNext]_contentVars => (TypeInv /\ FitInv)'
    BY StepTypes, StepFits
  <1>3. TypeInv /\ FitInv => EntriesFitTheirType
    BY FitMeansFits
  <1> QED
    BY <1>1, <1>2, <1>3, PTL DEF ContentSpec

---------------------------------------------------------------------------------
(* Groups and translations.                                                  *)

LEMMA OldVersions ==
    ASSUME TypeInv, GroupInv, NEW d \in EntryIds, NEW x \in EntryRow, Version(d, x)
    PROVE  d < nextEntry /\ x.group < nextEntry /\ x.group # nextEntry /\ d # nextEntry
  <1>1. d < nextEntry /\ x.group < nextEntry
    BY DEF GroupInv
  <1>2. nextEntry \in Int /\ d \in Int /\ x.group \in Int
    BY DEF TypeInv, ContentTypeOK, EntryIds, EntryRow
  <1> QED
    BY <1>1, <1>2

(* Where a version comes from: an old one of the same entry, or the row that *)
(* was added, as the root of a group or as a translation.                    *)
LEMMA Ancestors ==
    ASSUME TypeInv, GroupInv, NEW c \in Clients, Moves(c), Changes(c),
           NEW d \in EntryIds, NEW x \in EntryRow, Version(d, x)'
    PROVE  \/ /\ d # nextEntry
              /\ \E y \in EntryRow : Version(d, y) /\ Akin(x, y)
           \/ /\ Adds(c, d) /\ x = entry'[d] /\ d = nextEntry
              /\ x.group = nextEntry /\ seen'[d] = Entries
           \/ /\ Adds(c, d) /\ x = entry'[d] /\ d = nextEntry
              /\ request[c].phase = "insert" /\ request[c].op = "translate" /\ Busy(c)
              /\ request[c].copy \in EntryRow /\ request[c].of \in EntryIds
              /\ Version(request[c].of, request[c].copy)
              /\ x.type = request[c].copy.type /\ x.group = request[c].copy.group
              /\ x.locale = request[c].input.locale /\ seen'[d] = request[c].seen
  <1> DEFINE r == request[c]
  <1>1. CASE Version(d, x)
    BY <1>1, OldVersions DEF Akin
  <1>2. CASE Edits(c, d) /\ x = Edited(r)
    <2>1. /\ Busy(c) /\ r \in Request /\ r.op \in {"update", "publish", "unpublish"}
          /\ r.copy \in EntryRow /\ r.of = d
      BY <1>2, Savers DEF Edits
    <2>2. Akin(x, r.copy)
      BY <1>2, <2>1, ChangedRows
    <2>3. Version(d, r.copy)
      BY <2>1, CopiesAreVersions
    <2> QED
      BY <2>1, <2>2, <2>3, OldVersions
  <1>3. CASE Adds(c, d) /\ x = entry'[d]
    <2>1. d = nextEntry /\ Busy(c) /\ x.type = r.ct.id
      BY <1>3 DEF Adds
    <2>2. CASE x.group = nextEntry /\ seen'[d] = Entries
      BY <1>3, <2>1, <2>2
    <2>3. CASE /\ r.phase = "insert" /\ r.op = "translate"
               /\ x.group = r.copy.group /\ x.locale = r.input.locale
               /\ seen'[d] = r.seen
      <3>1. r.copy \in EntryRow /\ r.copy.type = r.ct.id /\ r.of \in EntryIds
        BY <2>1, <2>3, BusyClients DEF Routed
      <3>2. Version(r.of, r.copy)
        BY <2>1, <3>1, CopiesAreVersions
      <3> QED
        BY <1>3, <2>1, <2>3, <3>1, <3>2
    <2> QED
      BY <1>3, <2>2, <2>3 DEF Adds
  <1> QED
    BY <1>1, <1>2, <1>3, VersionsCome

(* A version in a group that was there before has a forebear in it.          *)
LEMMA Forebears ==
    ASSUME TypeInv, GroupInv, NEW c \in Clients, Moves(c), Changes(c),
           NEW d \in EntryIds, NEW x \in EntryRow, Version(d, x)'
    PROVE  \/ x = entry'[nextEntry] /\ d = nextEntry /\ x.group = nextEntry
           \/ /\ x.group # nextEntry /\ x.group < nextEntry
              /\ \E e \in EntryIds, y \in EntryRow :
                    Version(e, y) /\ x.group = y.group /\ x.type = y.type
  <1>1. CASE \E y \in EntryRow : Version(d, y) /\ Akin(x, y)
    BY <1>1, OldVersions DEF Akin
  <1>2. CASE /\ request[c].copy \in EntryRow /\ request[c].of \in EntryIds
             /\ Version(request[c].of, request[c].copy)
             /\ x.type = request[c].copy.type /\ x.group = request[c].copy.group
    BY <1>2, OldVersions
  <1> QED
    BY <1>1, <1>2, Ancestors

LEMMA StepGroups ==
    ASSUME TypeInv, GroupInv, [ContentNext]_contentVars
    PROVE  GroupInv'
  <1>1. CASE Rests
    <2>1. \A d \in EntryIds, x \in EntryRow : Version(d, x)' => Version(d, x)
      BY <1>1, RestingVersions
    <2>2. nextEntry' = nextEntry
      BY <1>1 DEF Rests
    <2>3. \A d \in EntryIds, x \in EntryRow :
             Version(d, x)' => d < nextEntry' /\ x.group < nextEntry'
      BY <2>1, <2>2 DEF GroupInv
    <2>4. \A d, e \in EntryIds, x, y \in EntryRow :
             Version(d, x)' /\ Version(e, y)' /\ x.group = y.group => x.type = y.type
      BY <2>1 DEF GroupInv
    <2>5. \A d \in EntryIds, x, y \in EntryRow : Version(d, x)' /\ Version(d, y)' => Akin(x, y)
      BY <2>1 DEF GroupInv
    <2> QED
      BY <2>3, <2>4, <2>5 DEF GroupInv, Akin
  <1>2. ASSUME NEW c \in Clients, Moves(c), Changes(c)
        PROVE  GroupInv'
    <2>1. ASSUME NEW d \in EntryIds, NEW x \in EntryRow, Version(d, x)'
          PROVE  d < nextEntry' /\ x.group < nextEntry'
      <3>1. nextEntry \in Int /\ nextEntry' \in Int /\ nextEntry' >= nextEntry
            /\ d \in Int /\ x.group \in Int
        BY <1>2 DEF TypeInv, ContentTypeOK, Changes, EntryIds, EntryRow
      <3>2. CASE Adds(c, d)
        <4>1. d = nextEntry /\ nextEntry' = nextEntry + 1
          BY <3>2 DEF Adds
        <4>2. x.group = nextEntry \/ x.group < nextEntry
          BY <1>2, <2>1, Forebears
        <4> QED
          BY <3>1, <4>1, <4>2
      <3>3. CASE ~ Adds(c, d)
        <4>1. PICK y \in EntryRow : Version(d, y) /\ Akin(x, y)
          BY <1>2, <2>1, <3>3, Ancestors
        <4>2. d < nextEntry /\ x.group < nextEntry
          BY <4>1, OldVersions DEF Akin
        <4> QED
          BY <3>1, <4>2
      <3> QED
        BY <3>2, <3>3
    <2>2. ASSUME NEW d \in EntryIds, NEW e \in EntryIds, NEW x \in EntryRow, NEW y \in EntryRow,
                 Version(d, x)', Version(e, y)', x.group = y.group
          PROVE  x.type = y.type
      <3>1. CASE x.group = nextEntry
        BY <1>2, <2>2, <3>1, Forebears
      <3>2. CASE x.group # nextEntry
        <4>1. PICK d0 \in EntryIds, x0 \in EntryRow :
                 Version(d0, x0) /\ x.group = x0.group /\ x.type = x0.type
          BY <1>2, <2>2, <3>2, Forebears
        <4>2. PICK e0 \in EntryIds, y0 \in EntryRow :
                 Version(e0, y0) /\ y.group = y0.group /\ y.type = y0.type
          BY <1>2, <2>2, <3>2, Forebears
        <4>3. x0.type = y0.type
          <5>1. x0.group = y0.group
            BY <2>2, <4>1, <4>2
          <5>2. \A a, b \in EntryIds, u, v \in EntryRow :
                   Version(a, u) /\ Version(b, v) /\ u.group = v.group => u.type = v.type
            BY DEF GroupInv
          <5>3. Version(d0, x0) /\ Version(e0, y0)
            BY <4>1, <4>2
          <5> HIDE DEF TypeInv, GroupInv
          <5> QED
            BY <5>1, <5>2, <5>3
        <4> QED
          BY <4>1, <4>2, <4>3
      <3> QED
        BY <3>1, <3>2
    <2>3. ASSUME NEW d \in EntryIds, NEW x \in EntryRow, NEW y \in EntryRow,
                 Version(d, x)', Version(d, y)'
          PROVE  Akin(x, y)
      <3>1. CASE d = nextEntry
        <4>1. x = entry'[d] /\ y = entry'[d]
          BY <1>2, <2>3, <3>1, Ancestors
        <4> QED
          BY <4>1 DEF Akin
      <3>2. CASE d # nextEntry
        <4>1. PICK x0 \in EntryRow : Version(d, x0) /\ Akin(x, x0)
          BY <1>2, <2>3, <3>2, Ancestors
        <4>2. PICK y0 \in EntryRow : Version(d, y0) /\ Akin(y, y0)
          BY <1>2, <2>3, <3>2, Ancestors
        <4>3. Akin(x0, y0)
          BY <4>1, <4>2 DEF GroupInv
        <4> QED
          BY <4>1, <4>2, <4>3 DEF Akin
      <3> QED
        BY <3>1, <3>2
    <2> QED
      BY <2>1, <2>2, <2>3 DEF GroupInv, Akin
  <1> QED
    BY <1>1, <1>2, NextSteps DEF EntrySteps

(* Two versions of different entries that are twins: the later-born did not  *)
(* see the other.                                                            *)
LEMMA StepTwins ==
    ASSUME TypeInv, GroupInv, TwinInv, TypeInv', [ContentNext]_contentVars
    PROVE  TwinInv'
  <1>1. CASE Rests
    <2>1. \A d \in EntryIds, x \in EntryRow : Version(d, x)' => Version(d, x)
      BY <1>1, RestingVersions
    <2>2. request' = request /\ seen' = seen /\ nextEntry' = nextEntry
      BY <1>1 DEF Rests
    <2>3. \A d, e \in EntryIds : d \in seen'[e] => d < nextEntry'
      BY <2>2 DEF TwinInv
    <2>4. \A d, e \in EntryIds, x, y \in EntryRow :
             d # e /\ Version(d, x)' /\ Version(e, y)' /\ Twins(x, y) => d \notin seen'[e]
      BY <2>1, <2>2 DEF TwinInv
    <2>5. \A n \in Clients : Busy(n)' => \A d \in request'[n].seen : d < nextEntry'
      BY <2>2 DEF TwinInv, Busy
    <2>6. \A n \in Clients : Busy(n)' /\ At(n, "insert")' /\ Serves(n, "translate")' =>
             \A d \in request'[n].seen, x \in EntryRow :
                Version(d, x)' => x.group # request'[n].copy.group
                                  \/ x.locale # request'[n].input.locale
      <3> SUFFICES ASSUME NEW n \in Clients, Busy(n)', At(n, "insert")', Serves(n, "translate")',
                          NEW d \in request'[n].seen, NEW x \in EntryRow, Version(d, x)'
                   PROVE  x.group # request'[n].copy.group
                          \/ x.locale # request'[n].input.locale
        OBVIOUS
      <3>1. Busy(n) /\ At(n, "insert") /\ Serves(n, "translate")
        BY <2>2 DEF Busy, At, Serves
      <3>2. d \in request[n].seen /\ request[n].seen \subseteq EntryIds
        BY <2>2, <3>1, BusyClients
      <3> QED
        BY <2>1, <2>2, <3>1, <3>2 DEF TwinInv
    <2> QED
      BY <2>3, <2>4, <2>5, <2>6 DEF TwinInv, Twins
  <1>2. ASSUME NEW c \in Clients, Moves(c), Changes(c)
        PROVE  TwinInv'
    <2>1. /\ nextEntry \in Int /\ nextEntry' \in Int /\ nextEntry' >= nextEntry
          /\ \A d \in EntryIds : d \in Int
          /\ seen \in [EntryIds -> SUBSET EntryIds]
      BY <1>2 DEF TypeInv, ContentTypeOK, Changes, EntryIds
    <2>2. \A d \in Entries : d \in EntryIds /\ d < nextEntry
      BY RowsAreVersions DEF Entries
    <2>3. ASSUME NEW n \in Clients, Busy(n)
          PROVE  request[n].seen \subseteq EntryIds /\ \A d \in request[n].seen : d < nextEntry
      BY <2>3, BusyClients DEF TwinInv
    <2>4. ASSUME NEW e \in EntryIds, Adds(c, e)
          PROVE  \A d \in seen'[e] : d \in EntryIds /\ d < nextEntry
      BY <2>2, <2>3, <2>4 DEF Adds
    <2>5. \A d, e \in EntryIds : d \in seen'[e] => d < nextEntry
      BY <1>2, <2>4 DEF Changes, TwinInv
    <2>6. \A d, e \in EntryIds : d \in seen'[e] => d < nextEntry'
      BY <2>1, <2>5
    <2>7. ASSUME NEW d \in EntryIds, NEW e \in EntryIds, NEW x \in EntryRow, NEW y \in EntryRow,
                 d # e, Version(d, x)', Version(e, y)', Twins(x, y), d \in seen'[e]
          PROVE  FALSE
      <3>1. d # nextEntry
        BY <2>1, <2>5, <2>7
      <3>2. PICK x0 \in EntryRow : Version(d, x0) /\ Akin(x, x0)
        BY <1>2, <2>7, <3>1, Ancestors
      <3>3. Twins(x0, y)
        BY <2>7, <3>2 DEF Twins, Akin
      <3>4. CASE e # nextEntry
        <4>1. PICK y0 \in EntryRow : Version(e, y0) /\ Akin(y, y0)
          BY <1>2, <2>7, <3>4, Ancestors
        <4>2. seen'[e] = seen[e]
          BY <1>2, <3>4 DEF Changes, Adds
        <4>3. Twins(x0, y0)
          BY <3>3, <4>1 DEF Twins, Akin
        <4> QED
          BY <2>7, <3>2, <4>1, <4>2, <4>3 DEF TwinInv
      <3>5. CASE e = nextEntry
        <4>1. CASE y.group = nextEntry
          <5>1. x0.group # nextEntry
            BY <3>2, OldVersions
          <5> QED
            BY <3>3, <4>1, <5>1 DEF Twins
        <4>2. CASE y.group # nextEntry
          <5>1. /\ request[c].phase = "insert" /\ request[c].op = "translate" /\ Busy(c)
                /\ y.group = request[c].copy.group
                /\ y.locale = request[c].input.locale /\ seen'[e] = request[c].seen
            BY <1>2, <2>7, <3>5, <4>2, Ancestors
          <5>2. At(c, "insert") /\ Serves(c, "translate")
            BY <5>1 DEF At, Serves, Busy
          <5>3. x0.group # y.group \/ x0.locale # y.locale
            BY <2>7, <3>2, <5>1, <5>2 DEF TwinInv
          <5> QED
            BY <3>3, <5>3 DEF Twins
        <4> QED
          BY <4>1, <4>2
      <3> QED
        BY <3>4, <3>5
    <2>8. ASSUME NEW n \in Clients, Busy(n)'
          PROVE  \A d \in request'[n].seen : d \in EntryIds /\ d < nextEntry
      <3>1. CASE n # c
        BY <1>2, <2>3, <2>8, <3>1 DEF Moves, Busy
      <3>2. CASE n = c
        <4>1. \/ request'[c].seen = {} \/ (Busy(c) /\ request'[c].seen = request[c].seen)
              \/ request'[c].seen = Entries
          BY <1>2, <2>8, <3>2 DEF Moves, Busy
        <4> QED
          BY <2>2, <2>3, <3>2, <4>1
      <3> QED
        BY <3>1, <3>2
    <2>9. \A n \in Clients : Busy(n)' => \A d \in request'[n].seen : d < nextEntry'
      BY <2>1, <2>8
    <2>10. ASSUME NEW n \in Clients, Busy(n)', At(n, "insert")', Serves(n, "translate")',
                  NEW d \in request'[n].seen, NEW x \in EntryRow, Version(d, x)'
           PROVE  x.group # request'[n].copy.group \/ x.locale # request'[n].input.locale
      <3>1. d \in EntryIds /\ d # nextEntry
        BY <2>1, <2>8, <2>10
      <3>2. PICK x0 \in EntryRow : Version(d, x0) /\ Akin(x, x0)
        BY <1>2, <2>10, <3>1, Ancestors
      <3>3. CASE n # c
        <4>1. request'[n] = request[n]
          BY <1>2, <3>3 DEF Moves
        <4>2. Busy(n) /\ At(n, "insert") /\ Serves(n, "translate") /\ d \in request[n].seen
          BY <2>10, <4>1 DEF Busy, At, Serves
        <4>3. x0.group # request[n].copy.group \/ x0.locale # request[n].input.locale
          BY <3>1, <3>2, <4>2 DEF TwinInv
        <4> QED
          BY <3>2, <4>1, <4>3 DEF Akin
      <3>4. CASE n = c
        <4>1. /\ request[c] # Idle /\ request[c].phase = "look"
              /\ request'[c].copy = request[c].copy /\ request'[c].input = request[c].input
              /\ FindTranslationInLocale(request[c].ct.id, request[c].copy.group,
                                         request[c].input.locale) = {}
              /\ request'[c].seen = Entries
          BY <1>2, <2>10, <3>4 DEF Moves, Busy, At, Serves
        <4>2. /\ request[c].copy \in EntryRow /\ request[c].copy.type = request[c].ct.id
              /\ request[c].of \in EntryIds
              /\ Version(request[c].of, request[c].copy)
          BY <4>1, BusyClients, CopiesAreVersions DEF Routed, Busy
        <4>3. d \in Entries /\ entry[d] \in EntryRow /\ Version(d, entry[d])
          <5>1. d \in Entries
            BY <2>10, <3>4, <4>1
          <5> QED
            BY <3>1, <5>1, RowsAreVersions
        <4>4. Akin(entry[d], x0)
          BY <3>1, <3>2, <4>3 DEF GroupInv
        <4>5. entry[d].group = x.group /\ entry[d].locale = x.locale
          BY <3>2, <4>4 DEF Akin
        <4>6. ASSUME x.group = request[c].copy.group, x.locale = request[c].input.locale
              PROVE  FALSE
          <5>1. entry[d].group = request[c].copy.group
            BY <4>5, <4>6
          <5>2. entry[d].type = request[c].copy.type
            BY <3>1, <4>2, <4>3, <5>1 DEF GroupInv
          <5>3. d \in FindTranslationInLocale(request[c].ct.id, request[c].copy.group,
                                              request[c].input.locale)
            BY <4>2, <4>3, <4>5, <4>6, <5>1, <5>2 DEF FindTranslationInLocale, OfType
          <5> QED
            BY <4>1, <5>3
        <4> QED
          BY <3>4, <4>1, <4>6
      <3> QED
        BY <3>3, <3>4
    <2>11. \A d, e \in EntryIds, x, y \in EntryRow :
              d # e /\ Version(d, x)' /\ Version(e, y)' /\ Twins(x, y) => d \notin seen'[e]
      BY <2>7
    <2>12. \A n \in Clients : Busy(n)' /\ At(n, "insert")' /\ Serves(n, "translate")' =>
              \A d \in request'[n].seen, x \in EntryRow :
                 Version(d, x)' => x.group # request'[n].copy.group
                                   \/ x.locale # request'[n].input.locale
      BY <2>10
    <2> QED
      BY <2>6, <2>9, <2>11, <2>12 DEF TwinInv, Twins
  <1> QED
    BY <1>1, <1>2, NextSteps DEF EntrySteps

LEMMA InitTwins == ContentInit => GroupInv /\ TwinInv
  BY DEF ContentInit, GroupInv, TwinInv, Version, Busy

LEMMA TwinsMeanTwins == TypeInv /\ TwinInv => TwinsDidNotSeeEachOther
  <1> SUFFICES ASSUME TypeInv, TwinInv, NEW d \in Entries, NEW e \in Entries, d # e,
                      entry[d].group = entry[e].group, entry[d].locale = entry[e].locale
               PROVE  d \notin seen[e]
    BY DEF TwinsDidNotSeeEachOther
  <1>1. /\ d \in EntryIds /\ entry[d] \in EntryRow /\ Version(d, entry[d])
        /\ e \in EntryIds /\ entry[e] \in EntryRow /\ Version(e, entry[e])
    BY RowsAreVersions DEF Entries
  <1>2. Twins(entry[d], entry[e])
    BY DEF Twins
  <1> QED
    BY <1>1, <1>2 DEF TwinInv

(* Two translations of one group in one locale come only from requests each  *)
(* of which looked before the other's entry was there.                       *)
THEOREM TwinsMissedEachOther == ContentSpec => []TwinsDidNotSeeEachOther
  <1>1. ContentInit => TypeInv /\ GroupInv /\ TwinInv
    BY InitTypes, InitTwins
  <1>2. TypeInv /\ GroupInv /\ TwinInv /\ [ContentNext]_contentVars
          => (TypeInv /\ GroupInv /\ TwinInv)'
    BY StepTypes, StepGroups, StepTwins
  <1>3. TypeInv /\ GroupInv /\ TwinInv => TwinsDidNotSeeEachOther
    BY TwinsMeanTwins
  <1> QED
    BY <1>1, <1>2, <1>3, PTL DEF ContentSpec

---------------------------------------------------------------------------------
(* What became of an entry.                                                  *)
Settled(e) ==
    /\ entry[e] = None => decided[e] \in {"none", "deleted"}
    /\ entry[e] # None => entry[e].status = decided[e]

LEMMA DecidedMeansSettled == AsDecided <=> \A e \in EntryIds \ raced : Settled(e)
  BY DEF AsDecided, Settled

LEMMA UntouchedSettled ==
    ASSUME NEW e, Settled(e), entry'[e] = entry[e], decided'[e] = decided[e]
    PROVE  Settled(e)'
  BY DEF Settled

LEMMA InsertSettles ==
    ASSUME TypeInv, NEW c \in Clients, NEW e \in EntryIds, Settled(e),
           CreateEntry(c) \/ ImportEntries(c) \/ CreateEntryTranslation(c)
    PROVE  Settled(e)'
  <1> DEFINE r == request[c]
  <1>1. CASE entry' = entry /\ decided' = decided
    BY <1>1, UntouchedSettled
  <1>2. CASE ~ (entry' = entry /\ decided' = decided)
    <2>1. \E data \in SUBSET Fields, group \in EntryIds \cup {nextEntry},
              sawWhat \in SUBSET EntryIds : Insert(c, data, r.input.locale, group, sawWhat)
      <3>1. CASE CreateEntry(c)
        <4>1. Insert(c, r.input.fills, r.input.locale, nextEntry, Entries)
          BY <1>2, <3>1 DEF CreateEntry
        <4> QED
          BY <3>1, <4>1, Creators DEF Input
      <3>2. CASE ImportEntries(c)
        <4>1. PICK data \in r.left : Insert(c, data, r.input.locale, nextEntry, Entries)
          BY <1>2, <3>2 DEF ImportEntries
        <4> QED
          BY <3>2, <4>1, Creators
      <3>3. CASE CreateEntryTranslation(c)
        <4> DEFINE data == Merged(r.copy.data, r.input)
        <4>1. Insert(c, data, r.input.locale, r.copy.group, r.seen)
          BY <3>3 DEF CreateEntryTranslation
        <4>2. r.copy \in EntryRow /\ r.input \in Input /\ r.seen \in SUBSET EntryIds
          BY <3>3, Creators DEF Routed, CreateEntryTranslation, At, Serves
        <4>3. data \in SUBSET Fields /\ r.copy.group \in EntryIds
          BY <4>2 DEF Merged, Input, EntryRow
        <4> HIDE DEF data
        <4> QED
          BY <4>1, <4>2, <4>3
      <3> QED
        BY <3>1, <3>2, <3>3
    <2>2. r.input.locale \in Locales /\ r.ct \in TypeCopy
      BY Creators DEF Input
    <2>3. PICK data \in SUBSET Fields, group \in EntryIds \cup {nextEntry},
               sawWhat \in SUBSET EntryIds : Insert(c, data, r.input.locale, group, sawWhat)
      BY <2>1
    <2>4. /\ entry'[nextEntry] \in EntryRow /\ decided'[nextEntry] = "draft"
          /\ entry'[nextEntry] = [type |-> r.ct.id, data |-> data, locale |-> r.input.locale,
                                  group |-> group, status |-> "draft"]
          /\ \A d \in EntryIds \ {nextEntry} : entry'[d] = entry[d] /\ decided'[d] = decided[d]
      BY <2>2, <2>3, Inserted
    <2>5. CASE e = nextEntry
      <3>1. entry'[e].status = "draft" /\ decided'[e] = "draft" /\ entry'[e] # None
        BY <2>4, <2>5, NothingIsNothing
      <3> QED
        BY <3>1 DEF Settled
    <2>6. CASE e # nextEntry
      BY <2>4, <2>6, UntouchedSettled
    <2> QED
      BY <2>5, <2>6
  <1> QED
    BY <1>1, <1>2

LEMMA SaveSettles ==
    ASSUME TypeInv, NEW c \in Clients, SaveEntry(c),
           NEW e \in EntryIds, e \notin raced', e \notin raced => Settled(e)
    PROVE  Settled(e)'
  <1> DEFINE r == request[c]
             x == Edited(r)
  <1>1. CASE ~ Accepted(r)
    BY <1>1, UntouchedSettled DEF SaveEntry
  <1>2. CASE Accepted(r)
    <2>1. /\ entry' = [entry EXCEPT ![r.of] = x]
          /\ raced' = IF entry[r.of] = r.copy THEN raced ELSE raced \cup {r.of}
          /\ decided' = [decided EXCEPT ![r.of] =
                CASE r.op = "publish"   -> "published"
                  [] r.op = "unpublish" -> "draft"
                  [] OTHER              -> @]
      BY <1>2 DEF SaveEntry
    <2>2. /\ r \in Request /\ r.of \in EntryIds /\ r.op \in {"update", "publish", "unpublish"}
          /\ r.copy \in EntryRow
      BY SavesChange, Savers
    <2>3. /\ x \in EntryRow
          /\ r.op = "update"    => x.status = r.copy.status
          /\ r.op = "publish"   => x.status = "published"
          /\ r.op = "unpublish" => x.status = "draft"
      BY <2>2, ChangedRows
    <2>4. /\ entry \in [EntryIds -> EntryRow \cup {None}]
          /\ decided \in [EntryIds -> {"none", "draft", "published", "deleted"}]
      BY DEF TypeInv, ContentTypeOK
    <2>5. e \notin raced /\ Settled(e)
      BY <2>1
    <2> HIDE DEF x
    <2>6. CASE e # r.of
      <3>1. entry'[e] = entry[e] /\ decided'[e] = decided[e]
        BY <2>1, <2>4, <2>6
      <3> QED
        BY <2>5, <3>1, UntouchedSettled
    <2>7. CASE e = r.of
      <3>1. entry'[e] = x /\ entry'[e] # None
        BY <2>1, <2>3, <2>4, <2>7, NothingIsNothing
      <3>2. entry[e] = r.copy
        BY <2>1, <2>7
      <3>3. r.copy.status = decided[e]
        BY <2>2, <2>5, <3>2, NothingIsNothing DEF Settled
      <3>4. CASE r.op = "update"
        <4>1. decided'[e] = decided[e]
          BY <2>1, <2>4, <2>7, <3>4
        <4> QED
          BY <2>3, <3>1, <3>3, <3>4, <4>1 DEF Settled
      <3>5. CASE r.op = "publish"
        <4>1. decided'[e] = "published"
          BY <2>1, <2>4, <2>7, <3>5
        <4> QED
          BY <2>3, <3>1, <3>5, <4>1 DEF Settled
      <3>6. CASE r.op = "unpublish"
        <4>1. decided'[e] = "draft"
          BY <2>1, <2>4, <2>7, <3>6
        <4> QED
          BY <2>3, <3>1, <3>6, <4>1 DEF Settled
      <3> QED
        BY <2>2, <3>4, <3>5, <3>6
    <2> QED
      BY <2>6, <2>7
  <1> QED
    BY <1>1, <1>2

LEMMA DeleteSettles ==
    ASSUME TypeInv, NEW c \in Clients, NEW e \in EntryIds, Settled(e),
           DeleteEntry(c) \/ DeleteEntriesOfType(c)
    PROVE  Settled(e)'
  <1>1. /\ entry \in [EntryIds -> EntryRow \cup {None}]
        /\ decided \in [EntryIds -> {"none", "draft", "published", "deleted"}]
    BY DEF TypeInv, ContentTypeOK
  <1>2. \/ entry'[e] = entry[e] /\ decided'[e] = decided[e]
        \/ entry'[e] = None /\ decided'[e] = "deleted"
    <2>1. CASE DeleteEntriesOfType(c)
      BY <2>1 DEF DeleteEntriesOfType
    <2>2. CASE DeleteEntry(c)
      BY <1>1, <2>2 DEF DeleteEntry
    <2> QED
      BY <2>1, <2>2
  <1> QED
    BY <1>2 DEF Settled

LEMMA StepDecided ==
    ASSUME TypeInv, AsDecided, [ContentNext]_contentVars
    PROVE  AsDecided'
  <1> SUFFICES ASSUME NEW e \in EntryIds, e \notin raced'
               PROVE  Settled(e)'
    BY DEF AsDecided, Settled
  <1>1. e \notin raced => Settled(e)
    BY DecidedMeansSettled
  <1>2. ASSUME NEW c \in Clients, CreateEntry(c) \/ ImportEntries(c) \/ CreateEntryTranslation(c)
        PROVE  Settled(e)'
    <2>1. raced' = raced
      BY <1>2 DEF CreateEntry, ImportEntries, CreateEntryTranslation
    <2> QED
      BY <1>1, <1>2, <2>1, InsertSettles
  <1>3. ASSUME NEW c \in Clients, SaveEntry(c)
        PROVE  Settled(e)'
    BY <1>1, <1>3, SaveSettles
  <1>4. ASSUME NEW c \in Clients, DeleteEntry(c) \/ DeleteEntriesOfType(c)
        PROVE  Settled(e)'
    <2>1. raced' = raced
      BY <1>4 DEF DeleteEntry, DeleteEntriesOfType
    <2> QED
      BY <1>1, <1>4, <2>1, DeleteSettles
  <1>5. CASE UNCHANGED <<entry, decided, raced>>
    BY <1>1, <1>5, UntouchedSettled
  <1>6. ASSUME NEW c \in Clients,
               \/ Begin(c) \/ GetCachedType(c) \/ LoadType(c) \/ FillType(c)
               \/ DeleteFields(c) \/ DeleteTypeRow(c) \/ InvalidateType(c)
               \/ LoadEntry(c) \/ LookForTranslation(c) \/ Die(c)
        PROVE  UNCHANGED <<entry, decided, raced>>
    BY <1>6 DEF Begin, GetCachedType, LoadType, FillType, DeleteFields, DeleteTypeRow,
                InvalidateType, LoadEntry, LookForTranslation, Die, rows, history
  <1>7. (CreateContentType \/ (\E k \in Caches : ExpireType(k)) \/ UNCHANGED contentVars)
           => UNCHANGED <<entry, decided, raced>>
    BY DEF CreateContentType, ExpireType, contentVars, rows, history
  <1> QED
    BY <1>2, <1>3, <1>4, <1>5, <1>6, <1>7 DEF ContentNext

(* An entry is what the last publication or deletion that was answered made  *)
(* of it, unless a request saved it over a row that had changed meanwhile.   *)
THEOREM DecisionsStand == ContentSpec => []AsDecided
  <1>1. ContentInit => TypeInv /\ AsDecided
    <2>1. ContentInit => AsDecided
      BY DEF ContentInit, AsDecided
    <2> QED
      BY <2>1, InitTypes
  <1>2. TypeInv /\ AsDecided /\ [ContentNext]_contentVars => (TypeInv /\ AsDecided)'
    BY StepTypes, StepDecided
  <1> QED
    BY <1>1, <1>2, PTL DEF ContentSpec

---------------------------------------------------------------------------------
(* What a cache holds of a deleted type.                                     *)
Invalidates(c, k, t) ==
    /\ At(c, "invalidate") /\ request[c].cache = k /\ request[c].ct.id = t

LEMMA InvalidatorsStay ==
    ASSUME TypeInv, NEW c \in Clients, Moves(c), ~ At(c, "invalidate"),
           NEW n \in Clients, NEW k, NEW t, Invalidates(n, k, t)
    PROVE  Invalidates(n, k, t)'
  <1>1. n # c
    BY DEF Invalidates
  <1>2. request'[n] = request[n]
    BY <1>1 DEF Moves
  <1> QED
    BY <1>2 DEF Invalidates, At

(* What is explained before a step that changes no cache stays so.           *)
LEMMA ExplainedStays ==
    ASSUME StaleTypeIsExplained, NEW k \in Caches,
           typeCache'[k] = typeCache[k], stale[k] => stale'[k],
           typeCache'[k] # None /\ typeCache'[k].id \notin Stored' => typeCache'[k].id \notin Stored,
           \A n \in Clients : \A t : Invalidates(n, k, t) => Invalidates(n, k, t)'
    PROVE  typeCache'[k] # None /\ typeCache'[k].id \notin Stored' =>
              stale'[k] \/ \E n \in Clients : Invalidates(n, k, typeCache[k].id)'
  <1> SUFFICES ASSUME typeCache'[k] # None, typeCache'[k].id \notin Stored', ~ stale'[k]
               PROVE  \E n \in Clients : Invalidates(n, k, typeCache[k].id)'
    OBVIOUS
  <1>1. PICK t : t = typeCache[k].id
    OBVIOUS
  <1>2. PICK n \in Clients : Invalidates(n, k, t)
    BY <1>1 DEF StaleTypeIsExplained, Invalidates
  <1>3. Invalidates(n, k, t)'
    BY <1>2
  <1>4. typeCache'[k].id = t
    BY <1>1
  <1> QED
    BY <1>3, <1>4 DEF Invalidates

Explained(k) ==
    typeCache[k] # None /\ typeCache[k].id \notin Stored =>
        stale[k] \/ \E n \in Clients : Invalidates(n, k, typeCache[k].id)

LEMMA StepExplained ==
    ASSUME TypeInv, StaleTypeIsExplained, [ContentNext]_contentVars
    PROVE  StaleTypeIsExplained'
  <1> SUFFICES ASSUME NEW k \in Caches
               PROVE  Explained(k)'
    BY DEF StaleTypeIsExplained, Explained, Invalidates
  <1> USE DEF Explained
  <1>1. ASSUME NEW c \in Clients, Moves(c), ~ At(c, "invalidate"),
               typeCache'[k] = typeCache[k], stale[k] => stale'[k],
               typeCache'[k] # None /\ typeCache'[k].id \notin Stored'
                  => typeCache'[k].id \notin Stored
        PROVE  Explained(k)'
    BY <1>1, InvalidatorsStay, ExplainedStays
  <1>2. CASE CreateContentType
    <2>1. request' = request /\ typeCache' = typeCache /\ stale' = stale
      BY <1>2 DEF CreateContentType, history
    <2>2. typeCache'[k] # None /\ typeCache'[k].id \notin Stored' => typeCache'[k].id \notin Stored
      BY <1>2 DEF CreateContentType, Stored
    <2> QED
      BY <2>1, <2>2, ExplainedStays DEF Invalidates, At
  <1>3. ASSUME NEW j \in Caches, ExpireType(j)
        PROVE  Explained(k)'
    <2>1. request' = request /\ Stored' = Stored
      BY <1>3 DEF ExpireType, rows, Stored
    <2>2. k = j => typeCache'[k] = None
      BY <1>3, ClearedCachesFed DEF ExpireType
    <2>3. k # j => typeCache'[k] = typeCache[k] /\ stale'[k] = stale[k]
      BY <1>3 DEF ExpireType, TypeInv, ContentTypeOK
    <2> QED
      BY <2>1, <2>2, <2>3, ExplainedStays DEF Invalidates, At
  <1>4. CASE UNCHANGED contentVars
    <2>1. request' = request /\ typeCache' = typeCache /\ stale' = stale /\ Stored' = Stored
      BY <1>4 DEF contentVars, rows, history, Stored
    <2> QED
      BY <2>1, ExplainedStays DEF Invalidates, At
  <1>5. ASSUME NEW c \in Clients, FillType(c)
        PROVE  Explained(k)'
    <2> DEFINE j == request[c].cache
               gone == request[c].ct.id \notin Stored
    <2>1. /\ Moves(c) /\ ~ At(c, "invalidate") /\ j \in Caches
          /\ typeCache'[j] = request[c].ct /\ \A i \in Caches \ {j} : typeCache'[i] = typeCache[i]
      BY <1>5, FillsMove, FilledCachesFed DEF FillType, At
    <2>2. Stored' = Stored
      BY <1>5 DEF FillType, rows, Stored
    <2>3. stale' = [stale EXCEPT ![j] = gone] /\ stale \in [Caches -> BOOLEAN]
      BY <1>5 DEF FillType, TypeInv, ContentTypeOK
    <2>4. CASE k = j
      BY <2>1, <2>2, <2>3, <2>4
    <2>5. CASE k # j
      BY <1>1, <2>1, <2>2, <2>3, <2>5
    <2> QED
      BY <2>4, <2>5
  <1>6. ASSUME NEW c \in Clients, DeleteTypeRow(c)
        PROVE  Explained(k)'
    <2> DEFINE r == request[c]
    <2>1. Moves(c) /\ Busy(c) /\ r \in Request /\ ~ At(c, "invalidate")
      BY <1>6, DeletionsMove, BusyClients DEF DeleteTypeRow, At
    <2>2. /\ typeCache' = typeCache /\ types' = [types EXCEPT ![r.ct.id] = None]
          /\ stale'[k] = (stale[k] \/ (k # r.cache /\ typeCache[k] # None
                                                  /\ typeCache[k].id = r.ct.id))
      BY <1>6 DEF DeleteTypeRow
    <2>3. typeCache[k] # None /\ typeCache[k].id # r.ct.id /\ typeCache[k].id \notin Stored'
             => typeCache[k].id \notin Stored
      BY <2>2 DEF Stored
    <2>4. CASE typeCache[k] # None /\ typeCache[k].id = r.ct.id
      <3>1. CASE k # r.cache
        BY <2>2, <2>4, <3>1
      <3>2. CASE k = r.cache
        <4>1. request' = [request EXCEPT ![c].phase = "invalidate"]
          BY <1>6 DEF DeleteTypeRow, Enter
        <4>2. request'[c] = [r EXCEPT !.phase = "invalidate"]
          BY <4>1 DEF TypeInv
        <4>3. /\ request'[c].phase = "invalidate" /\ request'[c].cache = r.cache
              /\ request'[c].ct = r.ct
          BY <2>1, <4>2 DEF Request
        <4>4. Invalidates(c, k, typeCache[k].id)'
          BY <2>2, <2>4, <3>2, <4>3 DEF Invalidates, At
        <4> QED
          BY <4>4
      <3> QED
        BY <3>1, <3>2
    <2>5. CASE ~ (typeCache[k] # None /\ typeCache[k].id = r.ct.id)
      BY <1>1, <2>1, <2>2, <2>3, <2>5
    <2> QED
      BY <2>4, <2>5
  <1>7. ASSUME NEW c \in Clients, InvalidateType(c)
        PROVE  Explained(k)'
    <2> DEFINE j == request[c].cache
    <2>1. Moves(c) /\ Busy(c) /\ j \in Caches
      BY <1>7, DeletionsMove, BusyClients
    <2>2. Stored' = Stored
      BY <1>7 DEF InvalidateType, rows, Stored
    <2>3. k = j => typeCache'[k] = None
      BY <1>7, <2>1, ClearedCachesFed DEF InvalidateType
    <2>4. CASE k # j
      <3>1. typeCache'[k] = typeCache[k] /\ stale'[k] = stale[k]
        BY <1>7, <2>1, <2>4 DEF InvalidateType, TypeInv, ContentTypeOK
      <3>2. ASSUME NEW n \in Clients, NEW t, Invalidates(n, k, t)
            PROVE  Invalidates(n, k, t)'
        <4>1. n # c
          BY <2>4, <3>2 DEF Invalidates
        <4> QED
          BY <2>1, <3>2, <4>1 DEF Moves, Invalidates, At
      <3> QED
        BY <2>2, <3>1, <3>2, ExplainedStays
    <2> QED
      BY <2>3, <2>4
  <1>8. ASSUME NEW c \in Clients, Die(c)
        PROVE  Explained(k)'
    <2> DEFINE j == request[c].cache
    <2>1. Moves(c) /\ Busy(c)
      BY <1>8, FinishersMove DEF Die, Busy
    <2>2. Stored' = Stored /\ typeCache' = typeCache
      BY <1>8 DEF Die, rows, Stored
    <2>3. CASE ~ At(c, "invalidate")
      BY <1>1, <1>8, <2>1, <2>2, <2>3 DEF Die
    <2>4. CASE At(c, "invalidate")
      <3>1. j \in Caches /\ stale' = [stale EXCEPT ![j] = TRUE] /\ stale \in [Caches -> BOOLEAN]
        BY <1>8, <2>1, <2>4, BusyClients DEF Die, TypeInv, ContentTypeOK
      <3>2. CASE k = j
        BY <3>1, <3>2
      <3>3. CASE k # j
        <4>1. ASSUME NEW n \in Clients, NEW t, Invalidates(n, k, t)
              PROVE  Invalidates(n, k, t)'
          <5>1. n # c
            BY <3>3, <4>1 DEF Invalidates
          <5> QED
            BY <2>1, <4>1, <5>1 DEF Moves, Invalidates, At
        <4> QED
          BY <2>2, <3>1, <3>3, <4>1, ExplainedStays
      <3> QED
        BY <3>2, <3>3
    <2> QED
      BY <2>3, <2>4
  <1>9. ASSUME NEW c \in Clients,
               \/ Begin(c) \/ GetCachedType(c) \/ LoadType(c)
               \/ DeleteEntriesOfType(c) \/ DeleteFields(c)
               \/ CreateEntry(c) \/ ImportEntries(c)
               \/ LoadEntry(c) \/ LookForTranslation(c) \/ CreateEntryTranslation(c)
               \/ SaveEntry(c) \/ DeleteEntry(c)
        PROVE  Explained(k)'
    <2>1. Moves(c)
      BY <1>9, ClientsStep
    <2>2. ~ At(c, "invalidate")
      BY <1>9 DEF Begin, GetCachedType, LoadType, DeleteEntriesOfType, DeleteFields, CreateEntry,
                  ImportEntries, LoadEntry, LookForTranslation, CreateEntryTranslation,
                  SaveEntry, DeleteEntry, At
    <2>3. typeCache' = typeCache /\ stale' = stale
      BY <1>9 DEF Begin, GetCachedType, LoadType, DeleteEntriesOfType, DeleteFields, CreateEntry,
                  ImportEntries, LoadEntry, LookForTranslation, CreateEntryTranslation,
                  SaveEntry, DeleteEntry, history
    <2>4. Stored' = Stored
      <3>1. CASE DeleteFields(c)
        <4>1. request[c].ct.id \notin Stored \/ request[c].ct.id \in Stored
          OBVIOUS
        <4>2. CASE request[c].ct.id \notin Stored
          BY <3>1, <4>2 DEF DeleteFields, Stored
        <4>3. CASE request[c].ct.id \in Stored
          <5> DEFINE t == request[c].ct.id
                     x == [types[t] EXCEPT !.state = "fieldless"]
          <5>1. types' = [types EXCEPT ![t] = x] /\ t \in TypeIds /\ types[t] # None
            BY <3>1, <4>3 DEF DeleteFields, Stored
          <5>2. x \in TypeRow
            BY <4>3, TypesFound DEF TypeRow
          <5>3. x # None
            BY <5>2, NothingIsNothing
          <5> HIDE DEF x
          <5> QED
            BY <5>1, <5>3 DEF Stored, TypeInv, ContentTypeOK
        <4> QED
          BY <4>2, <4>3
      <3>2. CASE ~ DeleteFields(c)
        BY <1>9, <3>2 DEF Begin, GetCachedType, LoadType, DeleteEntriesOfType, CreateEntry,
                          ImportEntries, LoadEntry, LookForTranslation, CreateEntryTranslation,
                          SaveEntry, DeleteEntry, rows, Stored
      <3> QED
        BY <3>1, <3>2
    <2> QED
      BY <1>1, <2>1, <2>2, <2>3, <2>4
  <1> QED
    BY <1>2, <1>3, <1>4, <1>5, <1>6, <1>7, <1>8, <1>9 DEF ContentNext

(* A cache that holds a deleted type got it from a read that overlapped the  *)
(* deletion, or the deletion went through another cache, or died, or is      *)
(* about to invalidate it.                                                   *)
THEOREM StaleTypesExplained == ContentSpec => []StaleTypeIsExplained
  <1>1. ContentInit => TypeInv /\ StaleTypeIsExplained
    <2>1. ContentInit => StaleTypeIsExplained
      BY DEF ContentInit, StaleTypeIsExplained
    <2> QED
      BY <2>1, InitTypes
  <1>2. TypeInv /\ StaleTypeIsExplained /\ [ContentNext]_contentVars
          => (TypeInv /\ StaleTypeIsExplained)'
    BY StepTypes, StepExplained
  <1> QED
    BY <1>1, <1>2, PTL DEF ContentSpec

---------------------------------------------------------------------------------
(* The search indexes.                                                       *)

(* What the proof says of the indexes.                                       *)

Active(w) == worker[w] # AtRest

(* The warm-up only reads the rows.                                          *)
Touches(j) == IF j.op = "warm" THEN {"found"} ELSE PartsOf(j)

Embedding == {"dropRows", "dropVectors", "insert", "upsert"}

StepsOf(op) ==
    CASE op = "reindex" -> Embedding \cup {"load", "pruneVectors", "pruneRows"}
      [] op = "relist"  -> {"collect", "clear", "relist"}
      [] op = "warm"    -> {"read", "fill"}
      [] op \in {"delete", "bulkRemove"} -> Embedding \cup {"unlist"}
      [] OTHER          -> Embedding \cup {"reload", "list"}

DocsOf(batch) == {batch[n].doc : n \in 1 .. Len(batch)}

JobFits(j) ==
    /\ j.step \in StepsOf(j.op)
    /\ j.op \in Rebuilds <=> j.on = 0
    /\ j.op \in Writes => j.of = {j.on}
    /\ j.op \in {"relist", "warm"} => j.of = Docs
    /\ j.step \in Embedding => j.copy.doc \in j.of
    /\ j.op = "reindex" => DocsOf(j.batch) \subseteq j.of
    /\ j.step \in Embedding \cup {"list"} => j.copy \in Copies
    /\ j.op \in Writes /\ j.step \in Embedding \cup {"list", "unlist"} => j.copy.doc = j.on

NoMeeting ==
    \A v, w \in Slots :
        v # w /\ Active(v) /\ Active(w) /\ Meets(worker[v], worker[w]) => ~ worker[v].alone

HealedRests ==
    \A d \in Docs : \A w \in Slots :
        Active(w) /\ Concerns(worker[w], d) => healed[d] \cap Touches(worker[w]) = {}

Live     == {d \in DefaultTenant : IsLive(d)}
Shown(D) == {d \in D : Published(d)}

Fresh(copy, d) ==
    /\ copy.doc = d
    /\ Indexed(copy) <=> Published(d)
    /\ Indexed(copy) => copy.text = piece[d].text

RequestOnTrack(j) ==
    LET d == j.on IN
    /\ j.step = "list" => IsLive(d) /\ j.copy = CopyOf(d)
    /\ j.step = "unlist" => ~ Published(d)
    /\ j.step \in Embedding \cup {"unlist"} => Fresh(j.copy, d)
    /\ j.step \in Embedding => (j.op = "bulkRemove" /\ d \in Pages) \/ ListAgrees(d)
    /\ j.step \in {"dropVectors", "insert"} => TextsOf(embeddings, d) = {}
    /\ j.step = "insert" => Indexed(j.copy) /\ TextsOf(vectors, d) = {}
    /\ j.step = "upsert" => Indexed(j.copy) /\ Agrees(embeddings, d)

Rank(D, d) == Cardinality({e \in D : e <= d})

In(batch, copy) == \E n \in 1 .. Len(batch) : batch[n] = copy

CopiesOf(batch, D) == \A n \in 1 .. Len(batch) : \E d \in D : batch[n] = CopyOf(d)

RelistOnTrack(j) ==
    /\ CopiesOf(j.batch, Live)
    /\ j.step = "collect" => \A d \in Live : Rank(Live, d) <= j.offset => In(j.batch, CopyOf(d))
    /\ j.step = "clear" => \A d \in Live : In(j.batch, CopyOf(d))
    /\ j.step = "relist" =>
          \A d \in Docs : \/ documents[d] = Unlisted /\ (d \in Live => In(j.batch, CopyOf(d)))
                          \/ d \in Live /\ documents[d] = CopyOf(d)

Now(j, d) == j.step \in Embedding /\ j.copy.doc = d

ReindexOnTrack(j) ==
    LET S == Shown(j.of) IN
    /\ CopiesOf(j.batch, S)
    /\ j.step \in Embedding => \E d \in S : j.copy = CopyOf(d)
    /\ j.step = "load" => j.batch = <<>>
    /\ j.step \in Embedding \cup {"load"} =>
          \A d \in S : Rank(S, d) <= j.offset =>
             d \in j.keep \/ In(j.batch, CopyOf(d)) \/ Now(j, d)
    /\ j.step \in Embedding /\ ~ j.more => Cardinality(S) <= j.offset
    /\ j.step \in {"pruneVectors", "pruneRows"} => S \subseteq j.keep
    /\ j.keep \subseteq S
    /\ \A d \in j.keep : \/ Now(j, d)
                         \/ /\ Agrees(embeddings, d)
                            /\ (j.step = "pruneRows" /\ d \in Pages) \/ Agrees(vectors, d)
    /\ j.step = "dropVectors" => TextsOf(embeddings, j.copy.doc) = {}
    /\ j.step = "insert" => /\ TextsOf(embeddings, j.copy.doc) = {}
                            /\ TextsOf(vectors, j.copy.doc) = {}
    /\ j.step = "upsert" => Agrees(embeddings, j.copy.doc)
    /\ j.step = "pruneRows" => \A d \in j.of \ Pages : Agrees(vectors, d)

WarmOnTrack(j) == j.step = "fill" => j.saw = embeddings

OnTrack(j) ==
    /\ j.op \in Writes  => RequestOnTrack(j)
    /\ j.op = "relist"  => RelistOnTrack(j)
    /\ j.op = "reindex" => ReindexOnTrack(j)
    /\ j.op = "warm"    => WarmOnTrack(j)

IndexFits ==
    /\ IndexTypeOK
    /\ worker \in [Slots -> Jobs \cup {AtRest}]
    /\ \A w \in Slots : Active(w) => JobFits(worker[w])

IndexInv ==
    /\ IndexFits
    /\ NoMeeting
    /\ HealedRests
    /\ \A w \in Slots : Active(w) /\ worker[w].alone => OnTrack(worker[w])
    /\ IndexesHeal
---------------------------------------------------------------------------------
(* Pages of a listing.                                                       *)

(* The articles of a set up to one of them are a finite set, and fewer than  *)
(* those up to a later one.                                                  *)
LEMMA RankGrows ==
    ASSUME NEW D \in SUBSET Docs, NEW d \in D, NEW e \in D, d < e
    PROVE  Rank(D, d) < Rank(D, e)
  <1> DEFINE A == {x \in D : x <= d}
             B == {x \in D : x <= e}
  <1>1. IsFiniteSet(D)
    BY FS_Subset, DocAssumption
  <1>5. IsFiniteSet(B)
    BY <1>1, FS_Subset
  <1>6. D \subseteq Nat
    BY DocAssumption
  <1>7. d \in Nat /\ e \in Nat
    BY <1>6
  <1>2. A \in SUBSET B /\ e \in B /\ e \notin A
    <2>1. \A x \in D : x <= d => x <= e
      BY <1>6, <1>7
    <2>2. A \subseteq B
      BY <2>1
    <2>3. e <= e /\ ~ e <= d
      BY <1>7
    <2> QED
      BY <2>2, <2>3
  <1>3. Cardinality(A) <= Cardinality(B) /\ (Cardinality(B) = Cardinality(A) => B = A)
    BY <1>5, <1>2, FS_Subset
  <1>4. Cardinality(A) \in Nat /\ Cardinality(B) \in Nat
    BY <1>5, <1>2, FS_Subset, FS_CardinalityType
  <1> QED
    BY <1>2, <1>3, <1>4 DEF Rank

LEMMA RankRange ==
    ASSUME NEW D \in SUBSET Docs, NEW d \in D
    PROVE  Rank(D, d) \in 1 .. Cardinality(D) /\ Cardinality(D) \in Nat
  <1> DEFINE A == {x \in D : x <= d}
  <1>1. IsFiniteSet(D)
    BY FS_Subset, DocAssumption
  <1>2. Cardinality(A) <= Cardinality(D) /\ IsFiniteSet(A)
    BY <1>1, FS_Subset
  <1>3. d \in A
    BY DocAssumption
  <1>4. Cardinality(A) # 0
    BY <1>2, <1>3, FS_EmptySet
  <1>5. Cardinality(A) \in Nat /\ Cardinality(D) \in Nat
    BY <1>1, <1>2, FS_CardinalityType
  <1> QED
    BY <1>2, <1>4, <1>5 DEF Rank

(* Every place of a listing is that of exactly one article.                  *)
LEMMA RankFound ==
    ASSUME NEW D \in SUBSET Docs, NEW k \in 1 .. Cardinality(D)
    PROVE  \E d \in D : Rank(D, d) = k
  <1> DEFINE f == [d \in D |-> Rank(D, d)]
             n == Cardinality(D)
  <1>1. IsFiniteSet(D)
    BY FS_Subset, DocAssumption
  <1>2. n \in Nat
    BY <1>1, FS_CardinalityType
  <1>3. IsFiniteSet(1 .. n) /\ Cardinality(1 .. n) = n
    BY <1>2, FS_Interval
  <1>4. f \in [D -> 1 .. n]
    BY RankRange
  <1>5. ASSUME NEW d \in D, NEW e \in D, f[d] = f[e]
        PROVE  d = e
    <2>1. d \in Nat /\ e \in Nat
      BY DocAssumption
    <2>2. Rank(D, d) = Rank(D, e) /\ Rank(D, d) \in Nat
      BY <1>4, <1>5, RankRange
    <2>3. ~ d < e
      BY <2>2, RankGrows
    <2>4. ~ e < d
      BY <2>2, RankGrows
    <2> QED
      BY <2>1, <2>3, <2>4
  <1>6. f \in Injection(D, 1 .. n)
    BY <1>4, <1>5 DEF Injection, IsInjective
  <1> HIDE DEF f, n
  <1>7. f \in Surjection(D, 1 .. n)
    BY <1>1, <1>3, <1>6, FS_Injection DEF n
  <1>8. PICK d \in D : f[d] = k
    BY <1>7 DEF Surjection, n
  <1> QED
    BY <1>8 DEF f

(* A page is a list of copies of articles of the set, among them those of the *)
(* next places; a page that is not full is the last.                         *)
LEMMA PageHolds ==
    ASSUME NEW D \in SUBSET Docs, NEW offset \in Nat, piece \in [Docs -> Rows]
    PROVE  /\ PageOf(D, offset) \in Seq(Copies)
           /\ CopiesOf(PageOf(D, offset), D)
           /\ \A d \in D : offset < Rank(D, d) /\ Rank(D, d) <= offset + BatchSize =>
                 In(PageOf(D, offset), CopyOf(d))
           /\ Len(PageOf(D, offset)) <= BatchSize
           /\ Len(PageOf(D, offset)) < BatchSize => Cardinality(D) <= offset + BatchSize
           /\ PageOf(D, offset) = <<>> => Cardinality(D) <= offset
  <1> DEFINE left == Cardinality(D) - offset
             size == IF left < BatchSize THEN left ELSE BatchSize
             PlaceOf(n) == CHOOSE d \in D : Rank(D, d) = offset + n
             page == PageOf(D, offset)
  <1>1. Cardinality(D) \in Nat
    BY FS_Subset, FS_CardinalityType, DocAssumption
  <1>2. BatchSize \in Nat /\ BatchSize > 0
    BY IndexBounds
  <1>3. page = [n \in 1 .. size |-> CopyOf(PlaceOf(n))]
    BY DEF PageOf, Rank
  <1>4. size \in Int /\ left \in Int /\ size <= left /\ size <= BatchSize
    BY <1>1, <1>2
  <1>5. ASSUME NEW n \in 1 .. size
        PROVE  PlaceOf(n) \in D /\ Rank(D, PlaceOf(n)) = offset + n
    <2>1. offset + n \in 1 .. Cardinality(D)
      BY <1>1, <1>4
    <2>2. \E d \in D : Rank(D, d) = offset + n
      BY <2>1, RankFound
    <2> QED
      BY <2>2
  <1>6. ASSUME NEW d \in D
        PROVE  CopyOf(d) \in Copies
    BY DEF CopyOf, Copies, Rows
  <1>7. DOMAIN page = 1 .. size /\ \A n \in 1 .. size : page[n] = CopyOf(PlaceOf(n))
    BY <1>3
  <1> HIDE DEF PlaceOf, page
  <1>8. page = [n \in 1 .. size |-> CopyOf(PlaceOf(n))]
    BY <1>3 DEF page
  <1> DEFINE long == IF size < 0 THEN 0 ELSE size
  <1>9. /\ long \in Nat /\ 1 .. size = 1 .. long
        /\ size < 0 => long = 0
        /\ ~ size < 0 => long = size
    <2>1. CASE size < 0
      <3>1. \A n \in Int : ~ (1 <= n /\ n <= size) /\ ~ (1 <= n /\ n <= 0)
        BY <1>4, <2>1
      <3> QED
        BY <1>4, <2>1, <3>1
    <2>2. CASE ~ size < 0
      BY <1>4, <2>2
    <2> QED
      BY <2>1, <2>2
  <1>10. \A n \in 1 .. long : CopyOf(PlaceOf(n)) \in Copies
    BY <1>5, <1>6, <1>9
  <1> HIDE DEF size, long
  <1>11. page \in Seq(Copies) /\ Len(page) = long
    <2>1. page = [n \in 1 .. long |-> CopyOf(PlaceOf(n))]
      BY <1>8, <1>9
    <2> QED
      BY <1>9, <1>10, <2>1
  <1>12. CopiesOf(page, D)
    BY <1>5, <1>7, <1>9, <1>11 DEF CopiesOf
  <1>13. ASSUME NEW d \in D, offset < Rank(D, d), Rank(D, d) <= offset + BatchSize
         PROVE  In(page, CopyOf(d))
    <2> DEFINE n == Rank(D, d) - offset
    <2>1. Rank(D, d) \in 1 .. Cardinality(D)
      BY RankRange
    <2>2. n \in 1 .. size /\ offset + n = Rank(D, d)
      BY <1>1, <1>2, <1>13, <2>1 DEF size
    <2>3. PlaceOf(n) \in D /\ Rank(D, PlaceOf(n)) = Rank(D, d)
      BY <1>5, <2>2
    <2>4. PlaceOf(n) \in Nat /\ d \in Nat
      BY <2>3, DocAssumption
    <2>5. ~ PlaceOf(n) < d
      BY <2>1, <2>3, RankGrows
    <2>6. ~ d < PlaceOf(n)
      BY <2>1, <2>3, RankGrows
    <2>7. PlaceOf(n) = d
      BY <2>4, <2>5, <2>6
    <2>8. page[n] = CopyOf(d)
      BY <1>7, <2>2, <2>7
    <2> QED
      BY <1>9, <1>11, <2>2, <2>8 DEF In
  <1>14. Len(page) <= BatchSize
    BY <1>2, <1>4, <1>9, <1>11
  <1>15. Len(page) < BatchSize => Cardinality(D) <= offset + BatchSize
    <2>1. size <= long
      BY <1>4, <1>9
    <2> QED
      BY <1>1, <1>2, <1>4, <1>9, <1>11, <2>1 DEF size
  <1>16. page = <<>> => Cardinality(D) <= offset
    <2>1. page = <<>> => long = 0
      BY <1>11
    <2>2. long = 0 => size <= 0
      BY <1>4, <1>9 
    <2> QED
      BY <1>1, <1>2, <2>1, <2>2 DEF size
  <1> QED
    BY <1>11, <1>12, <1>13, <1>14, <1>15, <1>16 DEF page

---------------------------------------------------------------------------------
(* The texts of an article in a set of vectors.                              *)

LEMMA TextsWithout ==
    ASSUME NEW V, NEW d, NEW e
    PROVE  TextsOf(Without(V, d), e) = IF e = d THEN {} ELSE TextsOf(V, e)
  BY DEF TextsOf, Without

LEMMA TextsWith ==
    ASSUME NEW V, NEW r, NEW e, r.doc = e
    PROVE  TextsOf(V \cup {r}, e) = TextsOf(V, e) \cup {r.text}
  <1>1. {v \in V \cup {r} : v.doc = e} = {v \in V : v.doc = e} \cup {r}
    OBVIOUS
  <1> QED
    BY <1>1 DEF TextsOf

LEMMA TextsBeside ==
    ASSUME NEW V, NEW r, NEW e, r.doc # e
    PROVE  TextsOf(V \cup {r}, e) = TextsOf(V, e)
  <1>1. {v \in V \cup {r} : v.doc = e} = {v \in V : v.doc = e}
    OBVIOUS
  <1> QED
    BY <1>1 DEF TextsOf

---------------------------------------------------------------------------------
(* A step of a job: what it leaves as it was.                                *)

JobStep(w) ==
    /\ Active(w)
    /\ worker' \in [Slots -> Jobs \cup {AtRest}]
    /\ \A v \in Slots \ {w} : worker'[v] = worker[v]
    /\ worker'[w] # AtRest =>
          /\ JobFits(worker'[w])
          /\ worker'[w].op = worker[w].op /\ worker'[w].on = worker[w].on
          /\ worker'[w].of = worker[w].of
          /\ worker'[w].alone => worker[w].alone
    /\ piece' = piece
    /\ \A d \in Docs : ~ Concerns(worker[w], d) =>
          /\ documents'[d] = documents[d]
          /\ TextsOf(embeddings', d) = TextsOf(embeddings, d)
          /\ TextsOf(vectors', d) = TextsOf(vectors, d)
    /\ "listed" \notin Touches(worker[w]) => documents' = documents
    /\ "stored" \notin Touches(worker[w]) => embeddings' = embeddings
    /\ "found" \notin Touches(worker[w])  => vectors' = vectors
    /\ \/ healed' = healed
       \/ worker'[w] = AtRest /\ EndJob(w)
    /\ IndexTypeOK'

LEMMA JobFields ==
    ASSUME NEW j \in Jobs
    PROVE  /\ j # AtRest
           /\ j.op \in Writes \cup Rebuilds /\ j.step \in Steps /\ j.on \in Docs \cup {0}
           /\ j.of \subseteq Docs
           /\ j.copy \in Copies \cup {Unlisted} /\ j.batch \in Seq(Copies) /\ j.offset \in Nat
           /\ j.more \in BOOLEAN /\ j.keep \subseteq Docs /\ j.saw \subseteq Vectors
           /\ j.alone \in BOOLEAN
  BY DEF Jobs, AtRest, Steps

LEMMA StepSet ==
    ASSUME NEW j \in Jobs, NEW s \in Steps
    PROVE  LET k == [j EXCEPT !.step = s] IN
           /\ k \in Jobs /\ k.step = s
           /\ k.op = j.op /\ k.on = j.on /\ k.of = j.of /\ k.copy = j.copy /\ k.batch = j.batch
           /\ k.offset = j.offset /\ k.more = j.more /\ k.keep = j.keep /\ k.saw = j.saw
           /\ k.alone = j.alone
  BY DEF Jobs

LEMMA WorkerSet ==
    ASSUME worker \in [Slots -> Jobs \cup {AtRest}], NEW w \in Slots,
           NEW k \in Jobs \cup {AtRest}, worker' = [worker EXCEPT ![w] = k]
    PROVE  /\ worker' \in [Slots -> Jobs \cup {AtRest}]
           /\ worker'[w] = k
           /\ \A v \in Slots \ {w} : worker'[v] = worker[v]
  OBVIOUS

(* What a request, and what a reindexing, has to be to fit.                   *)
LEMMA FitsRequest ==
    ASSUME NEW k, k.op \in Writes, k.on \in Docs, k.of = {k.on}, k.step \in StepsOf(k.op),
           k.step \in Embedding \cup {"list"} => k.copy \in Copies,
           k.step \in Embedding \cup {"list", "unlist"} => k.copy.doc = k.on
    PROVE  JobFits(k)
  <1>1. k.op \notin Rebuilds /\ k.op \notin {"relist", "warm"} /\ k.op # "reindex"
    BY DEF Writes, Rebuilds
  <1>2. k.on # 0
    BY DocAssumption
  <1>3. k.step \in Embedding => k.copy.doc \in k.of
    OBVIOUS
  <1> QED
    BY <1>1, <1>2, <1>3 DEF JobFits

LEMMA FitsReindex ==
    ASSUME NEW k, k.op = "reindex", k.on = 0, k.step \in StepsOf("reindex"),
           k.step \in Embedding => k.copy \in Copies /\ k.copy.doc \in k.of,
           DocsOf(k.batch) \subseteq k.of
    PROVE  JobFits(k)
  <1>1. k.op \notin Writes /\ k.op \notin {"relist", "warm"} /\ k.op \in Rebuilds
    BY DEF Writes, Rebuilds
  <1>2. k.step # "list"
    BY DEF StepsOf, Embedding
  <1> QED
    BY <1>1, <1>2 DEF JobFits

(* Which parts a job touches, by what it does.                               *)
LEMMA TouchedBy ==
    ASSUME NEW j \in Jobs, JobFits(j)
    PROVE  /\ j.step \in {"reload", "list", "unlist"} =>
                 j.op \in Writes /\ j.on \in Docs /\ j.of = {j.on} /\ Touches(j) = Parts
           /\ j.step \in Embedding =>
                 /\ j.copy \in Copies
                 /\ j.copy.doc \in j.of
                 /\ \/ j.op \in Writes /\ j.on = j.copy.doc /\ j.on \in Docs /\ Touches(j) = Parts
                    \/ j.op = "reindex" /\ j.on = 0 /\ Touches(j) = Parts \ Listing
           /\ j.step \in {"load", "pruneVectors", "pruneRows"} =>
                 j.op = "reindex" /\ j.on = 0 /\ Touches(j) = Parts \ Listing
           /\ j.step \in {"collect", "clear", "relist"} =>
                 j.op = "relist" /\ j.on = 0 /\ j.of = Docs /\ Touches(j) = Listing
           /\ j.step \in {"read", "fill"} => j.op = "warm" /\ j.on = 0 /\ Touches(j) = {"found"}
  <1>1. j.op \in Writes \cup Rebuilds /\ j.on \in Docs \cup {0}
    BY DEF Jobs
  <1>2. j.op = "reindex" => Touches(j) = Parts \ Listing
    BY DEF Touches, PartsOf, Rebuilds, Parts
  <1>3. j.op = "relist" => Touches(j) = Listing
    BY DEF Touches, PartsOf
  <1>4. j.op = "warm" => Touches(j) = {"found"}
    BY DEF Touches
  <1>5. j.op \in Writes => Touches(j) = Parts
    BY DEF Touches, PartsOf, Rebuilds, Writes
  <1>6. j.op \in Rebuilds <=> j.on = 0
    BY DEF JobFits
  <1>7. j.op = "reindex" => j.step \in Embedding \cup {"load", "pruneVectors", "pruneRows"}
    BY DEF JobFits, StepsOf
  <1>8. j.op = "relist" => j.step \in {"collect", "clear", "relist"}
    BY DEF JobFits, StepsOf
  <1>9. j.op = "warm" => j.step \in {"read", "fill"}
    BY DEF JobFits, StepsOf
  <1>10. j.op \in Writes => j.step \in Embedding \cup {"reload", "list", "unlist"}
    BY DEF JobFits, StepsOf, Writes
  <1>11. j.step \in Embedding => j.copy \in Copies /\ (j.op \in Writes => j.copy.doc = j.on)
    BY DEF JobFits
  <1>12. j.op \in Writes \/ j.op = "reindex" \/ j.op = "relist" \/ j.op = "warm"
    BY <1>1 DEF Rebuilds
  <1>13. j.op \in Writes => j.op \notin Rebuilds
    BY DEF Writes, Rebuilds
  <1>14. j.op = "reindex" \/ j.op = "relist" \/ j.op = "warm" => j.op \in Rebuilds
    BY DEF Rebuilds
  <1>15. j.op \in Writes => j.on \in Docs
    BY <1>1, <1>6, <1>13
  <1>20. /\ j.op \in Writes => j.of = {j.on}
         /\ j.op \in {"relist", "warm"} => j.of = Docs
         /\ j.step \in Embedding => j.copy.doc \in j.of
    BY DEF JobFits
  <1>16. CASE j.op \in Writes
    <2>1. j.step \notin {"load", "pruneVectors", "pruneRows", "collect", "clear", "relist", "read", "fill"}
      BY <1>10, <1>16 DEF Embedding
    <2>2. j.step \in Embedding => j.copy \in Copies /\ j.on = j.copy.doc
      BY <1>11, <1>16
    <2> QED
      BY <1>5, <1>15, <1>16, <1>20, <2>1, <2>2
  <1>17. CASE j.op = "reindex"
    BY <1>2, <1>6, <1>7, <1>11, <1>14, <1>17, <1>20 DEF Embedding
  <1>18. CASE j.op = "relist"
    BY <1>3, <1>6, <1>8, <1>14, <1>18, <1>20 DEF Embedding
  <1>19. CASE j.op = "warm"
    BY <1>4, <1>6, <1>9, <1>14, <1>19, <1>20 DEF Embedding
  <1> QED
    BY <1>12, <1>16, <1>17, <1>18, <1>19

(* The record of a job at work.                                              *)
LEMMA AtWork ==
    ASSUME IndexFits, NEW w \in Slots, Active(w)
    PROVE  worker[w] \in Jobs /\ JobFits(worker[w])
  BY DEF IndexFits, Active

LEMMA GotoStep ==
    ASSUME IndexFits, NEW w \in Slots, Active(w), NEW s \in Steps, Goto(w, s)
    PROVE  /\ worker' \in [Slots -> Jobs \cup {AtRest}]
           /\ \A v \in Slots \ {w} : worker'[v] = worker[v]
           /\ worker'[w] \in Jobs /\ worker'[w] # AtRest /\ worker'[w].step = s
           /\ worker'[w].op = worker[w].op /\ worker'[w].on = worker[w].on
           /\ worker'[w].of = worker[w].of
           /\ worker'[w].copy = worker[w].copy /\ worker'[w].batch = worker[w].batch
           /\ worker'[w].offset = worker[w].offset /\ worker'[w].more = worker[w].more
           /\ worker'[w].keep = worker[w].keep /\ worker'[w].saw = worker[w].saw
           /\ worker'[w].alone = worker[w].alone
  <1>1. PICK j \in Jobs : j = worker[w]
    BY AtWork
  <1> DEFINE k == [j EXCEPT !.step = s]
  <1>2. worker' = [worker EXCEPT ![w] = k]
    BY <1>1 DEF Goto
  <1>3. /\ k \in Jobs /\ k.step = s
        /\ k.op = j.op /\ k.on = j.on /\ k.of = j.of /\ k.copy = j.copy /\ k.batch = j.batch
        /\ k.offset = j.offset /\ k.more = j.more /\ k.keep = j.keep /\ k.saw = j.saw
        /\ k.alone = j.alone
    BY StepSet
  <1>4. k # AtRest
    BY <1>3, JobFields
  <1> HIDE DEF k
  <1>5. worker \in [Slots -> Jobs \cup {AtRest}]
    BY DEF IndexFits
  <1> QED
    BY <1>1, <1>2, <1>3, <1>4, <1>5

LEMMA EndStep ==
    ASSUME IndexFits, NEW w \in Slots, Active(w), EndJob(w)
    PROVE  /\ worker' \in [Slots -> Jobs \cup {AtRest}]
           /\ \A v \in Slots \ {w} : worker'[v] = worker[v]
           /\ worker'[w] = AtRest
           /\ healed' \in [Docs -> SUBSET Parts]
  <1>1. worker \in [Slots -> Jobs \cup {AtRest}] /\ healed \in [Docs -> SUBSET Parts]
    BY DEF IndexFits, IndexTypeOK
  <1>2. PICK j \in Jobs : j = worker[w]
    BY AtWork
  <1>3. j.op \in Writes \cup Rebuilds
    BY JobFields
  <1>4. ASSUME NEW d \in Docs
        PROVE  Repairs(j, d) \subseteq Parts
    BY <1>3 DEF Repairs, Parts
  <1>5. healed' \in [Docs -> SUBSET Parts]
    BY <1>1, <1>2, <1>4 DEF EndJob
  <1> QED
    BY <1>1, <1>5 DEF EndJob

LEMMA TypeKept ==
    ASSUME IndexTypeOK, worker' \in [Slots -> Jobs \cup {AtRest}],
           piece' \in [Docs -> Rows], documents' \in [Docs -> Copies \cup {Unlisted}],
           embeddings' \subseteq Vectors, vectors' \subseteq Vectors,
           ops' = ops \/ (ops < MaxOps /\ ops' = ops + 1),
           breaks' = breaks \/ (breaks < MaxBreaks /\ breaks' = breaks + 1),
           restarts' = restarts \/ (restarts < MaxRestarts /\ restarts' = restarts + 1),
           healed' \in [Docs -> SUBSET Parts]
    PROVE  IndexTypeOK'
  <1>1. MaxOps \in Nat /\ MaxBreaks \in Nat /\ MaxRestarts \in Nat
    BY IndexBounds
  <1>2. ops' \in 0 .. MaxOps
    BY <1>1 DEF IndexTypeOK
  <1>3. breaks' \in 0 .. MaxBreaks
    BY <1>1 DEF IndexTypeOK
  <1>4. restarts' \in 0 .. MaxRestarts
    BY <1>1 DEF IndexTypeOK
  <1>5. \A w \in Slots : worker'[w] = AtRest \/ worker'[w] \in Jobs
    OBVIOUS
  <1> QED
    BY <1>2, <1>3, <1>4, <1>5 DEF IndexTypeOK

(* Types of what the steps write.                                            *)
LEMMA TypesHeld ==
    ASSUME IndexFits
    PROVE  /\ piece \in [Docs -> Rows] /\ documents \in [Docs -> Copies \cup {Unlisted}]
           /\ embeddings \subseteq Vectors /\ vectors \subseteq Vectors
           /\ healed \in [Docs -> SUBSET Parts] /\ IndexTypeOK
           /\ \A d \in Docs : CopyOf(d) \in Copies /\ Gone(d) \in Copies
           /\ \A copy \in Copies : [doc |-> copy.doc, text |-> copy.text] \in Vectors
  <1>1. piece \in [Docs -> Rows] /\ MaxOps \in Nat
    BY IndexBounds DEF IndexFits, IndexTypeOK
  <1>2. \A d \in Docs : CopyOf(d) \in Copies /\ Gone(d) \in Copies
    BY <1>1 DEF CopyOf, Gone, Copies, Rows, Texts
  <1>3. \A copy \in Copies : [doc |-> copy.doc, text |-> copy.text] \in Vectors
    BY DEF Copies, Vectors
  <1> QED
    BY <1>2, <1>3 DEF IndexFits, IndexTypeOK

LEMMA ReloadStep ==
    ASSUME IndexFits, NEW w \in Slots, reindexByID(w)
    PROVE  JobStep(w)
  <1> USE DEF reindexByID
  <1>1. Active(w) /\ worker[w].step = "reload"
    BY DEF InStep, Active
  <1>2. PICK j \in Jobs : j = worker[w] /\ JobFits(j) /\ j.step = "reload"
    BY <1>1, AtWork
  <1>3. j.op \in Writes /\ j.on \in Docs /\ j.of = {j.on} /\ Touches(j) = Parts
    BY <1>2, TouchedBy
  <1>4. CASE IsLive(j.on)
    <2> DEFINE k == [j EXCEPT !.step = "list", !.copy = CopyOf(j.on)]
    <2>1. worker' = [worker EXCEPT ![w] = k]
      BY <1>2, <1>4
    <2>2. CopyOf(j.on) \in Copies /\ CopyOf(j.on).doc = j.on
      BY <1>3, TypesHeld DEF CopyOf
    <2>3. k \in Jobs /\ k.step = "list" /\ k.op = j.op /\ k.on = j.on /\ k.of = j.of /\ k.alone = j.alone
          /\ k.copy = CopyOf(j.on)
      BY <2>2 DEF Jobs, Steps
    <2>4. "list" \in StepsOf(j.op)
      BY <1>2, <1>3 DEF JobFits, StepsOf, Embedding, Writes
    <2>5. JobFits(k)
      BY <1>3, <2>2, <2>3, <2>4, FitsRequest
    <2>6. worker \in [Slots -> Jobs \cup {AtRest}]
      BY DEF IndexFits
    <2> HIDE DEF k
    <2>7. /\ worker' \in [Slots -> Jobs \cup {AtRest}]
          /\ worker'[w] = k
          /\ \A v \in Slots \ {w} : worker'[v] = worker[v]
      BY <2>1, <2>3, <2>6
    <2>8. IndexTypeOK'
      BY <2>7, TypesHeld, TypeKept
    <2> QED
      BY <1>1, <1>2, <2>3, <2>5, <2>7, <2>8 DEF JobStep
  <1>5. CASE ~ IsLive(j.on)
    <2>1. worker' = [worker EXCEPT ![w] = AtRest]
      BY <1>2, <1>5
    <2>6. worker \in [Slots -> Jobs \cup {AtRest}]
      BY DEF IndexFits
    <2>7. /\ worker' \in [Slots -> Jobs \cup {AtRest}]
          /\ worker'[w] = AtRest
          /\ \A v \in Slots \ {w} : worker'[v] = worker[v]
      BY <2>1, <2>6
    <2>8. IndexTypeOK'
      BY <2>7, TypesHeld, TypeKept
    <2> QED
      BY <1>1, <2>7, <2>8 DEF JobStep
  <1> QED
    BY <1>4, <1>5

LEMMA IndexStep ==
    ASSUME IndexFits, NEW w \in Slots, Index(w)
    PROVE  JobStep(w)
  <1> USE DEF Index
  <1>1. Active(w) /\ worker[w].step = "list"
    BY DEF InStep, Active
  <1>2. PICK j \in Jobs : j = worker[w] /\ JobFits(j) /\ j.step = "list"
    BY <1>1, AtWork
  <1>3. j.op \in Writes /\ j.on \in Docs /\ j.of = {j.on} /\ Touches(j) = Parts
    BY <1>2, TouchedBy
  <1>4. j.copy \in Copies /\ j.copy.doc = j.on
    BY <1>2, <1>3 DEF JobFits
  <1>5. Goto(w, "dropRows") /\ "dropRows" \in Steps
    BY DEF Steps
  <1>6. /\ worker' \in [Slots -> Jobs \cup {AtRest}]
        /\ \A v \in Slots \ {w} : worker'[v] = worker[v]
        /\ worker'[w].step = "dropRows"
        /\ worker'[w].op = j.op /\ worker'[w].on = j.on
        /\ worker'[w].of = j.of /\ worker'[w].copy = j.copy
        /\ worker'[w].alone = j.alone
    BY <1>1, <1>2, <1>5, GotoStep
  <1>7. "dropRows" \in StepsOf(j.op)
    BY <1>3 DEF StepsOf, Embedding, Writes
  <1>8. JobFits(worker'[w])
    BY <1>3, <1>4, <1>6, <1>7, FitsRequest
  <1>9. documents' = [documents EXCEPT ![j.on] = j.copy]
    BY <1>2
  <1>10. documents' \in [Docs -> Copies \cup {Unlisted}]
    BY <1>4, <1>9, TypesHeld
  <1>11. IndexTypeOK'
    BY <1>6, <1>10, TypesHeld, TypeKept
  <1>12. \A d \in Docs : ~ Concerns(j, d) => documents'[d] = documents[d]
    BY <1>3, <1>9, TypesHeld DEF Concerns
  <1> QED
    BY <1>1, <1>2, <1>3, <1>6, <1>8, <1>11, <1>12 DEF JobStep, Parts

LEMMA UnindexStep ==
    ASSUME IndexFits, NEW w \in Slots, Unindex(w)
    PROVE  JobStep(w)
  <1> USE DEF Unindex
  <1>1. Active(w) /\ worker[w].step = "unlist"
    BY DEF InStep, Active
  <1>2. PICK j \in Jobs : j = worker[w] /\ JobFits(j) /\ j.step = "unlist"
    BY <1>1, AtWork
  <1>3. j.op \in Writes /\ j.on \in Docs /\ j.of = {j.on} /\ Touches(j) = Parts
    BY <1>2, TouchedBy
  <1>4. j.copy \in Copies \cup {Unlisted} /\ j.copy.doc = j.on
    BY <1>2, <1>3, JobFields DEF JobFits
  <1>5. j.copy \in Copies
    BY <1>3, <1>4, DocAssumption DEF Unlisted
  <1>6. /\ worker' \in [Slots -> Jobs \cup {AtRest}]
        /\ \A v \in Slots \ {w} : worker'[v] = worker[v]
        /\ worker'[w].step = "dropRows"
        /\ worker'[w].op = j.op /\ worker'[w].on = j.on
        /\ worker'[w].of = j.of /\ worker'[w].copy = j.copy
        /\ worker'[w].alone = j.alone
    <2>1. Goto(w, "dropRows") /\ "dropRows" \in Steps
      BY DEF Steps
    <2> QED
      BY <1>1, <1>2, <2>1, GotoStep
  <1>7. "dropRows" \in StepsOf(j.op)
    BY <1>3 DEF StepsOf, Embedding, Writes
  <1>8. JobFits(worker'[w])
    BY <1>3, <1>4, <1>5, <1>6, <1>7, FitsRequest
  <1>9. documents' = documents \/ documents' = [documents EXCEPT ![j.on] = Unlisted]
    BY <1>2
  <1>10. documents' \in [Docs -> Copies \cup {Unlisted}]
    BY <1>4, <1>9, TypesHeld
  <1>11. IndexTypeOK'
    BY <1>6, <1>10, TypesHeld, TypeKept
  <1>12. \A d \in Docs : ~ Concerns(j, d) => documents'[d] = documents[d]
    BY <1>3, <1>9, TypesHeld DEF Concerns
  <1> QED
    BY <1>1, <1>2, <1>3, <1>6, <1>8, <1>11, <1>12 DEF JobStep, Parts

(* The steps of embedding one copy: the job goes on to the next of them.      *)
LEMMA EmbeddingMoves ==
    ASSUME IndexFits, NEW w \in Slots, Active(w), worker[w].step \in Embedding,
           NEW s \in Embedding, Goto(w, s)
    PROVE  /\ worker' \in [Slots -> Jobs \cup {AtRest}]
           /\ \A v \in Slots \ {w} : worker'[v] = worker[v]
           /\ worker'[w] \in Jobs /\ worker'[w].step = s
           /\ worker'[w].op = worker[w].op /\ worker'[w].on = worker[w].on
           /\ worker'[w].of = worker[w].of
           /\ worker'[w].copy = worker[w].copy /\ worker'[w].batch = worker[w].batch
           /\ worker'[w].offset = worker[w].offset /\ worker'[w].more = worker[w].more
           /\ worker'[w].keep = worker[w].keep
           /\ worker'[w].alone = worker[w].alone
           /\ JobFits(worker'[w])
  <1>1. PICK j \in Jobs : j = worker[w] /\ JobFits(j) /\ j.step \in Embedding
    BY AtWork
  <1>2. s \in Steps
    BY DEF Embedding, Steps
  <1>3. /\ worker' \in [Slots -> Jobs \cup {AtRest}]
        /\ \A v \in Slots \ {w} : worker'[v] = worker[v]
        /\ worker'[w] \in Jobs /\ worker'[w].step = s
        /\ worker'[w].op = j.op /\ worker'[w].on = j.on /\ worker'[w].of = j.of
        /\ worker'[w].copy = j.copy /\ worker'[w].batch = j.batch
        /\ worker'[w].offset = j.offset /\ worker'[w].more = j.more
        /\ worker'[w].keep = j.keep
        /\ worker'[w].alone = j.alone
    BY <1>1, <1>2, GotoStep
  <1>4. s \in StepsOf(j.op) /\ j.op \in Writes \cup Rebuilds
    <2>1. j.step \in StepsOf(j.op) /\ j.op \in Writes \cup Rebuilds
      BY <1>1, JobFields DEF JobFits
    <2>2. j.op # "relist" /\ j.op # "warm"
      BY <1>1, <2>1 DEF StepsOf, Embedding
    <2> QED
      BY <2>1, <2>2 DEF StepsOf
  <1>5. JobFits(worker'[w])
    <2>1. /\ j.copy \in Copies /\ j.copy.doc \in j.of
          /\ \/ j.op \in Writes /\ j.on = j.copy.doc /\ j.on \in Docs
             \/ j.op = "reindex" /\ j.on = 0
      BY <1>1, TouchedBy
    <2>2. CASE j.op \in Writes
      <3>1. j.of = {j.on} /\ j.on = j.copy.doc /\ j.on \in Docs
        BY <1>1, <2>1, <2>2 DEF JobFits, Writes
      <3> QED
        BY <1>3, <1>4, <2>1, <2>2, <3>1, FitsRequest
    <2>3. CASE j.op = "reindex" /\ j.on = 0
      <3>1. DocsOf(j.batch) \subseteq j.of
        BY <1>1, <2>3 DEF JobFits
      <3> QED
        BY <1>3, <1>4, <2>1, <2>3, <3>1, FitsReindex
    <2> QED
      BY <2>1, <2>2, <2>3
  <1> QED
    BY <1>1, <1>3, <1>5

(* What a step that embeds may write.                                        *)
LEMMA EmbeddingWrites ==
    ASSUME IndexFits, NEW w \in Slots, Active(w), worker[w].step \in Embedding,
           worker' \in [Slots -> Jobs \cup {AtRest}],
           \A v \in Slots \ {w} : worker'[v] = worker[v],
           worker'[w] # AtRest =>
              /\ JobFits(worker'[w])
              /\ worker'[w].op = worker[w].op /\ worker'[w].on = worker[w].on
              /\ worker'[w].of = worker[w].of
              /\ worker'[w].alone => worker[w].alone,
           piece' = piece, documents' = documents,
           embeddings' \in {embeddings, Without(embeddings, worker[w].copy.doc),
                            embeddings \cup {[doc |-> worker[w].copy.doc,
                                              text |-> worker[w].copy.text]}},
           vectors' \in {vectors, Without(vectors, worker[w].copy.doc),
                         Without(vectors, worker[w].copy.doc)
                            \cup {[doc |-> worker[w].copy.doc, text |-> worker[w].copy.text]}},
           ops' = ops \/ (ops < MaxOps /\ ops' = ops + 1),
           breaks' = breaks \/ (breaks < MaxBreaks /\ breaks' = breaks + 1),
           restarts' = restarts,
           healed' = healed \/ (worker'[w] = AtRest /\ EndJob(w))
    PROVE  JobStep(w)
  <1>1. PICK j \in Jobs : j = worker[w] /\ JobFits(j) /\ j.step \in Embedding
    BY AtWork
  <1>2. j.copy \in Copies /\ "stored" \in Touches(j) /\ "found" \in Touches(j)
    BY <1>1, TouchedBy DEF Parts, Listing
  <1>3. [doc |-> j.copy.doc, text |-> j.copy.text] \in Vectors
    BY <1>2, TypesHeld
  <1>4. embeddings' \subseteq Vectors /\ vectors' \subseteq Vectors
    BY <1>1, <1>3, TypesHeld DEF Without
  <1>5. healed' \in [Docs -> SUBSET Parts]
    BY EndStep, TypesHeld
  <1>6. IndexTypeOK'
    BY <1>4, <1>5, TypesHeld, TypeKept
  <1>7. ASSUME NEW d \in Docs, ~ Concerns(j, d)
        PROVE  TextsOf(embeddings', d) = TextsOf(embeddings, d) /\ TextsOf(vectors', d) = TextsOf(vectors, d)
    <2>1. j.copy.doc # d
      BY <1>1, <1>7, TouchedBy DEF Concerns
    <2> DEFINE r == [doc |-> j.copy.doc, text |-> j.copy.text]
    <2>2. TextsOf(Without(embeddings, j.copy.doc), d) = TextsOf(embeddings, d)
          /\ TextsOf(Without(vectors, j.copy.doc), d) = TextsOf(vectors, d)
      BY <2>1, TextsWithout
    <2>7. r.doc # d
      BY <2>1
    <2>5. embeddings' \in {embeddings, Without(embeddings, j.copy.doc), embeddings \cup {r}}
      BY <1>1
    <2>6. vectors' \in {vectors, Without(vectors, j.copy.doc), Without(vectors, j.copy.doc) \cup {r}}
      BY <1>1
    <2> HIDE DEF r
    <2>3. TextsOf(embeddings \cup {r}, d) = TextsOf(embeddings, d)
      BY <2>7, TextsBeside
    <2>4. TextsOf(Without(vectors, j.copy.doc) \cup {r}, d) = TextsOf(Without(vectors, j.copy.doc), d)
      BY <2>7, TextsBeside
    <2> QED
      BY <2>2, <2>3, <2>4, <2>5, <2>6
  <1> QED
    BY <1>1, <1>2, <1>6, <1>7 DEF JobStep

LEMMA DropRowsStep ==
    ASSUME IndexFits, NEW w \in Slots, DropRows(w)
    PROVE  JobStep(w)
  <1>1. Active(w) /\ worker[w].step \in Embedding /\ Goto(w, "dropVectors") /\ "dropVectors" \in Embedding
    BY DEF DropRows, InStep, Active, Embedding
  <1>2. /\ worker' \in [Slots -> Jobs \cup {AtRest}]
        /\ \A v \in Slots \ {w} : worker'[v] = worker[v]
        /\ worker'[w].op = worker[w].op /\ worker'[w].on = worker[w].on
        /\ worker'[w].of = worker[w].of
        /\ worker'[w].alone = worker[w].alone
        /\ JobFits(worker'[w])
    BY <1>1, EmbeddingMoves
  <1> QED
    BY <1>1, <1>2, EmbeddingWrites DEF DropRows

LEMMA DropVectorsStep ==
    ASSUME IndexFits, NEW w \in Slots, DropVectors(w)
    PROVE  JobStep(w)
  <1>1. Active(w) /\ worker[w].step \in Embedding /\ "insert" \in Embedding
    BY DEF DropVectors, InStep, Active, Embedding
  <1>2. CASE Goto(w, "insert") /\ healed' = healed
    <2>1. /\ worker' \in [Slots -> Jobs \cup {AtRest}]
          /\ \A v \in Slots \ {w} : worker'[v] = worker[v]
          /\ worker'[w].op = worker[w].op /\ worker'[w].on = worker[w].on
          /\ worker'[w].of = worker[w].of
          /\ worker'[w].alone = worker[w].alone
          /\ JobFits(worker'[w])
      BY <1>1, <1>2, EmbeddingMoves
    <2> QED
      BY <1>1, <1>2, <2>1, EmbeddingWrites DEF DropVectors
  <1>3. CASE EndJob(w)
    <2>1. /\ worker' \in [Slots -> Jobs \cup {AtRest}]
          /\ \A v \in Slots \ {w} : worker'[v] = worker[v]
          /\ worker'[w] = AtRest
      BY <1>1, <1>3, EndStep
    <2> QED
      BY <1>1, <1>3, <2>1, EmbeddingWrites DEF DropVectors
  <1> QED
    BY <1>2, <1>3 DEF DropVectors

LEMMA InsertRowsStep ==
    ASSUME IndexFits, NEW w \in Slots, InsertRows(w)
    PROVE  JobStep(w)
  <1>1. Active(w) /\ worker[w].step \in Embedding /\ Goto(w, "upsert") /\ "upsert" \in Embedding
    BY DEF InsertRows, InStep, Active, Embedding
  <1>2. /\ worker' \in [Slots -> Jobs \cup {AtRest}]
        /\ \A v \in Slots \ {w} : worker'[v] = worker[v]
        /\ worker'[w].op = worker[w].op /\ worker'[w].on = worker[w].on
        /\ worker'[w].of = worker[w].of
        /\ worker'[w].alone = worker[w].alone
        /\ JobFits(worker'[w])
    BY <1>1, EmbeddingMoves
  <1> QED
    BY <1>1, <1>2, EmbeddingWrites DEF InsertRows

(* The reindexing turns to the next copy, to the next page, or to pruning.    *)
LEMMA NextCopyStep ==
    ASSUME IndexFits, NEW w \in Slots, Active(w), worker[w].op = "reindex",
           worker[w].step \in Embedding, NEW kept \in SUBSET Docs, NextCopy(w, kept)
    PROVE  LET j == worker[w]
               n == Len(j.batch)
               k == worker'[w]
           IN /\ worker' \in [Slots -> Jobs \cup {AtRest}]
              /\ \A v \in Slots \ {w} : worker'[v] = worker[v]
              /\ k \in Jobs /\ JobFits(k) /\ healed' = healed
              /\ k.op = j.op /\ k.on = j.on /\ k.of = j.of /\ k.offset = j.offset /\ k.more = j.more
              /\ k.keep = j.keep \cup kept
              /\ k.alone = (j.alone /\ kept # {})
              /\ n = 0 => k.copy = Unlisted /\ k.batch = <<>>
                          /\ k.step = IF j.more THEN "load" ELSE "pruneVectors"
              /\ n > 0 => k.copy = Head(j.batch) /\ k.batch = Tail(j.batch) /\ k.step = "dropRows"
  <1>1. PICK j \in Jobs : j = worker[w] /\ JobFits(j) /\ j.step \in Embedding /\ j.op = "reindex"
    BY AtWork
  <1>2. /\ j.batch \in Seq(Copies) /\ j.keep \subseteq Docs /\ j.on = 0 /\ j.more \in BOOLEAN
        /\ j.alone \in BOOLEAN
    BY <1>1, JobFields, TouchedBy DEF Writes
  <1> DEFINE n == Len(j.batch)
  <1>3. n \in Nat /\ (n > 0 => Head(j.batch) \in Copies /\ Tail(j.batch) \in Seq(Copies))
    BY <1>2
  <1>4. <<>> \in Seq(Copies)
    OBVIOUS
  <1> DEFINE copy == IF n = 0 THEN Unlisted ELSE Head(j.batch)
             rest == IF n = 0 THEN <<>> ELSE Tail(j.batch)
             s    == IF n > 0 THEN "dropRows" ELSE IF j.more THEN "load" ELSE "pruneVectors"
             only == j.alone /\ kept # {}
             k == [j EXCEPT !.keep = j.keep \cup kept, !.alone = only,
                            !.copy = copy, !.batch = rest, !.step = s]
  <1>5. worker' = [worker EXCEPT ![w] = k] /\ healed' = healed
    BY <1>1 DEF NextCopy
  <1>6. /\ copy \in Copies \cup {Unlisted} /\ rest \in Seq(Copies) /\ s \in Steps
        /\ s = "dropRows" => copy \in Copies
        /\ s \in {"dropRows", "load", "pruneVectors"} /\ only \in BOOLEAN
        /\ j.keep \cup kept \subseteq Docs
    BY <1>2, <1>3, <1>4 DEF Steps
  <1>7. k \in Jobs /\ k.op = j.op /\ k.on = j.on /\ k.of = j.of /\ k.offset = j.offset /\ k.more = j.more
        /\ k.keep = j.keep \cup kept /\ k.alone = only /\ k.copy = copy /\ k.batch = rest
        /\ k.step = s
    <2> HIDE DEF copy, rest, s, only
    <2> QED
      BY <1>6 DEF Jobs
  <1>8. JobFits(k)
    <2>1. DocsOf(j.batch) \subseteq j.of
      BY <1>1 DEF JobFits
    <2>2. n > 0 => copy.doc \in j.of
      BY <1>2, <1>3, <2>1 DEF DocsOf
    <2>3. DocsOf(rest) \subseteq j.of
      <3>1. CASE n = 0
        BY <3>1 DEF DocsOf
      <3>2. CASE n > 0
        <4>1. \A i \in 1 .. Len(rest) : rest[i] = j.batch[i + 1] /\ i + 1 \in 1 .. n
          BY <1>2, <1>3, <3>2
        <4> QED
          BY <2>1, <4>1 DEF DocsOf
      <3> QED
        BY <1>3, <3>1, <3>2
    <2>4. k.step \in StepsOf("reindex") /\ (k.step \in Embedding => n > 0)
      BY <1>3, <1>7 DEF StepsOf, Embedding
    <2> HIDE DEF k, copy, rest, s, only
    <2> QED
      BY <1>1, <1>2, <1>6, <1>7, <2>2, <2>3, <2>4, FitsReindex DEF Embedding
  <1>9. worker \in [Slots -> Jobs \cup {AtRest}]
    BY DEF IndexFits
  <1> HIDE DEF k
  <1>10. /\ worker' \in [Slots -> Jobs \cup {AtRest}]
         /\ \A v \in Slots \ {w} : worker'[v] = worker[v]
         /\ worker'[w] = k
    BY <1>5, <1>7, <1>9
  <1> QED
    BY <1>1, <1>3, <1>5, <1>7, <1>8, <1>10

LEMMA UpsertStep ==
    ASSUME IndexFits, NEW w \in Slots, Upsert(w)
    PROVE  JobStep(w)
  <1>1. Active(w) /\ worker[w].step \in Embedding
    BY DEF Upsert, InStep, Active, Embedding
  <1>2. worker[w] \in Jobs /\ JobFits(worker[w])
    BY <1>1, AtWork
  <1>3. CASE worker[w].op = "reindex"
    <2>1. NextCopy(w, {worker[w].copy.doc}) /\ {worker[w].copy.doc} \in SUBSET Docs
      BY <1>1, <1>2, <1>3, TouchedBy DEF Upsert, Copies
    <2>2. /\ worker' \in [Slots -> Jobs \cup {AtRest}]
          /\ \A v \in Slots \ {w} : worker'[v] = worker[v]
          /\ JobFits(worker'[w]) /\ healed' = healed
          /\ worker'[w].op = worker[w].op /\ worker'[w].on = worker[w].on
          /\ worker'[w].of = worker[w].of
          /\ worker'[w].alone => worker[w].alone
      <3> HIDE DEF Upsert
      <3> DEFINE kept == {worker[w].copy.doc}
      <3>1. kept \in SUBSET Docs /\ NextCopy(w, kept)
        BY <2>1
      <3> HIDE DEF kept
      <3> QED
        BY <1>1, <1>3, <3>1, NextCopyStep
    <2> QED
      BY <1>1, <2>2, EmbeddingWrites DEF Upsert
  <1>4. CASE worker[w].op # "reindex"
    <2>1. EndJob(w)
      BY <1>4 DEF Upsert
    <2>2. /\ worker' \in [Slots -> Jobs \cup {AtRest}]
          /\ \A v \in Slots \ {w} : worker'[v] = worker[v]
          /\ worker'[w] = AtRest
      BY <1>1, <2>1, EndStep
    <2> QED
      BY <1>1, <2>1, <2>2, EmbeddingWrites DEF Upsert
  <1> QED
    BY <1>3, <1>4

LEMMA StepFailsStep ==
    ASSUME IndexFits, NEW w \in Slots, StepFails(w)
    PROVE  JobStep(w) /\ healed' = healed
  <1>1. /\ piece' = piece /\ documents' = documents /\ embeddings' = embeddings
        /\ vectors' = vectors /\ restarts' = restarts
        /\ breaks < MaxBreaks /\ breaks' = breaks + 1
        /\ ops < MaxOps /\ ops' = ops + 1
    BY DEF StepFails
  <1>2. worker \in [Slots -> Jobs \cup {AtRest}]
    BY DEF IndexFits
  <1>3. CASE worker' = [worker EXCEPT ![w] = AtRest] /\ healed' = healed /\ Active(w)
    <2>1. /\ worker' \in [Slots -> Jobs \cup {AtRest}]
          /\ \A v \in Slots \ {w} : worker'[v] = worker[v]
          /\ worker'[w] = AtRest
      BY <1>2, <1>3
    <2>2. IndexTypeOK'
      BY <1>1, <1>3, <2>1, TypesHeld, TypeKept
    <2> QED
      BY <1>1, <1>3, <2>1, <2>2 DEF JobStep
  <1>4. CASE Goto(w, "dropRows") /\ healed' = healed /\ Active(w) /\ worker[w].step \in Embedding
    <2>1. "dropRows" \in Embedding
      BY DEF Embedding
    <2>2. /\ worker' \in [Slots -> Jobs \cup {AtRest}]
          /\ \A v \in Slots \ {w} : worker'[v] = worker[v]
          /\ worker'[w].op = worker[w].op /\ worker'[w].on = worker[w].on
          /\ worker'[w].of = worker[w].of
          /\ worker'[w].alone = worker[w].alone
          /\ JobFits(worker'[w])
      BY <1>4, <2>1, EmbeddingMoves
    <2> QED
      BY <1>1, <1>4, <2>2, EmbeddingWrites
  <1>5. CASE NextCopy(w, {}) /\ worker[w].op = "reindex" /\ Active(w) /\ worker[w].step \in Embedding
    <2>1. PICK kept \in SUBSET Docs : kept = {}
      OBVIOUS
    <2>2. NextCopy(w, kept)
      BY <1>5, <2>1
    <2>3. /\ worker' \in [Slots -> Jobs \cup {AtRest}]
          /\ \A v \in Slots \ {w} : worker'[v] = worker[v]
          /\ JobFits(worker'[w]) /\ healed' = healed
          /\ worker'[w].op = worker[w].op /\ worker'[w].on = worker[w].on
          /\ worker'[w].of = worker[w].of
          /\ worker'[w].alone => worker[w].alone
      BY <1>5, <2>2, NextCopyStep
    <2> QED
      BY <1>1, <1>5, <2>3, EmbeddingWrites
  <1> QED
    BY <1>3, <1>4, <1>5 DEF StepFails, InStep, Active, Embedding

LEMMA LoadBatchStep ==
    ASSUME IndexFits, NEW w \in Slots, LoadBatch(w)
    PROVE  JobStep(w)
  <1>1. Active(w) /\ worker[w].step = "load"
    BY DEF LoadBatch, InStep, Active
  <1>2. PICK j \in Jobs : j = worker[w] /\ JobFits(j) /\ j.step = "load"
    BY <1>1, AtWork
  <1>3. j.op = "reindex" /\ j.on = 0 /\ j.offset \in Nat
    BY <1>2, TouchedBy, JobFields
  <1> DEFINE D == {d \in j.of : Published(d)}
             page == PageOf(D, j.offset)
  <1>4. page \in Seq(Copies) /\ DocsOf(page) \subseteq j.of
    <2>1. D \in SUBSET Docs /\ D \subseteq j.of
      BY JobFields
    <2> HIDE DEF D
    <2>2. page \in Seq(Copies) /\ CopiesOf(page, D)
      BY <1>3, <2>1, TypesHeld, PageHolds
    <2> HIDE DEF page
    <2> QED
      <3>1. ASSUME NEW n \in 1 .. Len(page)
            PROVE  page[n].doc \in j.of
        <4>1. PICK d \in D : page[n] = CopyOf(d)
          BY <2>2 DEF CopiesOf
        <4>2. CopyOf(d).doc = d
          BY DEF CopyOf
        <4> QED
          BY <2>1, <4>1, <4>2
      <3> QED
        BY <2>2, <3>1 DEF DocsOf
  <1> DEFINE more == (Len(page) = BatchSize)
             k == IF page = <<>> THEN [j EXCEPT !.step = "pruneVectors"]
                  ELSE [j EXCEPT !.step = "dropRows", !.copy = Head(page), !.batch = Tail(page),
                                 !.offset = j.offset + BatchSize, !.more = more]
  <1>5. worker' = [worker EXCEPT ![w] = k]
    BY <1>2 DEF LoadBatch
  <1>6. k \in Jobs /\ k.op = j.op /\ k.on = j.on /\ k.of = j.of /\ k.alone = j.alone
        /\ k.step = (IF page = <<>> THEN "pruneVectors" ELSE "dropRows")
        /\ (page # <<>> => k.copy \in Copies /\ k.copy.doc \in j.of)
        /\ DocsOf(k.batch) \subseteq j.of
    <2>1. CASE page = <<>>
      <3>1. k = [j EXCEPT !.step = "pruneVectors"] /\ "pruneVectors" \in Steps
        BY <2>1 DEF Steps
      <3>2. DocsOf(j.batch) \subseteq j.of
        BY <1>2, <1>3 DEF JobFits
      <3> QED
        BY <2>1, <3>1, <3>2, StepSet
    <2>2. CASE page # <<>>
      <3> HIDE DEF page, more
      <3>1. Head(page) \in Copies /\ Tail(page) \in Seq(Copies) /\ more \in BOOLEAN
        BY <1>4, <2>2 DEF more
      <3>2. j.offset + BatchSize \in Nat /\ "dropRows" \in Steps
        BY <1>3, IndexBounds DEF Steps
      <3>3. Head(page).doc \in j.of
        BY <1>4, <2>2 DEF DocsOf
      <3>4. DocsOf(Tail(page)) \subseteq j.of
        <4>1. \A i \in 1 .. Len(Tail(page)) : Tail(page)[i] = page[i + 1] /\ i + 1 \in 1 .. Len(page)
          BY <1>4, <2>2
        <4> QED
          BY <1>4, <4>1 DEF DocsOf
      <3>5. k = [j EXCEPT !.step = "dropRows", !.copy = Head(page), !.batch = Tail(page),
                          !.offset = j.offset + BatchSize, !.more = more]
        BY <2>2
      <3>6. /\ k \in Jobs /\ k.op = j.op /\ k.on = j.on /\ k.of = j.of /\ k.alone = j.alone
            /\ k.step = "dropRows" /\ k.copy = Head(page) /\ k.batch = Tail(page)
        <4> HIDE DEF k, more
        <4> QED
          BY <3>1, <3>2, <3>5 DEF Jobs
      <3> HIDE DEF k
      <3> QED
        BY <2>2, <3>1, <3>3, <3>4, <3>6
    <2> QED
      BY <2>1, <2>2
  <1> HIDE DEF k, page
  <1>7. JobFits(k)
    <2>1. k.step \in StepsOf("reindex") /\ (k.step \in Embedding => page # <<>>)
      BY <1>6 DEF StepsOf, Embedding
    <2> QED
      BY <1>3, <1>6, <2>1, FitsReindex
  <1>8. worker \in [Slots -> Jobs \cup {AtRest}]
    BY DEF IndexFits
  <1>9. /\ worker' \in [Slots -> Jobs \cup {AtRest}]
        /\ \A v \in Slots \ {w} : worker'[v] = worker[v]
        /\ worker'[w] = k
    BY <1>5, <1>6, <1>8
  <1>10. IndexTypeOK'
    BY <1>9, TypesHeld, TypeKept DEF LoadBatch
  <1> QED
    BY <1>1, <1>2, <1>6, <1>7, <1>9, <1>10 DEF JobStep, LoadBatch

LEMMA PruneVectorsStep ==
    ASSUME IndexFits, NEW w \in Slots, PruneVectors(w)
    PROVE  JobStep(w)
  <1>1. Active(w) /\ worker[w].step = "pruneVectors"
    BY DEF PruneVectors, InStep, Active
  <1>2. PICK j \in Jobs : j = worker[w] /\ JobFits(j) /\ j.step = "pruneVectors"
    BY <1>1, AtWork
  <1>3. j.op = "reindex" /\ j.on = 0 /\ Touches(j) = Parts \ Listing
    BY <1>2, TouchedBy
  <1>4. Goto(w, "pruneRows") /\ "pruneRows" \in Steps
    BY DEF Steps, PruneVectors
  <1>5. /\ worker' \in [Slots -> Jobs \cup {AtRest}]
        /\ \A v \in Slots \ {w} : worker'[v] = worker[v]
        /\ worker'[w] \in Jobs /\ worker'[w].step = "pruneRows"
        /\ worker'[w].op = j.op /\ worker'[w].on = j.on
        /\ worker'[w].of = j.of /\ worker'[w].alone = j.alone
    BY <1>1, <1>2, <1>4, GotoStep
  <1>6. JobFits(worker'[w])
    <2>1. DocsOf(j.batch) \subseteq j.of /\ worker'[w].batch = j.batch
      BY <1>1, <1>2, <1>3, <1>4, GotoStep DEF JobFits
    <2>2. worker'[w].step \in StepsOf("reindex") /\ worker'[w].step \notin Embedding
      BY <1>5 DEF StepsOf, Embedding
    <2> QED
      BY <1>3, <1>5, <2>1, <2>2, FitsReindex
  <1>7. vectors' \subseteq Vectors
    BY TypesHeld DEF PruneVectors, Prune
  <1>8. IndexTypeOK'
    BY <1>5, <1>7, TypesHeld, TypeKept DEF PruneVectors
  <1>9. ASSUME NEW d \in Docs, ~ Concerns(j, d)
        PROVE  TextsOf(vectors', d) = TextsOf(vectors, d)
    <2>1. vectors' = {v \in vectors : v.doc \notin j.of \/ v.doc \in j.keep \ Pages}
      BY <1>2 DEF PruneVectors, Prune
    <2> QED
      BY <1>9, <2>1 DEF Concerns, TextsOf
  <1> QED
    BY <1>9, <1>1, <1>2, <1>3, <1>5, <1>6, <1>8 DEF JobStep, PruneVectors, Parts, Listing

LEMMA PruneRowsStep ==
    ASSUME IndexFits, NEW w \in Slots, pruneArticleEmbeddingRows(w)
    PROVE  JobStep(w)
  <1>1. Active(w) /\ worker[w].step = "pruneRows"
    BY DEF pruneArticleEmbeddingRows, InStep, Active
  <1>2. PICK j \in Jobs : j = worker[w] /\ JobFits(j) /\ j.step = "pruneRows"
    BY <1>1, AtWork
  <1>3. j.op = "reindex" /\ j.on = 0 /\ Touches(j) = Parts \ Listing
    BY <1>2, TouchedBy
  <1>4. EndJob(w)
    BY DEF pruneArticleEmbeddingRows
  <1>5. /\ worker' \in [Slots -> Jobs \cup {AtRest}]
        /\ \A v \in Slots \ {w} : worker'[v] = worker[v]
        /\ worker'[w] = AtRest
        /\ healed' \in [Docs -> SUBSET Parts]
    BY <1>1, <1>4, EndStep
  <1>6. embeddings' \subseteq Vectors
    BY TypesHeld DEF pruneArticleEmbeddingRows
  <1>7. IndexTypeOK'
    BY <1>5, <1>6, TypesHeld, TypeKept DEF pruneArticleEmbeddingRows
  <1>9. ASSUME NEW d \in Docs, ~ Concerns(j, d)
        PROVE  TextsOf(embeddings', d) = TextsOf(embeddings, d)
    <2>1. embeddings' = {v \in embeddings : v.doc \notin j.of \/ v.doc \in Pages \cup j.keep}
      BY <1>2 DEF pruneArticleEmbeddingRows
    <2> QED
      BY <1>9, <2>1 DEF Concerns, TextsOf
  <1> QED
    BY <1>9, <1>1, <1>2, <1>3, <1>4, <1>5, <1>7 DEF JobStep, pruneArticleEmbeddingRows, Parts, Listing

LEMMA CollectPageStep ==
    ASSUME IndexFits, NEW w \in Slots, CollectPage(w)
    PROVE  JobStep(w)
  <1>1. Active(w) /\ worker[w].step = "collect"
    BY DEF CollectPage, InStep, Active
  <1>2. PICK j \in Jobs : j = worker[w] /\ JobFits(j) /\ j.step = "collect"
    BY <1>1, AtWork
  <1>3. j.op = "relist" /\ j.on = 0 /\ j.of = Docs /\ j.offset \in Nat /\ j.batch \in Seq(Copies)
    BY <1>2, TouchedBy, JobFields
  <1> DEFINE D == {d \in DefaultTenant : IsLive(d)}
             page == PageOf(D, j.offset)
             s == IF Len(page) < BatchSize THEN "clear" ELSE "collect"
             k == [j EXCEPT !.batch = j.batch \o page, !.offset = j.offset + BatchSize, !.step = s]
  <1>4. page \in Seq(Copies)
    <2>1. D \in SUBSET Docs
      BY TenantAssumption
    <2> HIDE DEF D
    <2> QED
      BY <1>3, <2>1, TypesHeld, PageHolds
  <1>5. worker' = [worker EXCEPT ![w] = k]
    BY <1>2 DEF CollectPage
  <1> HIDE DEF page
  <1>6. j.batch \o page \in Seq(Copies) /\ j.offset + BatchSize \in Nat /\ s \in Steps
        /\ s \in {"clear", "collect"}
    BY <1>3, <1>4, IndexBounds DEF Steps
  <1> HIDE DEF s
  <1>7. k \in Jobs /\ k.op = j.op /\ k.on = j.on /\ k.of = j.of /\ k.alone = j.alone /\ k.step = s
    BY <1>6 DEF Jobs
  <1> HIDE DEF k
  <1>8. JobFits(k)
    BY <1>3, <1>6, <1>7 DEF JobFits, StepsOf, Embedding, Rebuilds, Writes
  <1>9. worker \in [Slots -> Jobs \cup {AtRest}]
    BY DEF IndexFits
  <1>10. /\ worker' \in [Slots -> Jobs \cup {AtRest}]
         /\ \A v \in Slots \ {w} : worker'[v] = worker[v]
         /\ worker'[w] = k
    BY <1>5, <1>7, <1>9
  <1>11. IndexTypeOK'
    BY <1>10, TypesHeld, TypeKept DEF CollectPage
  <1> QED
    BY <1>1, <1>2, <1>7, <1>8, <1>10, <1>11 DEF JobStep, CollectPage

LEMMA ClearIndexStep ==
    ASSUME IndexFits, NEW w \in Slots, ClearIndex(w)
    PROVE  JobStep(w)
  <1>1. Active(w) /\ worker[w].step = "clear"
    BY DEF ClearIndex, InStep, Active
  <1>2. PICK j \in Jobs : j = worker[w] /\ JobFits(j) /\ j.step = "clear"
    BY <1>1, AtWork
  <1>3. j.op = "relist" /\ j.on = 0 /\ j.of = Docs /\ Touches(j) = Listing
    BY <1>2, TouchedBy
  <1>4. Goto(w, "relist") /\ "relist" \in Steps
    BY DEF Steps, ClearIndex
  <1>5. /\ worker' \in [Slots -> Jobs \cup {AtRest}]
        /\ \A v \in Slots \ {w} : worker'[v] = worker[v]
        /\ worker'[w] \in Jobs /\ worker'[w].step = "relist"
        /\ worker'[w].op = j.op /\ worker'[w].on = j.on
        /\ worker'[w].of = j.of /\ worker'[w].alone = j.alone
    BY <1>1, <1>2, <1>4, GotoStep
  <1>6. JobFits(worker'[w])
    BY <1>3, <1>5 DEF JobFits, StepsOf, Embedding, Rebuilds, Writes
  <1>7. documents' \in [Docs -> Copies \cup {Unlisted}]
    BY DEF ClearIndex
  <1>8. IndexTypeOK'
    BY <1>5, <1>7, TypesHeld, TypeKept DEF ClearIndex
  <1> QED
    BY <1>1, <1>2, <1>3, <1>5, <1>6, <1>8 DEF JobStep, ClearIndex, Concerns, Listing

LEMMA RelistNextStep ==
    ASSUME IndexFits, NEW w \in Slots, RelistNext(w)
    PROVE  JobStep(w)
  <1>1. Active(w) /\ worker[w].step = "relist"
    BY DEF RelistNext, InStep, Active
  <1>2. PICK j \in Jobs : j = worker[w] /\ JobFits(j) /\ j.step = "relist"
    BY <1>1, AtWork
  <1>3. j.op = "relist" /\ j.on = 0 /\ j.of = Docs /\ Touches(j) = Listing /\ j.batch \in Seq(Copies)
    BY <1>2, TouchedBy, JobFields
  <1>4. CASE j.batch = <<>>
    <2>1. EndJob(w) /\ documents' = documents
      BY <1>2, <1>4 DEF RelistNext
    <2>2. /\ worker' \in [Slots -> Jobs \cup {AtRest}]
          /\ \A v \in Slots \ {w} : worker'[v] = worker[v]
          /\ worker'[w] = AtRest
          /\ healed' \in [Docs -> SUBSET Parts]
      BY <1>1, <2>1, EndStep
    <2>3. IndexTypeOK'
      BY <2>1, <2>2, TypesHeld, TypeKept DEF RelistNext
    <2> QED
      BY <1>1, <1>2, <1>3, <2>1, <2>2, <2>3 DEF JobStep, RelistNext, Concerns, Listing
  <1>5. CASE j.batch # <<>>
    <2> DEFINE k == [j EXCEPT !.batch = Tail(j.batch)]
    <2>1. worker' = [worker EXCEPT ![w] = k] /\ healed' = healed
          /\ documents' = [documents EXCEPT ![Head(j.batch).doc] = Head(j.batch)]
      BY <1>2, <1>5 DEF RelistNext
    <2>2. Tail(j.batch) \in Seq(Copies) /\ Head(j.batch) \in Copies
      BY <1>3, <1>5
    <2>3. k \in Jobs /\ k.op = j.op /\ k.on = j.on /\ k.of = j.of /\ k.alone = j.alone /\ k.step = j.step
      BY <2>2 DEF Jobs
    <2> HIDE DEF k
    <2>4. JobFits(k)
      BY <1>2, <1>3, <2>3 DEF JobFits, StepsOf, Embedding, Rebuilds, Writes
    <2>5. worker \in [Slots -> Jobs \cup {AtRest}]
      BY DEF IndexFits
    <2>6. /\ worker' \in [Slots -> Jobs \cup {AtRest}]
          /\ \A v \in Slots \ {w} : worker'[v] = worker[v]
          /\ worker'[w] = k
      BY <2>1, <2>3, <2>5
    <2>7. documents' \in [Docs -> Copies \cup {Unlisted}]
      BY <2>1, <2>2, TypesHeld
    <2>8. IndexTypeOK'
      BY <2>1, <2>6, <2>7, TypesHeld, TypeKept DEF RelistNext
    <2> QED
      BY <1>1, <1>2, <1>3, <2>1, <2>3, <2>4, <2>6, <2>8 DEF JobStep, RelistNext, Concerns, Listing
  <1> QED
    BY <1>4, <1>5

LEMMA WarmUpReadsStep ==
    ASSUME IndexFits, NEW w \in Slots, WarmUpReads(w)
    PROVE  JobStep(w)
  <1>1. Active(w) /\ worker[w].step = "read"
    BY DEF WarmUpReads, InStep, Active
  <1>2. PICK j \in Jobs : j = worker[w] /\ JobFits(j) /\ j.step = "read"
    BY <1>1, AtWork
  <1>3. j.op = "warm" /\ j.on = 0 /\ j.of = Docs
    BY <1>2, TouchedBy DEF JobFits
  <1> DEFINE k == [j EXCEPT !.step = "fill", !.saw = embeddings]
  <1>4. worker' = [worker EXCEPT ![w] = k]
    BY <1>2 DEF WarmUpReads
  <1>5. k \in Jobs /\ k.op = j.op /\ k.on = j.on /\ k.of = j.of /\ k.alone = j.alone /\ k.step = "fill"
    BY TypesHeld DEF Jobs, Steps
  <1> HIDE DEF k
  <1>6. JobFits(k)
    BY <1>3, <1>5 DEF JobFits, StepsOf, Embedding, Rebuilds, Writes
  <1>7. worker \in [Slots -> Jobs \cup {AtRest}]
    BY DEF IndexFits
  <1>8. /\ worker' \in [Slots -> Jobs \cup {AtRest}]
        /\ \A v \in Slots \ {w} : worker'[v] = worker[v]
        /\ worker'[w] = k
    BY <1>4, <1>5, <1>7
  <1>9. IndexTypeOK'
    BY <1>8, TypesHeld, TypeKept DEF WarmUpReads
  <1> QED
    BY <1>1, <1>2, <1>5, <1>6, <1>8, <1>9 DEF JobStep, WarmUpReads

LEMMA WarmUpFillsStep ==
    ASSUME IndexFits, NEW w \in Slots, WarmUpFills(w)
    PROVE  JobStep(w)
  <1>1. Active(w) /\ worker[w].step = "fill"
    BY DEF WarmUpFills, InStep, Active
  <1>2. PICK j \in Jobs : j = worker[w] /\ JobFits(j) /\ j.step = "fill"
    BY <1>1, AtWork
  <1>3. j.op = "warm" /\ j.on = 0 /\ j.of = Docs /\ Touches(j) = {"found"} /\ j.saw \subseteq Vectors
    BY <1>2, TouchedBy, JobFields DEF JobFits
  <1>4. EndJob(w) /\ vectors' \subseteq Vectors
    BY <1>2, <1>3 DEF WarmUpFills, LoadAll
  <1>5. /\ worker' \in [Slots -> Jobs \cup {AtRest}]
        /\ \A v \in Slots \ {w} : worker'[v] = worker[v]
        /\ worker'[w] = AtRest
        /\ healed' \in [Docs -> SUBSET Parts]
    BY <1>1, <1>4, EndStep
  <1>6. IndexTypeOK'
    BY <1>4, <1>5, TypesHeld, TypeKept DEF WarmUpFills
  <1> QED
    BY <1>1, <1>2, <1>3, <1>4, <1>5, <1>6 DEF JobStep, WarmUpFills, Concerns

(* Every step of a job is one.                                               *)
JobMoves(w) ==
    \/ reindexByID(w) \/ Index(w) \/ Unindex(w)
    \/ DropRows(w) \/ DropVectors(w) \/ InsertRows(w) \/ Upsert(w) \/ StepFails(w)
    \/ LoadBatch(w) \/ PruneVectors(w) \/ pruneArticleEmbeddingRows(w)
    \/ CollectPage(w) \/ ClearIndex(w) \/ RelistNext(w)
    \/ WarmUpReads(w) \/ WarmUpFills(w)

LEMMA EveryJobStep ==
    ASSUME IndexFits, NEW w \in Slots, JobMoves(w)
    PROVE  JobStep(w)
  BY ReloadStep, IndexStep, UnindexStep, DropRowsStep, DropVectorsStep, InsertRowsStep,
     UpsertStep, StepFailsStep, LoadBatchStep, PruneVectorsStep, PruneRowsStep,
     CollectPageStep, ClearIndexStep, RelistNextStep, WarmUpReadsStep, WarmUpFillsStep
     DEF JobMoves

---------------------------------------------------------------------------------
(* What a step of one job means for the others.                              *)

LEMMA SameShape ==
    ASSUME NEW j, NEW k, k.op = j.op, k.on = j.on, k.of = j.of
    PROVE  /\ PartsOf(k) = PartsOf(j) /\ Touches(k) = Touches(j)
           /\ \A d : Concerns(k, d) <=> Concerns(j, d)
           /\ \A i : (Meets(i, k) <=> Meets(i, j)) /\ (Meets(k, i) <=> Meets(j, i))
  BY DEF PartsOf, Touches, Concerns, Meets

LEMMA TouchedArePartOf ==
    ASSUME NEW j, j.op \in Writes \cup Rebuilds
    PROVE  Touches(j) \subseteq PartsOf(j) /\ PartsOf(j) \subseteq Parts
  BY DEF Touches, PartsOf, Rebuilds, Parts, Listing

LEMMA RepairsTouch ==
    ASSUME NEW j, j.op \in Writes \cup Rebuilds, NEW d
    PROVE  Repairs(j, d) \subseteq Touches(j)
  BY DEF Repairs, Touches, PartsOf, Writes, Rebuilds, Parts, Listing

(* Two jobs that are on the same article and do not meet have no part in      *)
(* common.                                                                   *)
LEMMA DisjointParts ==
    ASSUME NEW j, NEW k, NEW d, Concerns(j, d), Concerns(k, d), ~ Meets(j, k)
    PROVE  PartsOf(j) \cap PartsOf(k) = {}
  BY DEF Concerns, Meets

LEMMA FitsKept ==
    ASSUME IndexFits, NEW w \in Slots, JobStep(w)
    PROVE  IndexFits'
  BY DEF IndexFits, JobStep, Active

LEMMA NoMeetingKept ==
    ASSUME IndexFits, NoMeeting, NEW w \in Slots, JobStep(w)
    PROVE  NoMeeting'
  <1> SUFFICES ASSUME NEW u \in Slots, NEW v \in Slots, u # v, Active(u)', Active(v)',
                      Meets(worker[u], worker[v])'
               PROVE  ~ worker'[u].alone
    BY DEF NoMeeting
  <1>1. /\ Active(u) /\ worker'[u].op = worker[u].op /\ worker'[u].on = worker[u].on
        /\ worker'[u].of = worker[u].of
        /\ worker'[u].alone => worker[u].alone
    BY DEF JobStep, Active
  <1>2. Active(v) /\ worker'[v].op = worker[v].op /\ worker'[v].on = worker[v].on /\ worker'[v].of = worker[v].of
    BY DEF JobStep, Active
  <1>3. Meets(worker'[u], worker'[v])
    OBVIOUS
  <1>4. Meets(worker[u], worker[v])
    BY <1>1, <1>2, <1>3, SameShape
  <1> QED
    BY <1>1, <1>2, <1>4 DEF NoMeeting

LEMMA HealedRestsKept ==
    ASSUME IndexFits, NoMeeting, HealedRests, NEW w \in Slots, JobStep(w)
    PROVE  HealedRests'
  <1> SUFFICES ASSUME NEW d \in Docs, NEW v \in Slots, Active(v)', Concerns(worker[v], d)'
               PROVE  healed'[d] \cap Touches(worker'[v]) = {}
    BY DEF HealedRests
  <1>1. /\ Active(v) /\ worker'[v].op = worker[v].op /\ worker'[v].on = worker[v].on
        /\ worker'[v].of = worker[v].of
    BY DEF JobStep, Active
  <1>2. Concerns(worker[v], d) /\ Touches(worker'[v]) = Touches(worker[v])
    BY <1>1, SameShape
  <1>3. healed[d] \cap Touches(worker[v]) = {}
    BY <1>1, <1>2 DEF HealedRests
  <1>4. CASE healed'[d] = healed[d]
    BY <1>2, <1>3, <1>4
  <1>5. CASE healed'[d] # healed[d]
    <2>1. worker'[w] = AtRest /\ EndJob(w)
      BY <1>5 DEF JobStep
    <2>2. v # w /\ Active(w)
      BY <2>1 DEF Active, JobStep
    <2>3. /\ worker[w].alone /\ Concerns(worker[w], d)
          /\ healed'[d] = healed[d] \cup Repairs(worker[w], d)
      BY <1>5, <2>1 DEF EndJob
    <2>4. ~ Meets(worker[w], worker[v])
      BY <1>1, <2>2, <2>3 DEF NoMeeting
    <2>5. PartsOf(worker[w]) \cap PartsOf(worker[v]) = {}
      BY <1>2, <2>3, <2>4, DisjointParts
    <2>6. worker[w].op \in Writes \cup Rebuilds /\ worker[v].op \in Writes \cup Rebuilds
      BY <1>1, <2>2, AtWork, JobFields
    <2>7. Repairs(worker[w], d) \subseteq PartsOf(worker[w])
      BY <2>6, RepairsTouch, TouchedArePartOf
    <2>8. Touches(worker[v]) \subseteq PartsOf(worker[v])
      BY <2>6, TouchedArePartOf
    <2> QED
      BY <1>2, <1>3, <2>3, <2>5, <2>7, <2>8
  <1> QED
    BY <1>4, <1>5

(* A job that touches what is listed of an article touches both sides of it.   *)
LEMMA ListingTouched ==
    ASSUME NEW j, j.op \in Writes \cup Rebuilds
    PROVE  "listed" \in Touches(j) <=> "omitted" \in Touches(j)
  BY DEF Touches, PartsOf, Writes, Rebuilds, Parts, Listing

(* A step of one job leaves alone what another that it does not meet is about. *)
LEMMA ApartKeeps ==
    ASSUME IndexFits, NEW w \in Slots, JobStep(w), NEW j \in Jobs, ~ Meets(j, worker[w]),
           NEW d \in j.of
    PROVE  /\ "listed" \in PartsOf(j) => documents'[d] = documents[d]
           /\ "stored" \in PartsOf(j) => TextsOf(embeddings', d) = TextsOf(embeddings, d)
           /\ "found" \in PartsOf(j)  => TextsOf(vectors', d) = TextsOf(vectors, d)
  <1>1. PICK k \in Jobs : k = worker[w]
    BY AtWork DEF JobStep
  <1>2. d \in Docs /\ Touches(k) \subseteq PartsOf(k)
    BY JobFields, TouchedArePartOf
  <1>3. CASE d \in k.of
    <2>1. PartsOf(j) \cap PartsOf(k) = {}
      BY <1>1, <1>3 DEF Meets
    <2> QED
      BY <1>1, <1>2, <2>1 DEF JobStep
  <1>4. CASE d \notin k.of
    BY <1>1, <1>2, <1>4 DEF JobStep, Concerns
  <1> QED
    BY <1>3, <1>4

LEMMA SameTexts ==
    ASSUME NEW V \in SUBSET Vectors, NEW W \in SUBSET Vectors,
           \A d \in Docs : TextsOf(V, d) = TextsOf(W, d)
    PROVE  V \subseteq W
  <1> SUFFICES ASSUME NEW v \in V
               PROVE  v \in W
    OBVIOUS
  <1>1. v \in Vectors /\ v.doc \in Docs
    BY DEF Vectors
  <1>2. v.text \in TextsOf(W, v.doc)
    <2>1. v.text \in TextsOf(V, v.doc)
      BY DEF TextsOf
    <2> QED
      BY <1>1, <2>1
  <1>3. PICK u \in W : u.doc = v.doc /\ u.text = v.text
    BY <1>2 DEF TextsOf
  <1>4. u = v
    BY <1>1, <1>3 DEF Vectors
  <1> QED
    BY <1>4

(* What a job has done stays done while what it reads and writes does.        *)
LEMMA RequestKept ==
    ASSUME NEW j, j.op \in Writes, j.on \in Docs, RequestOnTrack(j),
           piece'[j.on] = piece[j.on], documents'[j.on] = documents[j.on],
           TextsOf(embeddings', j.on) = TextsOf(embeddings, j.on),
           TextsOf(vectors', j.on) = TextsOf(vectors, j.on)
    PROVE  RequestOnTrack(j)'
  BY DEF RequestOnTrack, IsLive, CopyOf, Fresh, Published, ListAgrees, Agrees, Indexed

LEMMA RelistKept ==
    ASSUME NEW j, RelistOnTrack(j), piece' = piece,
           \A d \in Docs : documents'[d] = documents[d]
    PROVE  RelistOnTrack(j)'
  <1>1. Live' = Live /\ (\A d : CopyOf(d)' = CopyOf(d))
    BY DEF Live, IsLive, CopyOf
  <1> QED
    BY <1>1 DEF RelistOnTrack, CopiesOf

LEMMA ReindexKept ==
    ASSUME NEW j \in Jobs, ReindexOnTrack(j),
           \A d \in j.of : /\ piece'[d] = piece[d]
                           /\ TextsOf(embeddings', d) = TextsOf(embeddings, d)
                           /\ TextsOf(vectors', d) = TextsOf(vectors, d)
    PROVE  ReindexOnTrack(j)'
  <1>1. PICK S : S = Shown(j.of)
    OBVIOUS
  <1>2. S \subseteq j.of /\ j.of \subseteq Docs
    BY <1>1, JobFields DEF Shown
  <1>3. Shown(j.of)' = S
    BY <1>1 DEF Shown, Published, IsLive
  <1>4. \A d \in j.of : CopyOf(d)' = CopyOf(d)
    BY DEF CopyOf
  <1>5. \A d \in j.of : /\ Agrees(embeddings, d)' <=> Agrees(embeddings, d)
                        /\ Agrees(vectors, d)' <=> Agrees(vectors, d)
    BY DEF Agrees, Published, IsLive
  <1>6. j.step \in Embedding => j.copy.doc \in j.of
    <2>1. ASSUME j.step \in Embedding
          PROVE  \E d \in S : j.copy = CopyOf(d)
      BY <1>1, <2>1 DEF ReindexOnTrack
    <2>2. \A d : CopyOf(d).doc = d
      BY DEF CopyOf
    <2> QED
      BY <1>2, <2>1, <2>2
  <1>7. /\ CopiesOf(j.batch, S)'
        /\ j.step \in Embedding => \E d \in S : j.copy = CopyOf(d)'
        /\ j.step = "load" => j.batch = <<>>
        /\ j.step \in Embedding \cup {"load"} =>
              \A d \in S : Rank(S, d) <= j.offset =>
                 d \in j.keep \/ In(j.batch, CopyOf(d)') \/ Now(j, d)
        /\ j.step \in Embedding /\ ~ j.more => Cardinality(S) <= j.offset
        /\ j.step \in {"pruneVectors", "pruneRows"} => S \subseteq j.keep
        /\ j.keep \subseteq S
    BY <1>1, <1>2, <1>4 DEF ReindexOnTrack, CopiesOf
  <1>8. \A d \in j.keep : \/ Now(j, d)
                          \/ /\ Agrees(embeddings, d)'
                             /\ (j.step = "pruneRows" /\ d \in Pages) \/ Agrees(vectors, d)'
    BY <1>1, <1>2, <1>5 DEF ReindexOnTrack
  <1>9. /\ j.step = "dropVectors" => TextsOf(embeddings', j.copy.doc) = {}
        /\ j.step = "insert" => /\ TextsOf(embeddings', j.copy.doc) = {}
                                /\ TextsOf(vectors', j.copy.doc) = {}
        /\ j.step = "upsert" => Agrees(embeddings, j.copy.doc)'
        /\ j.step = "pruneRows" => \A d \in j.of \ Pages : Agrees(vectors, d)'
    BY <1>5, <1>6 DEF ReindexOnTrack, Embedding
  <1> QED
    BY <1>3, <1>7, <1>8, <1>9 DEF ReindexOnTrack

LEMMA WarmKept ==
    ASSUME NEW j, WarmOnTrack(j), embeddings' = embeddings
    PROVE  WarmOnTrack(j)'
  BY DEF WarmOnTrack

LEMMA OthersOnTrack ==
    ASSUME IndexInv, NEW w \in Slots, JobStep(w), NEW v \in Slots, v # w, Active(v)',
           worker'[v].alone
    PROVE  OnTrack(worker[v])'
  <1>1. PICK j \in Jobs : j = worker[v] /\ JobFits(j)
    BY AtWork DEF JobStep, Active, IndexInv
  <1>2. worker'[v] = j /\ Active(v) /\ j.alone
    BY <1>1 DEF JobStep, Active
  <1>3. PICK k \in Jobs : k = worker[w] /\ JobFits(k)
    BY AtWork DEF JobStep, IndexInv
  <1>4. OnTrack(j) /\ ~ Meets(j, k)
    BY <1>1, <1>2, <1>3 DEF IndexInv, NoMeeting, JobStep
  <1>5. /\ j.op \in Writes \cup Rebuilds /\ j.on \in Docs \cup {0}
        /\ k.op \in Writes \cup Rebuilds /\ k.on \in Docs \cup {0}
        /\ j.op \in Rebuilds <=> j.on = 0
        /\ k.op \in Rebuilds <=> k.on = 0
        /\ Touches(k) \subseteq PartsOf(k)
    BY <1>1, <1>3, JobFields, TouchedArePartOf DEF JobFits
  <1>8. \A d \in j.of :
           /\ "listed" \in PartsOf(j) => documents'[d] = documents[d]
           /\ "stored" \in PartsOf(j) => TextsOf(embeddings', d) = TextsOf(embeddings, d)
           /\ "found" \in PartsOf(j)  => TextsOf(vectors', d) = TextsOf(vectors, d)
    BY <1>3, <1>4, ApartKeeps DEF IndexInv
  <1>9. piece' = piece
    BY DEF JobStep
  <1>6. CASE j.op \in Writes
    <2>1. j.on \in Docs /\ j.of = {j.on}
      BY <1>1, <1>5, <1>6, DocAssumption DEF Writes, Rebuilds, JobFits
    <2>2. PartsOf(j) = Parts
      BY <1>6 DEF PartsOf, Writes, Rebuilds
    <2>3. RequestOnTrack(j)'
      BY <1>4, <1>6, <1>8, <1>9, <2>1, <2>2, RequestKept DEF OnTrack, Parts
    <2>4. j.op \notin Rebuilds
      BY <1>6 DEF Writes, Rebuilds
    <2> QED
      BY <1>2, <2>3, <2>4 DEF OnTrack, Rebuilds
  <1>7. CASE j.op \in Rebuilds
    <2>2. j.op \notin Writes
      BY <1>7 DEF Writes, Rebuilds
    <2>3. CASE j.op = "relist"
      <3>1. j.of = Docs /\ "listed" \in PartsOf(j)
        BY <1>1, <2>3 DEF JobFits, PartsOf, Listing
      <3>2. RelistOnTrack(j)'
        BY <1>4, <1>8, <1>9, <2>3, <3>1, RelistKept DEF OnTrack
      <3> QED
        BY <1>2, <2>2, <2>3, <3>2 DEF OnTrack
    <2>4. CASE j.op = "reindex"
      <3>1. "stored" \in PartsOf(j) /\ "found" \in PartsOf(j)
        BY <2>4 DEF PartsOf, Rebuilds, Parts, Listing
      <3>2. ReindexOnTrack(j)'
        BY <1>4, <1>8, <1>9, <2>4, <3>1, ReindexKept DEF OnTrack
      <3> QED
        BY <1>2, <2>2, <2>4, <3>2 DEF OnTrack
    <2>5. CASE j.op = "warm"
      <3>1. j.of = Docs /\ "stored" \in PartsOf(j)
        BY <1>1, <2>5 DEF JobFits, PartsOf, Rebuilds, Parts, Listing
      <3>2. embeddings \subseteq Vectors /\ embeddings' \subseteq Vectors
        BY DEF JobStep, IndexTypeOK, IndexInv, IndexFits
      <3>3. embeddings' = embeddings
        BY <1>8, <3>1, <3>2, SameTexts
      <3>4. WarmOnTrack(j)'
        BY <1>4, <2>5, <3>3, WarmKept DEF OnTrack
      <3> QED
        BY <1>2, <2>2, <2>5, <3>4 DEF OnTrack
    <2> QED
      BY <1>7, <2>3, <2>4, <2>5 DEF Rebuilds
  <1> QED
    BY <1>5, <1>6, <1>7

---------------------------------------------------------------------------------
(* What a step of a job means for the job itself, and for what is healed.     *)

JobHeals(w) ==
    \/ healed' = healed
    \/ /\ EndJob(w)
       /\ worker[w].alone => \A d \in Docs : Concerns(worker[w], d) =>
             /\ "listed" \in Repairs(worker[w], d) => ListAgrees(d)'
             /\ "stored" \in Repairs(worker[w], d) => Agrees(embeddings, d)'
             /\ "found" \in Repairs(worker[w], d)  => Agrees(vectors, d)'
             /\ "omitted" \in Repairs(worker[w], d) => documents'[d] = Unlisted

Tracks(w) ==
    /\ worker'[w] # AtRest /\ worker'[w].alone => OnTrack(worker[w])'
    /\ JobHeals(w)

LEMMA HealKept ==
    ASSUME IndexInv, NEW w \in Slots, JobStep(w), JobHeals(w)
    PROVE  IndexesHeal'
  <1> SUFFICES ASSUME NEW d \in Docs
               PROVE  /\ "listed" \in healed'[d] => ListAgrees(d)'
                      /\ "stored" \in healed'[d] => Agrees(embeddings, d)'
                      /\ "found" \in healed'[d]  => Agrees(vectors, d)'
                      /\ "omitted" \in healed'[d] => documents'[d] = Unlisted
    BY DEF IndexesHeal
  <1> DEFINE t == Touches(worker[w])
  <1>1. piece' = piece
    BY DEF JobStep
  <1>2. "listed" \in healed[d] \/ "omitted" \in healed[d] => documents'[d] = documents[d]
    <2>1. CASE Concerns(worker[w], d)
      <3>1. Active(w) /\ worker[w].op \in Writes \cup Rebuilds
        BY AtWork, JobFields DEF JobStep, IndexInv
      <3>2. "listed" \in Touches(worker[w]) <=> "omitted" \in Touches(worker[w])
        BY <3>1, ListingTouched
      <3>3. healed[d] \cap Touches(worker[w]) = {}
        BY <2>1, <3>1 DEF IndexInv, HealedRests
      <3> QED
        BY <3>2, <3>3 DEF JobStep
    <2>2. CASE ~ Concerns(worker[w], d)
      BY <2>2 DEF JobStep
    <2> QED
      BY <2>1, <2>2
  <1>3. "stored" \in healed[d] => TextsOf(embeddings', d) = TextsOf(embeddings, d)
    <2>1. CASE Concerns(worker[w], d)
      BY <2>1 DEF JobStep, IndexInv, HealedRests
    <2>2. CASE ~ Concerns(worker[w], d)
      BY <2>2 DEF JobStep
    <2> QED
      BY <2>1, <2>2
  <1>4. "found" \in healed[d] => TextsOf(vectors', d) = TextsOf(vectors, d)
    <2>1. CASE Concerns(worker[w], d)
      BY <2>1 DEF JobStep, IndexInv, HealedRests
    <2>2. CASE ~ Concerns(worker[w], d)
      BY <2>2 DEF JobStep
    <2> QED
      BY <2>1, <2>2
  <1>5. /\ "listed" \in healed[d] => ListAgrees(d)'
        /\ "stored" \in healed[d] => Agrees(embeddings, d)'
        /\ "found" \in healed[d]  => Agrees(vectors, d)'
        /\ "omitted" \in healed[d] => documents'[d] = Unlisted
    BY <1>1, <1>2, <1>3, <1>4
       DEF IndexInv, IndexesHeal, ListAgrees, Agrees, Published, IsLive, CopyOf
  <1>6. CASE healed' = healed
    BY <1>5, <1>6
  <1>7. CASE ~ healed' = healed
    <2>1. EndJob(w)
      BY <1>7 DEF JobHeals
    <2>2. CASE worker[w].alone /\ Concerns(worker[w], d)
      <3>1. healed'[d] = healed[d] \cup Repairs(worker[w], d)
        BY <2>1, <2>2 DEF EndJob
      <3>2. /\ "listed" \in Repairs(worker[w], d) => ListAgrees(d)'
            /\ "stored" \in Repairs(worker[w], d) => Agrees(embeddings, d)'
            /\ "found" \in Repairs(worker[w], d)  => Agrees(vectors, d)'
            /\ "omitted" \in Repairs(worker[w], d) => documents'[d] = Unlisted
        BY <1>7, <2>2 DEF JobHeals
      <3> QED
        BY <1>5, <3>1, <3>2
    <2>3. CASE ~ (worker[w].alone /\ Concerns(worker[w], d))
      <3>1. healed'[d] = healed[d]
        BY <2>1, <2>3 DEF EndJob
      <3> QED
        BY <1>5, <3>1
    <2> QED
      BY <2>2, <2>3
  <1> QED
    BY <1>6, <1>7

(* The job as it is and as it will be.                                       *)
LEMMA TwoViews ==
    ASSUME IndexInv, NEW w \in Slots, Active(w)
    PROVE  \E j \in Jobs : j = worker[w] /\ JobFits(j) /\ (j.alone => OnTrack(j))
  <1>1. PICK j \in Jobs : j = worker[w] /\ JobFits(j)
    BY AtWork DEF IndexInv
  <1> QED
    BY <1>1 DEF IndexInv

LEMMA WriteIsNoRebuild ==
    ASSUME NEW op \in Writes
    PROVE  op # "relist" /\ op # "reindex" /\ op # "warm" /\ op \notin Rebuilds
  BY DEF Writes, Rebuilds

LEMMA ReloadTracks ==
    ASSUME IndexInv, NEW w \in Slots, reindexByID(w)
    PROVE  Tracks(w)
  <1> USE DEF reindexByID
  <1>1. Active(w) /\ worker[w].step = "reload" /\ healed' = healed /\ piece' = piece
    BY DEF InStep, Active
  <1>2. PICK j \in Jobs : j = worker[w] /\ JobFits(j) /\ j.step = "reload"
    BY <1>1, TwoViews
  <1>3. j.op \in Writes /\ j.on \in Docs
    BY <1>2, TouchedBy
  <1>4. worker \in [Slots -> Jobs \cup {AtRest}]
    BY DEF IndexInv, IndexFits
  <1>5. ASSUME worker'[w] # AtRest
        PROVE  OnTrack(worker[w])'
    <2>1. IsLive(j.on)
      BY <1>2, <1>4, <1>5
    <2> DEFINE k == [j EXCEPT !.step = "list", !.copy = CopyOf(j.on)]
    <2>2. worker'[w] = k
      BY <1>2, <1>4, <2>1
    <2>3. k.step = "list" /\ k.copy = CopyOf(j.on) /\ k.on = j.on /\ k.of = j.of /\ k.op = j.op
      BY DEF Jobs
    <2> HIDE DEF k
    <2>4. PICK i : i = k
      OBVIOUS
    <2>5. RequestOnTrack(i)'
      BY <1>1, <2>1, <2>3, <2>4 DEF RequestOnTrack, IsLive, CopyOf, Embedding
    <2>6. worker'[w] = i /\ i.op \in Writes
      BY <1>3, <2>2, <2>3, <2>4
    <2> QED
      BY <2>5, <2>6, WriteIsNoRebuild DEF OnTrack
  <1> QED
    BY <1>1, <1>5 DEF Tracks, JobHeals

LEMMA IndexTracks ==
    ASSUME IndexInv, NEW w \in Slots, Index(w)
    PROVE  Tracks(w)
  <1> USE DEF Index
  <1>1. Active(w) /\ worker[w].step = "list" /\ healed' = healed /\ piece' = piece
    BY DEF InStep, Active
  <1>2. PICK j \in Jobs : j = worker[w] /\ JobFits(j) /\ j.step = "list" /\ (j.alone => OnTrack(j))
    BY <1>1, TwoViews
  <1>3. j.op \in Writes /\ j.on \in Docs
    BY <1>2, TouchedBy
  <1>4. PICK k : k = worker'[w]
    OBVIOUS
  <1>5. k.step = "dropRows" /\ k.op = j.op /\ k.on = j.on /\ k.of = j.of /\ k.copy = j.copy /\ k.alone = j.alone
    <2>1. Goto(w, "dropRows") /\ "dropRows" \in Steps /\ IndexFits
      BY DEF Steps, IndexInv
    <2> QED
      BY <1>1, <1>2, <1>4, <2>1, GotoStep
  <1>6. documents' = [documents EXCEPT ![j.on] = j.copy]
    BY <1>2
  <1>7. documents'[j.on] = j.copy
    BY <1>3, <1>6, TypesHeld DEF IndexInv
  <1>8. ASSUME k.alone
        PROVE  RequestOnTrack(k)'
    <2>1. IsLive(j.on) /\ j.copy = CopyOf(j.on)
      BY <1>2, <1>3, <1>5, <1>8 DEF OnTrack, RequestOnTrack
    <2>2. IsLive(j.on)' /\ (CopyOf(j.on)' = CopyOf(j.on)) /\ (Published(j.on)' <=> Published(j.on))
      BY <1>1, <2>1 DEF IsLive, CopyOf, Published
    <2>3. ListAgrees(j.on)'
      BY <1>7, <2>1, <2>2 DEF ListAgrees, CopyOf, Published
    <2>4. Fresh(j.copy, j.on)'
      BY <2>1, <2>2, <1>1 DEF Fresh, CopyOf, Indexed, Published
    <2> QED
      BY <1>5, <2>3, <2>4 DEF RequestOnTrack, Embedding
  <1>9. worker'[w] # AtRest /\ worker'[w].alone => OnTrack(worker[w])'
    BY <1>3, <1>4, <1>5, <1>8, WriteIsNoRebuild DEF OnTrack
  <1> QED
    BY <1>1, <1>9 DEF Tracks, JobHeals

LEMMA UnindexTracks ==
    ASSUME IndexInv, NEW w \in Slots, Unindex(w)
    PROVE  Tracks(w)
  <1> USE DEF Unindex
  <1>1. Active(w) /\ worker[w].step = "unlist" /\ healed' = healed /\ piece' = piece
    BY DEF InStep, Active
  <1>2. PICK j \in Jobs : j = worker[w] /\ JobFits(j) /\ j.step = "unlist" /\ (j.alone => OnTrack(j))
    BY <1>1, TwoViews
  <1>3. j.op \in Writes /\ j.on \in Docs
    BY <1>2, TouchedBy
  <1>4. PICK k : k = worker'[w]
    OBVIOUS
  <1>5. k.step = "dropRows" /\ k.op = j.op /\ k.on = j.on /\ k.of = j.of /\ k.copy = j.copy /\ k.alone = j.alone
    <2>1. Goto(w, "dropRows") /\ "dropRows" \in Steps /\ IndexFits
      BY DEF Steps, IndexInv
    <2> QED
      BY <1>1, <1>2, <1>4, <2>1, GotoStep
  <1>6. \/ j.op = "bulkRemove" /\ j.on \in Pages
        \/ documents'[j.on] = Unlisted
    BY <1>2, <1>3, TypesHeld DEF IndexInv
  <1>11. j.alone => ~ Published(j.on)
    BY <1>2, <1>3 DEF OnTrack, RequestOnTrack
  <1>8. ASSUME k.alone
        PROVE  RequestOnTrack(k)'
    <2>1. Fresh(j.copy, j.on)
      BY <1>2, <1>3, <1>5, <1>8 DEF OnTrack, RequestOnTrack
    <2>2. Fresh(j.copy, j.on)' /\ (Published(j.on)' <=> Published(j.on))
      BY <1>1, <2>1 DEF Fresh, Published, IsLive
    <2>3. (j.op = "bulkRemove" /\ j.on \in Pages) \/ ListAgrees(j.on)'
      BY <1>5, <1>6, <1>8, <1>11, <2>2 DEF ListAgrees
    <2> QED
      BY <1>5, <2>2, <2>3 DEF RequestOnTrack, Embedding
  <1>9. worker'[w] # AtRest /\ worker'[w].alone => OnTrack(worker[w])'
    BY <1>3, <1>4, <1>5, <1>8, WriteIsNoRebuild DEF OnTrack
  <1> QED
    BY <1>1, <1>9 DEF Tracks, JobHeals

(* What holds of the copy a job that nothing met is embedding.                *)
LEMMA EmbedNow ==
    ASSUME IndexInv, NEW w \in Slots, Active(w), worker[w].step \in Embedding, worker[w].alone
    PROVE  LET j == worker[w]
               d == j.copy.doc
           IN /\ d \in Docs /\ Fresh(j.copy, d)
              /\ j.op = "reindex" => Indexed(j.copy)
              /\ j.step \in {"dropVectors", "insert"} => TextsOf(embeddings, d) = {}
              /\ j.step = "insert" => Indexed(j.copy) /\ TextsOf(vectors, d) = {}
              /\ j.step = "upsert" => Indexed(j.copy) /\ Agrees(embeddings, d)
  <1>1. PICK j \in Jobs : j = worker[w] /\ JobFits(j) /\ j.step \in Embedding /\ OnTrack(j)
    BY TwoViews
  <1>2. CASE j.op \in Writes
    <2>1. RequestOnTrack(j) /\ j.copy.doc = j.on /\ j.on \in Docs /\ j.op # "reindex"
      BY <1>1, <1>2, TouchedBy, WriteIsNoRebuild DEF OnTrack
    <2> QED
      BY <1>1, <2>1 DEF RequestOnTrack
  <1>3. CASE j.op = "reindex"
    <2>1. ReindexOnTrack(j)
      BY <1>1, <1>3 DEF OnTrack
    <2>2. PICK d \in Shown(j.of) : j.copy = CopyOf(d)
      BY <1>1, <2>1 DEF ReindexOnTrack
    <2>3. d \in Docs /\ Published(d) /\ j.copy.doc = d /\ j.copy.status = piece[d].status
          /\ j.copy.text = piece[d].text
      BY <1>1, <2>2, JobFields DEF Shown, CopyOf
    <2>4. Indexed(j.copy) /\ Fresh(j.copy, d)
      BY <2>3 DEF Indexed, Fresh, Published
    <2> QED
      BY <1>1, <2>1, <2>3, <2>4 DEF ReindexOnTrack
  <1> QED
    BY <1>1, <1>2, <1>3, TouchedBy

(* The job goes on with the same copy.                                       *)
LEMMA EmbedTracks ==
    ASSUME IndexInv, NEW w \in Slots, Active(w), worker[w].step \in Embedding,
           NEW s \in Embedding, Goto(w, s),
           healed' = healed, piece' = piece, documents' = documents,
           \A d \in Docs \ {worker[w].copy.doc} :
              /\ TextsOf(embeddings', d) = TextsOf(embeddings, d)
              /\ TextsOf(vectors', d) = TextsOf(vectors, d),
           worker[w].alone =>
              /\ s \in {"dropVectors", "insert"} =>
                    TextsOf(embeddings', worker[w].copy.doc) = {}
              /\ s = "insert" =>
                    Indexed(worker[w].copy) /\ TextsOf(vectors', worker[w].copy.doc) = {}
              /\ s = "upsert" =>
                    /\ Indexed(worker[w].copy)
                    /\ TextsOf(embeddings', worker[w].copy.doc) = {piece[worker[w].copy.doc].text}
    PROVE  Tracks(w)
  <1>1. PICK j \in Jobs : j = worker[w] /\ JobFits(j) /\ j.step \in Embedding
                          /\ (j.alone => OnTrack(j))
    BY TwoViews
  <1>2. PICK k : k = worker'[w]
    OBVIOUS
  <1>3. /\ k \in Jobs /\ k.step = s /\ k.op = j.op /\ k.on = j.on /\ k.of = j.of /\ k.copy = j.copy
        /\ k.batch = j.batch /\ k.offset = j.offset /\ k.more = j.more /\ k.keep = j.keep
        /\ k.alone = j.alone
    BY <1>1, <1>2, EmbeddingMoves DEF IndexInv
  <1>4. SUFFICES ASSUME j.alone
                 PROVE  OnTrack(k)'
    BY <1>2, <1>3 DEF Tracks, JobHeals, OnTrack
  <1>5. /\ j.copy.doc \in Docs /\ Fresh(j.copy, j.copy.doc)
        /\ Fresh(j.copy, j.copy.doc)' /\ (Published(j.copy.doc)' <=> Published(j.copy.doc))
    <2>1. j.copy.doc \in Docs /\ Fresh(j.copy, j.copy.doc)
      BY <1>1, <1>4, EmbedNow
    <2> QED
      BY <2>1 DEF Fresh, Published, IsLive
  <1>6. s = "upsert" => Agrees(embeddings, j.copy.doc)'
    BY <1>1, <1>4, <1>5 DEF Agrees, Fresh
  <1>7. CASE j.op \in Writes
    <2>1. RequestOnTrack(j) /\ j.copy.doc = j.on /\ j.on \in Docs
      BY <1>1, <1>4, <1>7, TouchedBy, WriteIsNoRebuild DEF OnTrack
    <2>2. ListAgrees(j.on) => ListAgrees(j.on)'
      BY DEF ListAgrees, Published, IsLive, CopyOf
    <2>3. (j.op = "bulkRemove" /\ j.on \in Pages) \/ ListAgrees(j.on)'
      BY <1>1, <2>1, <2>2 DEF RequestOnTrack
    <2>4. /\ s \in {"dropVectors", "insert"} => TextsOf(embeddings', j.on) = {}
          /\ s = "insert" => Indexed(j.copy) /\ TextsOf(vectors', j.on) = {}
          /\ s = "upsert" => Indexed(j.copy)
      BY <1>1, <1>4, <2>1
    <2>5. RequestOnTrack(k)'
      <3>1. k.step \notin {"list", "unlist"}
        BY <1>3 DEF Embedding
      <3> QED
        BY <1>3, <1>5, <1>6, <2>1, <2>3, <2>4, <3>1 DEF RequestOnTrack
    <2> QED
      BY <1>3, <1>7, <2>5, WriteIsNoRebuild DEF OnTrack
  <1>8. CASE j.op = "reindex"
    <2>1. ReindexOnTrack(j)
      BY <1>1, <1>4, <1>8 DEF OnTrack
    <2>13. PICK S : S = Shown(j.of)
      OBVIOUS
    <2>2. /\ S = Shown(j.of) /\ S = Shown(k.of)' /\ S \subseteq Docs
          /\ \A d \in Docs : CopyOf(d)' = CopyOf(d)
      BY <1>3, <2>13, JobFields DEF Shown, Published, IsLive, CopyOf
    <2>3. CopiesOf(k.batch, S)'
      BY <1>3, <2>1, <2>2 DEF ReindexOnTrack, CopiesOf
    <2>4. \E d \in S : k.copy = CopyOf(d)'
      BY <1>1, <1>3, <2>1, <2>2 DEF ReindexOnTrack
    <2>5. \A d : Now(k, d) <=> Now(j, d)
      BY <1>1, <1>3 DEF Now
    <2>6. \A d \in S : Rank(S, d) <= k.offset =>
               d \in k.keep \/ In(k.batch, CopyOf(d)') \/ Now(k, d)
      BY <1>1, <1>3, <2>1, <2>2, <2>5 DEF ReindexOnTrack
    <2>7. ~ k.more => Cardinality(S) <= k.offset
      BY <1>1, <1>3, <2>1, <2>2 DEF ReindexOnTrack
    <2>8. k.keep \subseteq S
      BY <1>3, <2>1, <2>2 DEF ReindexOnTrack
    <2>9. ASSUME NEW d \in k.keep, ~ Now(k, d)
          PROVE  Agrees(embeddings, d)' /\ Agrees(vectors, d)'
      <3>1. Agrees(embeddings, d) /\ Agrees(vectors, d) /\ d \in Docs
        <4>1. j.step # "pruneRows"
          BY <1>1 DEF Embedding
        <4> QED
          BY <2>2, <1>3, <2>1, <2>5, <2>9, <4>1 DEF ReindexOnTrack
      <3>2. d # j.copy.doc
        BY <1>1, <2>5, <2>9 DEF Now
      <3>3. TextsOf(embeddings', d) = TextsOf(embeddings, d) /\ TextsOf(vectors', d) = TextsOf(vectors, d)
        BY <1>1, <3>1, <3>2
      <3> QED
        BY <3>1, <3>3 DEF Agrees, Published, IsLive
    <2>10. /\ s \in {"dropVectors", "insert"} => TextsOf(embeddings', j.copy.doc) = {}
           /\ s = "insert" => TextsOf(vectors', j.copy.doc) = {}
      BY <1>1, <1>4
    <2>11. k.step \notin {"load", "pruneVectors", "pruneRows"}
      BY <1>3 DEF Embedding
    <2>12. ReindexOnTrack(k)'
      BY <2>2, <1>3, <1>6, <2>3, <2>4, <2>6, <2>7, <2>8, <2>9, <2>10, <2>11 DEF ReindexOnTrack
    <2> QED
      BY <1>3, <1>8, <2>12, WriteIsNoRebuild DEF OnTrack
  <1> QED
    BY <1>1, <1>7, <1>8, TouchedBy

LEMMA DropRowsTracks ==
    ASSUME IndexInv, NEW w \in Slots, DropRows(w)
    PROVE  Tracks(w)
  <1>1. /\ Active(w) /\ worker[w].step \in Embedding /\ Goto(w, "dropVectors")
        /\ "dropVectors" \in Embedding /\ healed' = healed /\ piece' = piece
        /\ documents' = documents /\ vectors' = vectors
        /\ embeddings' = Without(embeddings, worker[w].copy.doc)
    BY DEF DropRows, InStep, Active, Embedding
  <1>2. /\ TextsOf(embeddings', worker[w].copy.doc) = {}
        /\ \A d : d # worker[w].copy.doc => TextsOf(embeddings', d) = TextsOf(embeddings, d)
    BY <1>1, TextsWithout
  <1> QED
    BY <1>1, <1>2, EmbedTracks

LEMMA OnlyRelistOmits ==
    ASSUME NEW j, j.op # "relist", NEW d
    PROVE  "omitted" \notin Repairs(j, d)
  BY DEF Repairs

LEMMA DropVectorsTracks ==
    ASSUME IndexInv, NEW w \in Slots, DropVectors(w)
    PROVE  Tracks(w)
  <1>1. /\ Active(w) /\ worker[w].step = "dropVectors" /\ worker[w].step \in Embedding
        /\ "insert" \in Embedding /\ piece' = piece
        /\ documents' = documents /\ embeddings' = embeddings
        /\ vectors' = Without(vectors, worker[w].copy.doc)
    BY DEF DropVectors, InStep, Active, Embedding
  <1>2. /\ TextsOf(vectors', worker[w].copy.doc) = {}
        /\ \A d : d # worker[w].copy.doc => TextsOf(vectors', d) = TextsOf(vectors, d)
    BY <1>1, TextsWithout
  <1>3. worker[w].alone => TextsOf(embeddings', worker[w].copy.doc) = {}
                           /\ Fresh(worker[w].copy, worker[w].copy.doc)
                           /\ (worker[w].op = "reindex" => Indexed(worker[w].copy))
    BY <1>1, EmbedNow
  <1>4. CASE Indexed(worker[w].copy)
    <2>1. Goto(w, "insert") /\ healed' = healed
      BY <1>4 DEF DropVectors
    <2> QED
      BY <1>1, <1>2, <1>3, <1>4, <2>1, EmbedTracks
  <1>5. CASE ~ Indexed(worker[w].copy)
    <2>1. EndJob(w) /\ worker'[w] = AtRest
      BY <1>1, <1>5, EndStep DEF DropVectors, IndexInv
    <2>2. SUFFICES ASSUME worker[w].alone, NEW d \in Docs, Concerns(worker[w], d)
                   PROVE  /\ "listed" \in Repairs(worker[w], d) => ListAgrees(d)'
                          /\ Agrees(embeddings, d)' /\ Agrees(vectors, d)'
      <3>1. worker[w].op # "relist"
        BY <1>1, TwoViews, TouchedBy, WriteIsNoRebuild
      <3> QED
        BY <2>1, <3>1, OnlyRelistOmits DEF Tracks, JobHeals
    <2>3. PICK j \in Jobs : j = worker[w] /\ JobFits(j) /\ j.step = "dropVectors" /\ OnTrack(j)
      BY <1>1, <2>2, TwoViews
    <2>4. j.op \in Writes /\ j.on = j.copy.doc /\ j.on = d
      BY <1>1, <1>3, <1>5, <2>2, <2>3, TouchedBy, DocAssumption DEF Concerns, JobFits
    <2>5. ~ Published(d)
      BY <1>3, <1>5, <2>2, <2>3, <2>4 DEF Fresh
    <2>6. ~ Published(d)'
      BY <1>1, <2>5 DEF Published, IsLive
    <2>7. (j.op = "bulkRemove" /\ d \in Pages) \/ ListAgrees(d)
      BY <1>1, <2>3, <2>4, WriteIsNoRebuild DEF OnTrack, RequestOnTrack
    <2>8. "listed" \in Repairs(j, d) => ~ (j.op = "bulkRemove" /\ d \in Pages)
      BY DEF Repairs
    <2>9. ListAgrees(d) => ListAgrees(d)'
      BY <1>1 DEF ListAgrees, Published, IsLive, CopyOf
    <2> QED
      BY <1>2, <1>3, <2>2, <2>3, <2>4, <2>6, <2>7, <2>8, <2>9 DEF Agrees
  <1> QED
    BY <1>4, <1>5

LEMMA InsertRowsTracks ==
    ASSUME IndexInv, NEW w \in Slots, InsertRows(w)
    PROVE  Tracks(w)
  <1>1. /\ Active(w) /\ worker[w].step = "insert" /\ worker[w].step \in Embedding
        /\ Goto(w, "upsert") /\ "upsert" \in Embedding /\ healed' = healed /\ piece' = piece
        /\ documents' = documents /\ vectors' = vectors
    BY DEF InsertRows, InStep, Active, Embedding
  <1>7. PICK d : d = worker[w].copy.doc
    OBVIOUS
  <1>8. PICK r : r = [doc |-> d, text |-> worker[w].copy.text]
    OBVIOUS
  <1>2. embeddings' = embeddings \cup {r} /\ r.doc = d /\ r.text = worker[w].copy.text
    BY <1>7, <1>8 DEF InsertRows
  <1>3. worker[w].alone =>
           /\ Indexed(worker[w].copy) /\ TextsOf(embeddings, d) = {}
           /\ worker[w].copy.text = piece[d].text
    BY <1>1, <1>7, EmbedNow DEF Fresh
  <1>4. TextsOf(embeddings', d) = TextsOf(embeddings, d) \cup {worker[w].copy.text}
    <2>1. TextsOf(embeddings \cup {r}, d) = TextsOf(embeddings, d) \cup {r.text}
      BY <1>2, TextsWith
    <2> QED
      BY <1>2, <2>1
  <1>5. \A e : e # d => TextsOf(embeddings', e) = TextsOf(embeddings, e)
    BY <1>2, TextsBeside
  <1>6. worker[w].alone => Indexed(worker[w].copy) /\ TextsOf(embeddings', d) = {piece[d].text}
    BY <1>3, <1>4
  <1> QED
    BY <1>1, <1>5, <1>6, <1>7, EmbedTracks

LEMMA StepFailsTracks ==
    ASSUME IndexInv, NEW w \in Slots, StepFails(w)
    PROVE  Tracks(w)
  <1>1. /\ healed' = healed /\ piece' = piece /\ documents' = documents
        /\ embeddings' = embeddings /\ vectors' = vectors
    BY StepFailsStep DEF StepFails, IndexInv
  <1>2. IndexFits /\ worker \in [Slots -> Jobs \cup {AtRest}]
    BY DEF IndexInv, IndexFits
  <1>3. CASE worker' = [worker EXCEPT ![w] = AtRest]
    BY <1>1, <1>2, <1>3 DEF Tracks, JobHeals
  <1>4. CASE Goto(w, "dropRows") /\ Active(w) /\ worker[w].step \in Embedding
    <2>1. "dropRows" \in Embedding
      BY DEF Embedding
    <2> QED
      BY <1>1, <1>4, <2>1, EmbedTracks
  <1>5. CASE NextCopy(w, {}) /\ worker[w].op = "reindex" /\ Active(w) /\ worker[w].step \in Embedding
    <2>1. PICK kept \in SUBSET Docs : kept = {}
      OBVIOUS
    <2>2. NextCopy(w, kept)
      BY <1>5, <2>1
    <2>3. ~ worker'[w].alone
      BY <1>2, <1>5, <2>1, <2>2, NextCopyStep
    <2> QED
      BY <1>1, <2>3 DEF Tracks, JobHeals
  <1> QED
    BY <1>3, <1>4, <1>5 DEF StepFails, InStep, Active, Embedding

(* The last step of embedding: both tables have the text of the copy, and a   *)
(* reindexing that has counted it turns to the next.                         *)
LEMMA UpsertTracks ==
    ASSUME IndexInv, NEW w \in Slots, Upsert(w)
    PROVE  Tracks(w)
  <1>1. /\ Active(w) /\ worker[w].step = "upsert" /\ worker[w].step \in Embedding
        /\ piece' = piece /\ documents' = documents /\ embeddings' = embeddings
    BY DEF Upsert, InStep, Active, Embedding
  <1>5. PICK j \in Jobs : j = worker[w] /\ JobFits(j) /\ j.step = "upsert" /\ (j.alone => OnTrack(j))
    BY <1>1, TwoViews
  <1>9. PICK d0 : d0 = j.copy.doc
    OBVIOUS
  <1>10. PICK r : r = [doc |-> d0, text |-> j.copy.text]
    OBVIOUS
  <1>2. vectors' = Without(vectors, d0) \cup {r} /\ r.doc = d0 /\ r.text = j.copy.text
    BY <1>5, <1>9, <1>10 DEF Upsert
  <1>3. TextsOf(vectors', d0) = {j.copy.text}
    <2>1. TextsOf(Without(vectors, d0), d0) = {}
      BY TextsWithout
    <2>2. TextsOf(Without(vectors, d0) \cup {r}, d0) = TextsOf(Without(vectors, d0), d0) \cup {r.text}
      BY <1>2, TextsWith
    <2> QED
      BY <1>2, <2>1, <2>2
  <1>4. ASSUME NEW e, e # d0
        PROVE  TextsOf(vectors', e) = TextsOf(vectors, e)
    <2>1. TextsOf(Without(vectors, d0), e) = TextsOf(vectors, e)
      BY <1>4, TextsWithout
    <2> QED
      BY <1>2, <1>4, <2>1, TextsBeside
  <1>6. ASSUME j.alone
        PROVE  /\ d0 \in Docs /\ Published(d0) /\ Agrees(embeddings, d0)
               /\ Agrees(embeddings, d0)' /\ Agrees(vectors, d0)'
    <2>1. d0 \in Docs /\ Fresh(j.copy, d0) /\ Indexed(j.copy) /\ Agrees(embeddings, d0)
      BY <1>1, <1>5, <1>6, <1>9, EmbedNow
    <2>2. Published(d0) /\ j.copy.text = piece[d0].text
      BY <2>1 DEF Fresh
    <2> QED
      BY <1>1, <1>3, <2>1, <2>2, <1>5 DEF Agrees, Published, IsLive
  <1>7. CASE j.op \in Writes
    <2>1. j.on = j.copy.doc /\ j.on \in Docs /\ j.op # "reindex"
      BY <1>1, <1>5, <1>7, TouchedBy, WriteIsNoRebuild
    <2>2. EndJob(w) /\ worker'[w] = AtRest
      BY <1>1, <1>5, <2>1, EndStep DEF Upsert, IndexInv
    <2>3. SUFFICES ASSUME j.alone, NEW d \in Docs, Concerns(j, d)
                   PROVE  /\ "listed" \in Repairs(j, d) => ListAgrees(d)'
                          /\ Agrees(embeddings, d)' /\ Agrees(vectors, d)'
      BY <1>5, <1>7, <2>2, OnlyRelistOmits, WriteIsNoRebuild DEF Tracks, JobHeals
    <2>4. d = d0
      BY <1>5, <1>7, <1>9, <2>1, <2>3 DEF Concerns, JobFits
    <2>5. (j.op = "bulkRemove" /\ d \in Pages) \/ ListAgrees(d)
      BY <1>1, <1>5, <1>7, <1>9, <2>1, <2>3, <2>4, WriteIsNoRebuild DEF OnTrack, RequestOnTrack
    <2>6. "listed" \in Repairs(j, d) => ~ (j.op = "bulkRemove" /\ d \in Pages)
      BY DEF Repairs
    <2>7. ListAgrees(d) => ListAgrees(d)'
      BY <1>1 DEF ListAgrees, Published, IsLive, CopyOf
    <2> QED
      BY <1>6, <2>3, <2>4, <2>5, <2>6, <2>7
  <1>8. CASE j.op = "reindex"
    <2>1. j.copy.doc \in Docs
      BY <1>1, <1>5, TouchedBy DEF Copies
    <2>2. PICK kept \in SUBSET Docs : kept = {j.copy.doc}
      BY <2>1
    <2>3. NextCopy(w, kept)
      BY <1>5, <1>8, <2>2 DEF Upsert
    <2>4. PICK k : k = worker'[w]
      OBVIOUS
    <2>5. /\ k \in Jobs /\ healed' = healed
          /\ k.op = "reindex" /\ k.of = j.of /\ k.offset = j.offset /\ k.more = j.more
          /\ k.keep = j.keep \cup {j.copy.doc} /\ (k.alone => j.alone)
          /\ Len(j.batch) = 0 => k.batch = <<>> /\ k.step = IF j.more THEN "load" ELSE "pruneVectors"
          /\ Len(j.batch) > 0 => k.copy = Head(j.batch) /\ k.batch = Tail(j.batch) /\ k.step = "dropRows"
      BY <1>1, <1>5, <1>8, <2>2, <2>3, <2>4, NextCopyStep DEF IndexInv
    <2>6. SUFFICES ASSUME j.alone
                   PROVE  ReindexOnTrack(k)'
      BY <2>4, <2>5, WriteIsNoRebuild DEF Tracks, JobHeals, OnTrack
    <2>7. ReindexOnTrack(j) /\ j.batch \in Seq(Copies) /\ j.more \in BOOLEAN /\ j.offset \in Nat
      BY <1>5, <1>8, <2>6, JobFields DEF OnTrack
    <2>17. PICK S : S = Shown(j.of)
      OBVIOUS
    <2>8. /\ S = Shown(j.of) /\ S = Shown(k.of)' /\ S \subseteq Docs
          /\ \A d \in Docs : CopyOf(d)' = CopyOf(d)
      BY <1>1, <2>5, <2>17, JobFields DEF Shown, Published, IsLive, CopyOf
    <2>9. PICK dn \in S : j.copy = CopyOf(dn)
      BY <2>8, <1>1, <1>5, <2>7 DEF ReindexOnTrack
    <2>10. dn = j.copy.doc /\ dn = d0 /\ dn \in Docs
      BY <1>5, <1>9, <2>8, <2>9 DEF CopyOf
    <2>11. \A d \in S : Rank(S, d) <= j.offset =>
              d \in k.keep \/ In(j.batch, CopyOf(d))
      BY <2>8, <1>1, <1>5, <2>5, <2>7 DEF ReindexOnTrack, Now
    <2>12. k.keep \subseteq S
      BY <2>8, <2>5, <2>7, <2>9, <2>10 DEF ReindexOnTrack
    <2>13. ASSUME NEW d \in k.keep
           PROVE  Agrees(embeddings, d)' /\ Agrees(vectors, d)'
      <3>1. CASE d = dn
        BY <1>6, <2>6, <2>10, <3>1
      <3>2. CASE d # dn
        <4>1. d \in j.keep /\ ~ Now(j, d) /\ j.step # "pruneRows" /\ d \in Docs
          BY <1>5, <2>5, <2>10, <2>8, <2>12, <3>2 DEF Now
        <4>2. Agrees(embeddings, d) /\ Agrees(vectors, d)
          BY <2>8, <2>7, <4>1 DEF ReindexOnTrack
        <4>3. TextsOf(vectors', d) = TextsOf(vectors, d)
          BY <1>4, <2>10, <3>2
        <4> QED
          BY <1>1, <4>1, <4>2, <4>3 DEF Agrees, Published, IsLive
      <3> QED
        BY <3>1, <3>2
    <2>14. CopiesOf(j.batch, S) /\ Len(j.batch) \in Nat
      BY <2>8, <2>7 DEF ReindexOnTrack
    <2>15. CASE Len(j.batch) = 0
      <3>1. k.batch = <<>> /\ k.step \in {"load", "pruneVectors"} /\ (j.more <=> k.step = "load")
        BY <2>5, <2>7, <2>15
      <3>2. \A d \in S : ~ In(j.batch, CopyOf(d))
        BY <2>15 DEF In
      <3>3. \A d \in S : Rank(S, d) <= j.offset => d \in k.keep
        BY <2>11, <3>2
      <3>4. k.step = "pruneVectors" => S \subseteq k.keep
        <4> SUFFICES ASSUME k.step = "pruneVectors", NEW d \in S
                     PROVE  d \in k.keep
          OBVIOUS
        <4>1. Cardinality(S) <= j.offset
          BY <2>8, <1>1, <1>5, <2>7, <3>1 DEF ReindexOnTrack
        <4>2. Rank(S, d) \in 1 .. Cardinality(S) /\ Cardinality(S) \in Nat
          BY <2>8, RankRange
        <4> QED
          BY <2>7, <3>3, <4>1, <4>2
      <3>5. CopiesOf(k.batch, S)'
        BY <3>1 DEF CopiesOf
      <3>6. k.step \notin Embedding /\ k.step # "pruneRows"
        BY <3>1 DEF Embedding
      <3>7. \A d \in S : Rank(S, d) <= k.offset => d \in k.keep
        BY <2>5, <2>8, <3>3
      <3>8. (k.step = "pruneVectors" => S \subseteq k.keep) /\ k.keep \subseteq S
        BY <2>8, <2>12, <3>4
      <3> QED
        BY <2>8, <2>13, <3>1, <3>5, <3>6, <3>7, <3>8 DEF ReindexOnTrack, Embedding
    <2>16. CASE Len(j.batch) > 0
      <3>1. k.copy = Head(j.batch) /\ k.batch = Tail(j.batch) /\ k.step = "dropRows"
        BY <2>5, <2>16
      <3>2. /\ Len(k.batch) = Len(j.batch) - 1 /\ k.copy = j.batch[1]
            /\ \A n \in 1 .. Len(k.batch) : k.batch[n] = j.batch[n + 1]
        BY <2>7, <2>16, <3>1
      <3>3. CopiesOf(k.batch, S)
        BY <2>14, <3>2 DEF CopiesOf
      <3>4. \E d \in S : k.copy = CopyOf(d)
        BY <2>14, <2>16, <3>2 DEF CopiesOf
      <3>5. \A d \in S : In(j.batch, CopyOf(d)) => In(k.batch, CopyOf(d)) \/ k.copy = CopyOf(d)
        <4> SUFFICES ASSUME NEW d \in S, NEW n \in 1 .. Len(j.batch), j.batch[n] = CopyOf(d)
                     PROVE  In(k.batch, CopyOf(d)) \/ k.copy = CopyOf(d)
          BY DEF In
        <4>1. CASE n = 1
          BY <3>2, <4>1
        <4>2. CASE n # 1
          <5>1. n - 1 \in 1 .. Len(k.batch) /\ k.batch[n - 1] = j.batch[n]
            BY <2>14, <3>2, <4>2
          <5> QED
            BY <5>1 DEF In
        <4> QED
          BY <4>1, <4>2
      <3>6. k.step \in Embedding
        BY <3>1 DEF Embedding
      <3>7. \A d \in S : k.copy = CopyOf(d) => Now(k, d)
        BY <3>6 DEF Now, CopyOf
      <3>8. \A d \in S : Rank(S, d) <= k.offset =>
               d \in k.keep \/ In(k.batch, CopyOf(d)) \/ Now(k, d)
        BY <2>5, <2>11, <3>5, <3>7
      <3>9. ~ k.more => Cardinality(S) <= k.offset
        BY <2>8, <1>1, <1>5, <2>5, <2>7 DEF ReindexOnTrack
      <3>10. CopiesOf(k.batch, S)' /\ \E d \in S : k.copy = CopyOf(d)'
        BY <2>8, <3>3, <3>4 DEF CopiesOf
      <3>11. \A d \in S : Rank(S, d) <= k.offset =>
               d \in k.keep \/ In(k.batch, CopyOf(d)') \/ Now(k, d)
        BY <2>8, <3>8
      <3> QED
        BY <2>8, <2>12, <2>13, <3>1, <3>9, <3>10, <3>11 DEF ReindexOnTrack
    <2> QED
      BY <2>14, <2>15, <2>16
  <1> QED
    BY <1>1, <1>5, <1>7, <1>8, TouchedBy

(* A page of the reindexing: with its copies, everything up to its end is      *)
(* counted or still to come.                                                 *)
LEMMA LoadBatchTracks ==
    ASSUME IndexInv, NEW w \in Slots, LoadBatch(w)
    PROVE  Tracks(w)
  <1>1. /\ Active(w) /\ worker[w].step = "load" /\ healed' = healed /\ piece' = piece
        /\ documents' = documents /\ embeddings' = embeddings /\ vectors' = vectors
    BY DEF LoadBatch, InStep, Active
  <1>2. PICK j \in Jobs : j = worker[w] /\ JobFits(j) /\ j.step = "load" /\ (j.alone => OnTrack(j))
    BY <1>1, TwoViews
  <1>3. j.op = "reindex" /\ j.offset \in Nat /\ BatchSize \in Nat
    BY <1>2, TouchedBy, JobFields, IndexBounds
  <1>20. PICK S : S = Shown(j.of)
    OBVIOUS
  <1>4. PICK page : page = PageOf(S, j.offset)
    OBVIOUS
  <1>5. S \in SUBSET Docs /\ piece \in [Docs -> Rows]
    BY <1>20, TypesHeld, JobFields DEF Shown, IndexInv
  <1>6. /\ page \in Seq(Copies) /\ CopiesOf(page, S)
        /\ \A d \in S : j.offset < Rank(S, d) /\ Rank(S, d) <= j.offset + BatchSize =>
              In(page, CopyOf(d))
        /\ Len(page) <= BatchSize
        /\ Len(page) < BatchSize => Cardinality(S) <= j.offset + BatchSize
        /\ page = <<>> => Cardinality(S) <= j.offset
    BY <1>3, <1>4, <1>5, PageHolds
  <1>7. PICK k : k = worker'[w]
    OBVIOUS
  <1>8. worker \in [Slots -> Jobs \cup {AtRest}]
    BY DEF IndexInv, IndexFits
  <1>9. /\ page = <<>> => k = [j EXCEPT !.step = "pruneVectors"]
        /\ page # <<>> => k = [j EXCEPT !.step = "dropRows", !.copy = Head(page), !.batch = Tail(page),
                                        !.offset = j.offset + BatchSize,
                                        !.more = (Len(page) = BatchSize)]
    BY <1>2, <1>4, <1>7, <1>8, <1>20 DEF LoadBatch, Shown
  <1>10. /\ k.op = "reindex" /\ k.of = j.of /\ k.alone = j.alone /\ k.keep = j.keep
         /\ page = <<>> => k.step = "pruneVectors" /\ k.batch = j.batch
         /\ page # <<>> => /\ k.step = "dropRows" /\ k.copy = Head(page) /\ k.batch = Tail(page)
                           /\ k.offset = j.offset + BatchSize /\ k.more = (Len(page) = BatchSize)
    <2>1. CASE page = <<>>
      BY <1>3, <1>9, <2>1 DEF Jobs
    <2>2. CASE page # <<>>
      BY <1>3, <1>9, <2>2 DEF Jobs
    <2> QED
      BY <2>1, <2>2
  <1>11. SUFFICES ASSUME j.alone
                  PROVE  ReindexOnTrack(k)'
    BY <1>1, <1>7, <1>10, WriteIsNoRebuild DEF Tracks, JobHeals, OnTrack
  <1>12. ReindexOnTrack(j)
    BY <1>2, <1>3, <1>11 DEF OnTrack
  <1>13. /\ S = Shown(j.of) /\ S = Shown(k.of)'
         /\ \A d \in Docs : CopyOf(d)' = CopyOf(d)
    BY <1>1, <1>10, <1>20 DEF Shown, Published, IsLive, CopyOf
  <1>14. j.batch = <<>> /\ k.keep \subseteq S /\ j.step \notin Embedding
    BY <1>13, <1>2, <1>10, <1>12 DEF ReindexOnTrack, Embedding
  <1>15. \A d \in S : Rank(S, d) <= j.offset => d \in k.keep
    BY <1>13, <1>2, <1>10, <1>12, <1>14 DEF ReindexOnTrack, Now, In
  <1>16. \A d \in k.keep : Agrees(embeddings, d)' /\ Agrees(vectors, d)'
    <2> SUFFICES ASSUME NEW d \in k.keep
                 PROVE  Agrees(embeddings, d)' /\ Agrees(vectors, d)'
      OBVIOUS
    <2>1. Agrees(embeddings, d) /\ Agrees(vectors, d)
      BY <1>13, <1>2, <1>10, <1>12, <1>14 DEF ReindexOnTrack, Now
    <2> QED
      BY <1>1, <2>1 DEF Agrees, Published, IsLive
  <1>17. \A d \in S : Rank(S, d) \in Nat /\ Rank(S, d) <= Cardinality(S)
                          /\ Cardinality(S) \in Nat
    BY <1>5, RankRange
  <1>18. CASE page = <<>>
    <2>1. k.step = "pruneVectors" /\ k.batch = <<>>
      BY <1>10, <1>14, <1>18
    <2>2. S \subseteq k.keep
      BY <1>3, <1>6, <1>15, <1>17, <1>18
    <2>3. k.step \notin Embedding
      BY <2>1 DEF Embedding
    <2>4. CopiesOf(k.batch, S)'
      BY <2>1 DEF CopiesOf
    <2>5. S \subseteq k.keep /\ k.keep \subseteq S
      BY <1>13, <1>14, <2>2
    <2> QED
      BY <1>13, <1>16, <2>1, <2>3, <2>4, <2>5 DEF ReindexOnTrack, Embedding
  <1>19. CASE page # <<>>
    <2>1. /\ k.step = "dropRows" /\ k.copy = Head(page) /\ k.batch = Tail(page)
          /\ k.offset = j.offset + BatchSize /\ k.more = (Len(page) = BatchSize)
      BY <1>10, <1>19
    <2>2. /\ Len(page) \in Nat /\ Len(page) > 0 /\ Len(k.batch) = Len(page) - 1 /\ k.copy = page[1]
          /\ \A n \in 1 .. Len(k.batch) : k.batch[n] = page[n + 1]
      BY <1>6, <1>19, <2>1
    <2>3. CopiesOf(k.batch, S)
      BY <1>6, <2>2 DEF CopiesOf
    <2>4. \E d \in S : k.copy = CopyOf(d)
      BY <1>6, <2>2 DEF CopiesOf
    <2>5. \A d \in S : In(page, CopyOf(d)) => In(k.batch, CopyOf(d)) \/ k.copy = CopyOf(d)
      <3> SUFFICES ASSUME NEW d \in S, NEW n \in 1 .. Len(page), page[n] = CopyOf(d)
                   PROVE  In(k.batch, CopyOf(d)) \/ k.copy = CopyOf(d)
        BY DEF In
      <3>1. CASE n = 1
        BY <2>2, <3>1
      <3>2. CASE n # 1
        <4>1. n - 1 \in 1 .. Len(k.batch) /\ k.batch[n - 1] = page[n]
          BY <2>2, <3>2
        <4> QED
          BY <4>1 DEF In
      <3> QED
        BY <3>1, <3>2
    <2>6. \A d \in S : k.copy = CopyOf(d) => Now(k, d)
      BY <2>1 DEF Now, CopyOf, Embedding
    <2>7. \A d \in S : Rank(S, d) <= k.offset =>
             d \in k.keep \/ In(k.batch, CopyOf(d)) \/ Now(k, d)
      BY <1>3, <1>6, <1>15, <1>17, <2>1, <2>5, <2>6
    <2>8. ~ k.more => Cardinality(S) <= k.offset
      <3> SUFFICES ASSUME ~ k.more
                   PROVE  Cardinality(S) <= k.offset
        OBVIOUS
      <3>1. Len(page) # BatchSize
        BY <2>1
      <3>2. Len(page) < BatchSize
        BY <1>3, <1>6, <2>2, <3>1
      <3> QED
        BY <1>6, <2>1, <3>2
    <2>9. CopiesOf(k.batch, S)' /\ \E d \in S : k.copy = CopyOf(d)'
      BY <1>5, <1>13, <2>3, <2>4 DEF CopiesOf
    <2>10. \A d \in S : Rank(S, d) <= k.offset =>
              d \in k.keep \/ In(k.batch, CopyOf(d)') \/ Now(k, d)
      BY <1>5, <1>13, <2>7
    <2>11. (~ k.more => Cardinality(S) <= k.offset) /\ k.keep \subseteq S
      BY <1>13, <1>14, <2>8
    <2> QED
      BY <1>13, <1>16, <2>1, <2>9, <2>10, <2>11 DEF ReindexOnTrack
  <1> QED
    BY <1>18, <1>19

LEMMA PruneVectorsTracks ==
    ASSUME IndexInv, NEW w \in Slots, PruneVectors(w)
    PROVE  Tracks(w)
  <1>1. /\ Active(w) /\ worker[w].step = "pruneVectors" /\ healed' = healed /\ piece' = piece
        /\ documents' = documents /\ embeddings' = embeddings
    BY DEF PruneVectors, InStep, Active
  <1>2. PICK j \in Jobs : j = worker[w] /\ JobFits(j) /\ j.step = "pruneVectors" /\ (j.alone => OnTrack(j))
    BY <1>1, TwoViews
  <1>3. j.op = "reindex" /\ j.keep \subseteq Docs
    BY <1>2, TouchedBy, JobFields
  <1>4. PICK k : k = worker'[w]
    OBVIOUS
  <1>5. /\ k.op = "reindex"
        /\ k.of = j.of /\ k.step = "pruneRows" /\ k.alone = j.alone /\ k.keep = j.keep
        /\ k.batch = j.batch
    <2>1. Goto(w, "pruneRows") /\ "pruneRows" \in Steps /\ IndexFits
      BY DEF Steps, IndexInv, PruneVectors
    <2> QED
      BY <1>1, <1>2, <1>3, <1>4, <2>1, GotoStep
  <1>6. PICK posts : posts = j.keep \ Pages
    OBVIOUS
  <1>7. vectors' = {v \in vectors : v.doc \notin j.of \/ v.doc \in posts}
    BY <1>2, <1>6 DEF PruneVectors, Prune
  <1>8. \A e : TextsOf(vectors', e) = IF e \notin j.of \/ e \in posts THEN TextsOf(vectors, e) ELSE {}
    BY <1>7 DEF TextsOf
  <1>9. SUFFICES ASSUME j.alone
                 PROVE  ReindexOnTrack(k)'
    BY <1>1, <1>4, <1>5, WriteIsNoRebuild DEF Tracks, JobHeals, OnTrack
  <1>10. ReindexOnTrack(j)
    BY <1>2, <1>3, <1>9 DEF OnTrack
  <1>18. PICK S : S = Shown(j.of)
    OBVIOUS
  <1>11. /\ S = Shown(j.of) /\ S = Shown(k.of)' /\ S \subseteq j.of /\ j.of \subseteq Docs
         /\ \A d \in Docs : CopyOf(d)' = CopyOf(d)
    BY <1>1, <1>5, <1>18, JobFields DEF Shown, Published, IsLive, CopyOf
  <1>12. /\ S \subseteq k.keep /\ k.keep \subseteq S
         /\ \A d \in k.keep : Agrees(embeddings, d) /\ Agrees(vectors, d)
    BY <1>11, <1>2, <1>5, <1>10 DEF ReindexOnTrack, Now, Embedding
  <1>13. CopiesOf(k.batch, S)'
    BY <1>5, <1>10, <1>11 DEF ReindexOnTrack, CopiesOf
  <1>14. \A d \in k.keep : Agrees(embeddings, d)'
    BY <1>1, <1>12 DEF Agrees, Published, IsLive
  <1>15. ASSUME NEW d \in j.of \ Pages
         PROVE  Agrees(vectors, d)'
    <2>1. CASE d \in posts
      BY <1>1, <1>5, <1>6, <1>8, <1>12, <2>1 DEF Agrees, Published, IsLive
    <2>2. CASE d \notin posts
      <3>1. ~ Published(d)
        BY <1>5, <1>6, <1>11, <1>12, <2>2 DEF Shown
      <3>2. ~ Published(d)'
        BY <1>1, <3>1 DEF Published, IsLive
      <3> QED
        BY <1>8, <2>2, <3>2 DEF Agrees
    <2> QED
      BY <2>1, <2>2
  <1>16. \A d \in k.keep : d \in Pages \/ Agrees(vectors, d)'
    BY <1>3, <1>5, <1>11, <1>12, <1>15
  <1>17. S \subseteq k.keep /\ k.keep \subseteq S
    BY <1>11, <1>12
  <1> QED
    BY <1>11, <1>5, <1>13, <1>14, <1>15, <1>16, <1>17 DEF ReindexOnTrack, Embedding

LEMMA PruneRowsTracks ==
    ASSUME IndexInv, NEW w \in Slots, pruneArticleEmbeddingRows(w)
    PROVE  Tracks(w)
  <1>1. /\ Active(w) /\ worker[w].step = "pruneRows" /\ piece' = piece /\ EndJob(w)
        /\ documents' = documents /\ vectors' = vectors
    BY DEF pruneArticleEmbeddingRows, InStep, Active
  <1>2. PICK j \in Jobs : j = worker[w] /\ JobFits(j) /\ j.step = "pruneRows" /\ (j.alone => OnTrack(j))
    BY <1>1, TwoViews
  <1>3. j.op = "reindex"
    BY <1>2, TouchedBy
  <1>4. worker'[w] = AtRest
    BY <1>1, EndStep DEF IndexInv
  <1>5. PICK alive : alive = Pages \cup j.keep
    OBVIOUS
  <1>6. embeddings' = {v \in embeddings : v.doc \notin j.of \/ v.doc \in alive}
    BY <1>2, <1>5 DEF pruneArticleEmbeddingRows
  <1>7. \A e : TextsOf(embeddings', e) = IF e \notin j.of \/ e \in alive THEN TextsOf(embeddings, e) ELSE {}
    BY <1>6 DEF TextsOf
  <1>8. SUFFICES ASSUME j.alone, NEW d \in Docs, d \in j.of, d \notin Pages
                 PROVE  Agrees(embeddings, d)' /\ Agrees(vectors, d)'
    <2>1. \A d : /\ "listed" \notin Repairs(j, d)
                 /\ d \in Pages => "stored" \notin Repairs(j, d) /\ "found" \notin Repairs(j, d)
      BY <1>3 DEF Repairs
    <2> QED
      BY <1>1, <1>2, <1>3, <1>4, <2>1, OnlyRelistOmits DEF Tracks, JobHeals, Concerns
  <1>9. /\ Shown(j.of) \subseteq j.keep
        /\ \A e \in j.keep : Agrees(embeddings, e)
        /\ Agrees(vectors, d)
    BY <1>2, <1>3, <1>8 DEF OnTrack, ReindexOnTrack, Now, Embedding
  <1>10. Agrees(vectors, d)'
    BY <1>1, <1>9 DEF Agrees, Published, IsLive
  <1>11. CASE d \in j.keep
    BY <1>1, <1>5, <1>7, <1>9, <1>10, <1>11 DEF Agrees, Published, IsLive
  <1>12. CASE d \notin j.keep
    <2>1. ~ Published(d)
      BY <1>8, <1>9, <1>12 DEF Shown
    <2>2. ~ Published(d)'
      BY <1>1, <2>1 DEF Published, IsLive
    <2> QED
      BY <1>5, <1>7, <1>8, <1>10, <1>12, <2>2 DEF Agrees
  <1> QED
    BY <1>11, <1>12

LEMMA CollectPageTracks ==
    ASSUME IndexInv, NEW w \in Slots, CollectPage(w)
    PROVE  Tracks(w)
  <1>1. /\ Active(w) /\ worker[w].step = "collect" /\ healed' = healed /\ piece' = piece
        /\ documents' = documents
    BY DEF CollectPage, InStep, Active
  <1>2. PICK j \in Jobs : j = worker[w] /\ JobFits(j) /\ j.step = "collect" /\ (j.alone => OnTrack(j))
    BY <1>1, TwoViews
  <1>3. j.op = "relist" /\ j.offset \in Nat /\ BatchSize \in Nat /\ j.batch \in Seq(Copies)
    BY <1>2, TouchedBy, JobFields, IndexBounds
  <1>4. PICK page : page = PageOf(Live, j.offset)
    OBVIOUS
  <1>5. Live \in SUBSET Docs /\ piece \in [Docs -> Rows]
    BY TypesHeld, TenantAssumption DEF Live, IndexInv
  <1>6. /\ page \in Seq(Copies) /\ CopiesOf(page, Live)
        /\ \A d \in Live : j.offset < Rank(Live, d) /\ Rank(Live, d) <= j.offset + BatchSize =>
              In(page, CopyOf(d))
        /\ Len(page) < BatchSize => Cardinality(Live) <= j.offset + BatchSize
    BY <1>3, <1>4, <1>5, PageHolds
  <1>7. PICK k : k = worker'[w]
    OBVIOUS
  <1>8. worker \in [Slots -> Jobs \cup {AtRest}]
    BY DEF IndexInv, IndexFits
  <1>9. k = [j EXCEPT !.batch = j.batch \o page, !.offset = j.offset + BatchSize,
                      !.step = IF Len(page) < BatchSize THEN "clear" ELSE "collect"]
    BY <1>2, <1>4, <1>7, <1>8 DEF CollectPage, Live
  <1>10. /\ k.op = "relist" /\ k.alone = j.alone /\ k.batch = j.batch \o page
         /\ k.offset = j.offset + BatchSize
         /\ k.step = IF Len(page) < BatchSize THEN "clear" ELSE "collect"
    BY <1>3, <1>9 DEF Jobs
  <1>11. SUFFICES ASSUME j.alone
                  PROVE  RelistOnTrack(k)'
    BY <1>1, <1>7, <1>10, WriteIsNoRebuild DEF Tracks, JobHeals, OnTrack
  <1>12. RelistOnTrack(j)
    BY <1>2, <1>3, <1>11 DEF OnTrack
  <1>13. /\ Live' = Live
         /\ \A d \in Docs : CopyOf(d)' = CopyOf(d)
    BY <1>1 DEF Live, IsLive, CopyOf
  <1>14. /\ Len(k.batch) = Len(j.batch) + Len(page) /\ Len(j.batch) \in Nat /\ Len(page) \in Nat
         /\ \A n \in 1 .. Len(k.batch) : k.batch[n] = IF n <= Len(j.batch) THEN j.batch[n]
                                                      ELSE page[n - Len(j.batch)]
    BY <1>3, <1>6, <1>10
  <1>15. ASSUME NEW n \in 1 .. Len(k.batch)
         PROVE  \E d \in Live : k.batch[n] = CopyOf(d)
    <2>1. CASE n <= Len(j.batch)
      BY <1>12, <1>14, <2>1 DEF RelistOnTrack, CopiesOf
    <2>2. CASE ~ n <= Len(j.batch)
      <3>1. n - Len(j.batch) \in 1 .. Len(page) /\ k.batch[n] = page[n - Len(j.batch)]
        BY <1>14, <2>2
      <3> QED
        BY <1>6, <3>1 DEF CopiesOf
    <2> QED
      BY <2>1, <2>2
  <1>24. \A n \in 1 .. Len(j.batch) : n \in 1 .. Len(k.batch) /\ k.batch[n] = j.batch[n]
    BY <1>14
  <1>25. \A n \in 1 .. Len(page) :
            /\ n + Len(j.batch) \in 1 .. Len(k.batch)
            /\ k.batch[n + Len(j.batch)] = page[n]
    <2> SUFFICES ASSUME NEW n \in 1 .. Len(page)
                 PROVE  /\ n + Len(j.batch) \in 1 .. Len(k.batch)
                        /\ k.batch[n + Len(j.batch)] = page[n]
      OBVIOUS
    <2> DEFINE m == n + Len(j.batch)
    <2>1. m \in 1 .. Len(k.batch) /\ ~ m <= Len(j.batch) /\ m - Len(j.batch) = n
      BY <1>14
    <2> HIDE DEF m
    <2>2. k.batch[m] = page[m - Len(j.batch)]
      BY <1>14, <2>1
    <2> QED
      BY <2>1, <2>2 DEF m
  <1>16. ASSUME NEW copy, In(j.batch, copy) \/ In(page, copy)
         PROVE  In(k.batch, copy)
    <2>1. CASE In(j.batch, copy)
      BY <1>24, <2>1 DEF In
    <2>2. CASE In(page, copy)
      <3>1. PICK n \in 1 .. Len(page) : page[n] = copy
        BY <2>2 DEF In
      <3>2. n + Len(j.batch) \in 1 .. Len(k.batch) /\ k.batch[n + Len(j.batch)] = page[n]
        BY <1>25, <3>1
      <3> QED
        BY <3>1, <3>2 DEF In
    <2> QED
      BY <1>16, <2>1, <2>2
  <1>17. \A d \in Live : Rank(Live, d) \in Nat /\ Rank(Live, d) <= Cardinality(Live)
                         /\ Cardinality(Live) \in Nat
    BY <1>5, RankRange
  <1>18. \A d \in Live : Rank(Live, d) <= k.offset => In(k.batch, CopyOf(d))
    <2> SUFFICES ASSUME NEW d \in Live, Rank(Live, d) <= k.offset
                 PROVE  In(k.batch, CopyOf(d))
      OBVIOUS
    <2>1. CASE Rank(Live, d) <= j.offset
      BY <1>2, <1>12, <1>16, <2>1 DEF RelistOnTrack
    <2>2. CASE ~ Rank(Live, d) <= j.offset
      <3>1. j.offset < Rank(Live, d) /\ Rank(Live, d) <= j.offset + BatchSize
        BY <1>3, <1>10, <1>17, <2>2
      <3> QED
        BY <1>6, <1>16, <3>1
    <2> QED
      BY <2>1, <2>2
  <1>19. k.step = "clear" => \A d \in Live : In(k.batch, CopyOf(d))
    <2> SUFFICES ASSUME k.step = "clear", NEW d \in Live
                 PROVE  In(k.batch, CopyOf(d))
      OBVIOUS
    <2>1. Cardinality(Live) <= j.offset + BatchSize
      BY <1>6, <1>10
    <2>2. Rank(Live, d) <= k.offset
      BY <1>3, <1>10, <1>17, <2>1
    <2> QED
      BY <1>18, <2>2
  <1>20. CopiesOf(k.batch, Live)'
    BY <1>5, <1>13, <1>15 DEF CopiesOf
  <1>21. \A d \in Live' : Rank(Live', d) <= k.offset => In(k.batch, CopyOf(d)')
    BY <1>5, <1>13, <1>18
  <1>22. k.step = "clear" => \A d \in Live' : In(k.batch, CopyOf(d)')
    BY <1>5, <1>13, <1>19
  <1>23. k.step # "relist"
    BY <1>10
  <1> QED
    BY <1>20, <1>21, <1>22, <1>23 DEF RelistOnTrack

LEMMA ClearIndexTracks ==
    ASSUME IndexInv, NEW w \in Slots, ClearIndex(w)
    PROVE  Tracks(w)
  <1>1. /\ Active(w) /\ worker[w].step = "clear" /\ healed' = healed /\ piece' = piece
        /\ documents' = [d \in Docs |-> Unlisted]
    BY DEF ClearIndex, InStep, Active
  <1>2. PICK j \in Jobs : j = worker[w] /\ JobFits(j) /\ j.step = "clear" /\ (j.alone => OnTrack(j))
    BY <1>1, TwoViews
  <1>3. j.op = "relist"
    BY <1>2, TouchedBy
  <1>4. PICK k : k = worker'[w]
    OBVIOUS
  <1>5. k.op = "relist" /\ k.step = "relist" /\ k.alone = j.alone /\ k.batch = j.batch
    <2>1. Goto(w, "relist") /\ "relist" \in Steps /\ IndexFits
      BY DEF Steps, IndexInv, ClearIndex
    <2> QED
      BY <1>1, <1>2, <1>3, <1>4, <2>1, GotoStep
  <1>6. SUFFICES ASSUME j.alone
                 PROVE  RelistOnTrack(k)'
    BY <1>1, <1>4, <1>5, WriteIsNoRebuild DEF Tracks, JobHeals, OnTrack
  <1>7. RelistOnTrack(j)
    BY <1>2, <1>3, <1>6 DEF OnTrack
  <1>8. Live' = Live /\ Live \subseteq Docs
        /\ \A d \in Docs : CopyOf(d)' = CopyOf(d)
    BY <1>1, TenantAssumption DEF Live, IsLive, CopyOf
  <1>9. CopiesOf(k.batch, Live)'
    BY <1>5, <1>7, <1>8 DEF RelistOnTrack, CopiesOf
  <1>10. \A d \in Docs : documents'[d] = Unlisted /\ (d \in Live' => In(k.batch, CopyOf(d)'))
    <2> SUFFICES ASSUME NEW d \in Docs
                 PROVE  documents'[d] = Unlisted /\ (d \in Live' => In(k.batch, CopyOf(d)'))
      OBVIOUS
    <2>1. d \in Live => In(k.batch, CopyOf(d))
      BY <1>2, <1>5, <1>7 DEF RelistOnTrack
    <2> QED
      BY <1>1, <1>8, <2>1
  <1> QED
    BY <1>5, <1>9, <1>10 DEF RelistOnTrack

LEMMA RelistNextTracks ==
    ASSUME IndexInv, NEW w \in Slots, RelistNext(w)
    PROVE  Tracks(w)
  <1>1. Active(w) /\ worker[w].step = "relist" /\ piece' = piece
    BY DEF RelistNext, InStep, Active
  <1>2. PICK j \in Jobs : j = worker[w] /\ JobFits(j) /\ j.step = "relist" /\ (j.alone => OnTrack(j))
    BY <1>1, TwoViews
  <1>3. j.op = "relist" /\ j.batch \in Seq(Copies)
    BY <1>2, TouchedBy, JobFields
  <1>4. Live' = Live /\ Live \subseteq Docs
        /\ \A d \in Docs : CopyOf(d)' = CopyOf(d)
    BY <1>1, TenantAssumption DEF Live, IsLive, CopyOf
  <1>5. j.alone => /\ CopiesOf(j.batch, Live)
                   /\ \A d \in Docs :
                         \/ documents[d] = Unlisted /\ (d \in Live => In(j.batch, CopyOf(d)))
                         \/ d \in Live /\ documents[d] = CopyOf(d)
    BY <1>2, <1>3 DEF OnTrack, RelistOnTrack
  <1>6. CASE j.batch = <<>>
    <2>1. EndJob(w) /\ documents' = documents
      BY <1>2, <1>6 DEF RelistNext
    <2>2. worker'[w] = AtRest
      BY <1>1, <2>1, EndStep DEF IndexInv
    <2>3. SUFFICES ASSUME j.alone, NEW d \in Docs
                   PROVE  /\ d \in DefaultTenant => ListAgrees(d)'
                          /\ d \notin DefaultTenant => documents'[d] = Unlisted
      <3>1. \A e : Repairs(j, e) = IF e \in DefaultTenant THEN {"listed"} ELSE {"omitted"}
        BY <1>3 DEF Repairs
      <3> QED
        BY <1>2, <2>1, <2>2, <3>1 DEF Tracks, JobHeals
    <2>4. ~ In(j.batch, CopyOf(d))
      BY <1>6 DEF In
    <2>5. \/ documents[d] = Unlisted /\ d \notin Live
          \/ d \in Live /\ documents[d] = CopyOf(d)
      BY <1>5, <2>3, <2>4
    <2>6. d \in DefaultTenant => ListAgrees(d)
      BY <2>5 DEF ListAgrees, Published, IsLive, CopyOf, Live
    <2>7. d \in DefaultTenant => ListAgrees(d)'
      BY <1>1, <2>1, <2>6 DEF ListAgrees, Published, IsLive, CopyOf
    <2>8. d \notin DefaultTenant => documents'[d] = Unlisted
      BY <2>1, <2>5 DEF Live
    <2> QED
      BY <2>7, <2>8
  <1>7. CASE j.batch # <<>>
    <2>1. PICK first : first = Head(j.batch)
      OBVIOUS
    <2>2. PICK k : k = worker'[w]
      OBVIOUS
    <2>3. worker \in [Slots -> Jobs \cup {AtRest}]
      BY DEF IndexInv, IndexFits
    <2>4. /\ documents' = [documents EXCEPT ![first.doc] = first] /\ healed' = healed
          /\ k = [j EXCEPT !.batch = Tail(j.batch)]
      BY <1>2, <1>7, <2>1, <2>2, <2>3 DEF RelistNext
    <2>5. k.op = "relist" /\ k.step = "relist" /\ k.alone = j.alone /\ k.batch = Tail(j.batch)
      BY <1>2, <1>3, <2>4 DEF Jobs
    <2>6. SUFFICES ASSUME j.alone
                   PROVE  RelistOnTrack(k)'
      BY <2>2, <2>4, <2>5, WriteIsNoRebuild DEF Tracks, JobHeals, OnTrack
    <2>7. /\ Len(j.batch) \in Nat /\ Len(j.batch) > 0 /\ Len(k.batch) = Len(j.batch) - 1
          /\ first = j.batch[1]
          /\ \A n \in 1 .. Len(k.batch) : k.batch[n] = j.batch[n + 1]
      BY <1>3, <1>7, <2>1, <2>5
    <2>8. CopiesOf(k.batch, Live)
      BY <1>5, <2>6, <2>7 DEF CopiesOf
    <2>9. PICK e \in Live : first = CopyOf(e)
      BY <1>5, <2>6, <2>7 DEF CopiesOf
    <2>10. e \in Docs /\ e \in Live /\ first.doc = e
      BY <1>4, <2>9 DEF CopyOf
    <2>11. documents'[e] = CopyOf(e) /\ \A d \in Docs : d # e => documents'[d] = documents[d]
      BY <2>4, <2>9, <2>10, TypesHeld DEF IndexInv
    <2>12. ASSUME NEW d \in Docs, d # e, In(j.batch, CopyOf(d))
           PROVE  In(k.batch, CopyOf(d))
      <3>1. PICK n \in 1 .. Len(j.batch) : j.batch[n] = CopyOf(d)
        BY <2>12 DEF In
      <3>4. CopyOf(d).doc = d /\ CopyOf(e).doc = e
        BY DEF CopyOf
      <3>2. n # 1
        BY <2>7, <2>9, <2>12, <3>1, <3>4
      <3>3. n - 1 \in 1 .. Len(k.batch) /\ k.batch[n - 1] = j.batch[n]
        BY <2>7, <3>2
      <3> QED
        BY <3>1, <3>3 DEF In
    <2>13. \A d \in Docs :
              \/ documents'[d] = Unlisted /\ (d \in Live' => In(k.batch, CopyOf(d)'))
              \/ d \in Live' /\ documents'[d] = CopyOf(d)'
      BY <1>4, <1>5, <2>6, <2>10, <2>11, <2>12
    <2>14. CopiesOf(k.batch, Live)'
      BY <1>4, <2>8 DEF CopiesOf
    <2> QED
      BY <2>5, <2>13, <2>14 DEF RelistOnTrack
  <1> QED
    BY <1>6, <1>7

LEMMA WarmUpReadsTracks ==
    ASSUME IndexInv, NEW w \in Slots, WarmUpReads(w)
    PROVE  Tracks(w)
  <1>1. Active(w) /\ worker[w].step = "read" /\ healed' = healed /\ embeddings' = embeddings
    BY DEF WarmUpReads, InStep, Active
  <1>2. PICK j \in Jobs : j = worker[w] /\ JobFits(j) /\ j.step = "read"
    BY <1>1, TwoViews
  <1>3. j.op = "warm"
    BY <1>2, TouchedBy
  <1>4. PICK k : k = worker'[w]
    OBVIOUS
  <1>5. worker \in [Slots -> Jobs \cup {AtRest}]
    BY DEF IndexInv, IndexFits
  <1>6. k = [j EXCEPT !.step = "fill", !.saw = embeddings]
    BY <1>2, <1>4, <1>5 DEF WarmUpReads
  <1>7. k.op = "warm" /\ k.saw = embeddings
    BY <1>3, <1>6 DEF Jobs
  <1>8. WarmOnTrack(k)'
    BY <1>1, <1>7 DEF WarmOnTrack
  <1> QED
    BY <1>1, <1>4, <1>7, <1>8, WriteIsNoRebuild DEF Tracks, JobHeals, OnTrack

LEMMA WarmUpFillsTracks ==
    ASSUME IndexInv, NEW w \in Slots, WarmUpFills(w)
    PROVE  Tracks(w)
  <1>1. /\ Active(w) /\ worker[w].step = "fill" /\ piece' = piece /\ EndJob(w)
        /\ embeddings' = embeddings
    BY DEF WarmUpFills, InStep, Active
  <1>2. PICK j \in Jobs : j = worker[w] /\ JobFits(j) /\ j.step = "fill" /\ (j.alone => OnTrack(j))
    BY <1>1, TwoViews
  <1>3. j.op = "warm"
    BY <1>2, TouchedBy
  <1>4. worker'[w] = AtRest
    BY <1>1, EndStep DEF IndexInv
  <1>5. SUFFICES ASSUME j.alone, NEW d \in Docs, "stored" \in healed[d]
                 PROVE  Agrees(vectors, d)'
    <2>1. \A d : Repairs(j, d) = IF "stored" \in healed[d] THEN {"found"} ELSE {}
      BY <1>3 DEF Repairs
    <2> QED
      BY <1>1, <1>2, <1>3, <1>4, <2>1, OnlyRelistOmits DEF Tracks, JobHeals
  <1>6. j.saw = embeddings
    BY <1>2, <1>3, <1>5 DEF OnTrack, WarmOnTrack
  <1>7. vectors' = embeddings
    BY <1>2, <1>6 DEF WarmUpFills, LoadAll
  <1>8. Agrees(embeddings, d)
    BY <1>5 DEF IndexInv, IndexesHeal
  <1> QED
    BY <1>1, <1>7, <1>8 DEF Agrees, Published, IsLive

LEMMA EveryJobTracks ==
    ASSUME IndexInv, NEW w \in Slots, JobMoves(w)
    PROVE  Tracks(w)
  BY ReloadTracks, IndexTracks, UnindexTracks, DropRowsTracks, DropVectorsTracks,
     InsertRowsTracks, UpsertTracks, StepFailsTracks, LoadBatchTracks, PruneVectorsTracks,
     PruneRowsTracks, CollectPageTracks, ClearIndexTracks, RelistNextTracks,
     WarmUpReadsTracks, WarmUpFillsTracks
     DEF JobMoves

LEMMA JobKeeps ==
    ASSUME IndexInv, NEW w \in Slots, JobMoves(w)
    PROVE  IndexInv'
  <1>1. JobStep(w) /\ Tracks(w)
    BY EveryJobStep, EveryJobTracks DEF IndexInv
  <1>2. IndexFits' /\ NoMeeting' /\ HealedRests'
    BY <1>1, FitsKept, NoMeetingKept, HealedRestsKept DEF IndexInv
  <1>3. IndexesHeal'
    BY <1>1, HealKept DEF Tracks
  <1>4. ASSUME NEW v \in Slots, Active(v)', worker'[v].alone
        PROVE  OnTrack(worker[v])'
    <2>1. CASE v = w
      BY <1>1, <1>4, <2>1 DEF Tracks, Active
    <2>2. CASE v # w
      BY <1>1, <1>4, <2>2, OthersOnTrack
    <2> QED
      BY <2>1, <2>2
  <1> QED
    BY <1>2, <1>3, <1>4 DEF IndexInv

---------------------------------------------------------------------------------
(* What begins: a request, a rebuilding, a sweep; what all of them disturb.    *)

LEMMA MeetsBoth ==
    ASSUME NEW j, NEW k
    PROVE  Meets(j, k) <=> Meets(k, j)
  BY DEF Meets, Concerns

(* Whether nothing met a job says nothing of what it has done.                *)
LEMMA AloneApart ==
    ASSUME NEW j \in Jobs, NEW a \in BOOLEAN
    PROVE  LET k == [j EXCEPT !.alone = a] IN
           /\ k \in Jobs /\ k.alone = a /\ k.op = j.op /\ k.on = j.on /\ k.of = j.of
           /\ JobFits(j) => JobFits(k)
           /\ OnTrack(j)' => OnTrack(k)'
  <1>1. PICK k : k = [j EXCEPT !.alone = a]
    OBVIOUS
  <1>2. /\ k \in Jobs /\ k.alone = a /\ k.op = j.op /\ k.on = j.on /\ k.of = j.of /\ k.step = j.step
        /\ k.copy = j.copy /\ k.batch = j.batch /\ k.offset = j.offset /\ k.more = j.more
        /\ k.keep = j.keep /\ k.saw = j.saw
    BY <1>1 DEF Jobs
  <1>3. JobFits(j) => JobFits(k)
    BY <1>2 DEF JobFits
  <1>4. RequestOnTrack(j)' => RequestOnTrack(k)'
    BY <1>2 DEF RequestOnTrack
  <1>5. RelistOnTrack(j)' => RelistOnTrack(k)'
    BY <1>2 DEF RelistOnTrack
  <1>6. ReindexOnTrack(j)' => ReindexOnTrack(k)'
    BY <1>2 DEF ReindexOnTrack, Now
  <1>7. WarmOnTrack(j)' => WarmOnTrack(k)'
    BY <1>2 DEF WarmOnTrack
  <1>8. OnTrack(j)' => OnTrack(k)'
    BY <1>2, <1>4, <1>5, <1>6, <1>7 DEF OnTrack
  <1> QED
    BY <1>1, <1>2, <1>3, <1>8

(* The rows that a job may have changed before it begins.                     *)
Begins(job) ==
    /\ job \in Jobs /\ JobFits(job)
    /\ documents' = documents /\ embeddings' = embeddings /\ vectors' = vectors
    /\ piece' \in [Docs -> Rows]
    /\ \A d \in Docs : ~ Concerns(job, d) => piece'[d] = piece[d]
    /\ job.op \in Rebuilds => piece' = piece
    /\ healed' = Unhealed(job)
    /\ ops < MaxOps /\ ops' = ops + 1 /\ breaks' = breaks /\ restarts' = restarts

Disturbs(job, v) ==
    worker'[v] = IF Active(v) /\ Meets(worker[v], job)
                 THEN [worker[v] EXCEPT !.alone = FALSE] ELSE worker[v]

LEMMA Disturbed ==
    ASSUME IndexInv, NEW job, Begins(job), NEW v \in Slots, Disturbs(job, v)
    PROVE  /\ worker'[v] \in Jobs \cup {AtRest}
           /\ Active(v)' <=> Active(v)
           /\ Active(v) => /\ worker'[v].op = worker[v].op /\ worker'[v].on = worker[v].on
                           /\ worker'[v].of = worker[v].of
                           /\ JobFits(worker'[v])
                           /\ worker'[v].alone => worker[v].alone /\ ~ Meets(worker[v], job)
                                                  /\ OnTrack(worker[v])'
  <1>1. CASE ~ Active(v)
    BY <1>1 DEF Disturbs, IndexInv, IndexFits, Active
  <1>2. CASE Active(v)
    <2>1. PICK j \in Jobs : j = worker[v] /\ JobFits(j) /\ (j.alone => OnTrack(j))
      BY <1>2, TwoViews
    <2>2. CASE Meets(j, job)
      <3>1. worker'[v] = [j EXCEPT !.alone = FALSE]
        BY <1>2, <2>1, <2>2 DEF Disturbs
      <3>2. PICK k : k = [j EXCEPT !.alone = FALSE]
        OBVIOUS
      <3>3. k \in Jobs /\ k.alone = FALSE /\ k.op = j.op /\ k.on = j.on /\ k.of = j.of /\ JobFits(k)
        BY <2>1, <3>2, AloneApart
      <3>4. k # AtRest
        BY <3>3, JobFields
      <3> QED
        BY <1>2, <2>1, <3>1, <3>2, <3>3, <3>4 DEF Active
    <2>3. CASE ~ Meets(j, job)
      <3>1. worker'[v] = j
        BY <1>2, <2>1, <2>3 DEF Disturbs
      <3>2. j.op \in Writes \cup Rebuilds /\ job.op \in Writes \cup Rebuilds
            /\ j.on \in Docs \cup {0} /\ job.on \in Docs \cup {0}
            /\ (j.op \in Rebuilds <=> j.on = 0)
        BY <2>1, JobFields DEF Begins, JobFits
      <3>3. j.alone => OnTrack(j)'
        <4> SUFFICES ASSUME j.alone
                     PROVE  OnTrack(j)'
          OBVIOUS
        <4>1. CASE job.op \in Rebuilds
          <5>1. piece' = piece /\ documents' = documents /\ embeddings' = embeddings
                /\ vectors' = vectors
            BY <4>1 DEF Begins
          <5>2. j.op \in Writes => RequestOnTrack(j)'
            <6> SUFFICES ASSUME j.op \in Writes
                         PROVE  RequestOnTrack(j)'
              OBVIOUS
            <6>1. RequestOnTrack(j) /\ j.on \in Docs
              BY <2>1, <3>2, WriteIsNoRebuild DEF OnTrack
            <6> QED
              BY <5>1, <6>1, RequestKept
          <5>3. j.op = "relist" => RelistOnTrack(j)'
            BY <2>1, <5>1, RelistKept DEF OnTrack
          <5>4. j.op = "reindex" => ReindexOnTrack(j)'
            BY <2>1, <5>1, ReindexKept DEF OnTrack
          <5>5. j.op = "warm" => WarmOnTrack(j)'
            BY <2>1, <5>1, WarmKept DEF OnTrack
          <5> QED
            BY <5>2, <5>3, <5>4, <5>5 DEF OnTrack
        <4>2. CASE job.op \in Writes
          <5>1. PartsOf(job) = Parts /\ PartsOf(j) \cap Parts # {}
            BY <4>2 DEF PartsOf, Writes, Rebuilds, Parts, Listing
          <5>2. job.of = {job.on} /\ job.on \in Docs /\ j.of \cap job.of = {}
            <6>1. job.on \in Docs
              BY <3>2, <4>2, WriteIsNoRebuild DEF Begins, JobFits
            <6> QED
              BY <2>3, <4>2, <5>1, <6>1 DEF Meets, Begins, JobFits
          <5>3. \A d \in j.of : piece'[d] = piece[d]
            BY <2>1, <5>2, JobFields DEF Begins, Concerns
          <5>4. documents' = documents /\ embeddings' = embeddings /\ vectors' = vectors
            BY DEF Begins
          <5>5. CASE j.op \in Writes
            <6>1. RequestOnTrack(j) /\ j.on \in Docs /\ j.on \in j.of
              BY <2>1, <3>2, <5>5, WriteIsNoRebuild DEF OnTrack, JobFits
            <6>2. RequestOnTrack(j)'
              BY <5>3, <5>4, <5>5, <6>1, RequestKept
            <6> QED
              BY <5>5, <6>2, WriteIsNoRebuild DEF OnTrack
          <5>6. CASE j.op = "reindex"
            <6>1. ReindexOnTrack(j)'
              BY <2>1, <5>3, <5>4, <5>6, ReindexKept DEF OnTrack
            <6> QED
              BY <5>6, <6>1, WriteIsNoRebuild DEF OnTrack
          <5>7. CASE j.op \in {"relist", "warm"}
            BY <2>1, <5>2, <5>7 DEF JobFits
          <5> QED
            BY <3>2, <5>5, <5>6, <5>7 DEF Rebuilds
        <4> QED
          BY <3>2, <4>1, <4>2
      <3> QED
        BY <1>2, <2>1, <2>3, <3>1, <3>3 DEF Active
    <2> QED
      BY <2>1, <2>2, <2>3
  <1> QED
    BY <1>1, <1>2

(* What is healed is healed less, and what is left is so.                     *)
LEMMA UnhealedKept ==
    ASSUME IndexInv, NEW job, Begins(job)
    PROVE  /\ IndexesHeal' /\ healed' \in [Docs -> SUBSET Parts]
           /\ \A d \in Docs : healed'[d] \subseteq healed[d]
           /\ \A d \in Docs : Concerns(job, d) => healed'[d] \cap PartsOf(job) = {}
  <1>1. healed \in [Docs -> SUBSET Parts]
    BY TypesHeld DEF IndexInv
  <1>2. \A d \in Docs : healed'[d] = IF Concerns(job, d) THEN healed[d] \ PartsOf(job) ELSE healed[d]
    BY DEF Begins, Unhealed
  <1>3. /\ healed' \in [Docs -> SUBSET Parts]
        /\ \A d \in Docs : healed'[d] \subseteq healed[d]
        /\ \A d \in Docs : Concerns(job, d) => healed'[d] \cap PartsOf(job) = {}
    <2>1. healed' = [d \in Docs |-> IF Concerns(job, d) THEN healed[d] \ PartsOf(job) ELSE healed[d]]
      BY DEF Begins, Unhealed
    <2> QED
      BY <1>1, <1>2, <2>1
  <1>4. ASSUME NEW d \in Docs
        PROVE  /\ "listed" \in healed'[d] => ListAgrees(d)'
               /\ "stored" \in healed'[d] => Agrees(embeddings, d)'
               /\ "found" \in healed'[d]  => Agrees(vectors, d)'
               /\ "omitted" \in healed'[d] => documents'[d] = Unlisted
    <2>1. CASE piece'[d] = piece[d]
      <3>1. /\ "listed" \in healed[d] => ListAgrees(d)
            /\ "stored" \in healed[d] => Agrees(embeddings, d)
            /\ "found" \in healed[d]  => Agrees(vectors, d)
            /\ "omitted" \in healed[d] => documents[d] = Unlisted
        BY DEF IndexInv, IndexesHeal
      <3>2. documents' = documents /\ embeddings' = embeddings /\ vectors' = vectors
        BY DEF Begins
      <3> QED
        BY <1>3, <2>1, <3>1, <3>2 DEF ListAgrees, Agrees, Published, IsLive, CopyOf
    <2>2. CASE piece'[d] # piece[d]
      <3>1. Concerns(job, d) /\ job.op \notin Rebuilds /\ job.op \in Writes \cup Rebuilds
        BY <2>2, JobFields DEF Begins
      <3>2. PartsOf(job) = Parts
        BY <3>1 DEF PartsOf, Rebuilds
      <3>3. healed'[d] = {}
        BY <1>3, <3>1, <3>2
      <3> QED
        BY <3>3
    <2> QED
      BY <2>1, <2>2
  <1>5. IndexesHeal'
    BY <1>4 DEF IndexesHeal
  <1> QED
    BY <1>3, <1>5

LEMMA StartKeeps ==
    ASSUME IndexInv, NEW w \in Slots, NEW job, Begins(job), Start(w, job), OnTrack(job)'
    PROVE  IndexInv'
  <1>1. PICK a \in BOOLEAN : a = \A u \in Slots : worker[u] = AtRest \/ ~ Meets(worker[u], job)
    OBVIOUS
  <1>2. PICK k : k = [job EXCEPT !.alone = a]
    OBVIOUS
  <1>3. worker'[w] = k /\ worker[w] = AtRest /\ \A v \in Slots \ {w} : Disturbs(job, v)
    BY <1>1, <1>2 DEF Start, Disturbs, Active
  <1>4. job \in Jobs /\ JobFits(job)
    BY DEF Begins
  <1>5. /\ k \in Jobs /\ k.alone = a /\ k.op = job.op /\ k.on = job.on
        /\ k.of = job.of /\ JobFits(k)
        /\ OnTrack(k)'
    BY <1>2, <1>4, AloneApart
  <1>6. k # AtRest
    BY <1>5, JobFields
  <1>7. \A v \in Slots : worker'[v] \in Jobs \cup {AtRest}
    BY <1>3, <1>5, Disturbed
  <1>8. worker' \in [Slots -> Jobs \cup {AtRest}]
    <2>1. DOMAIN worker' = Slots /\ worker' = [v \in Slots |-> worker'[v]]
      BY DEF Start
    <2> QED
      BY <1>7, <2>1
  <1>9. IndexTypeOK'
    BY <1>8, TypesHeld, TypeKept, UnhealedKept DEF Begins, IndexInv
  <1>10. ASSUME NEW v \in Slots, Active(v)'
         PROVE  JobFits(worker'[v]) /\ (worker'[v].alone => OnTrack(worker[v])')
    <2>1. CASE v = w
      BY <1>3, <1>5, <2>1
    <2>2. CASE v # w
      BY <1>3, <1>10, <2>2, Disturbed
    <2> QED
      BY <2>1, <2>2
  <1>11. IndexFits'
    BY <1>8, <1>9, <1>10 DEF IndexFits
  <1>12. NoMeeting'
    <2> SUFFICES ASSUME NEW u \in Slots, NEW v \in Slots, u # v, Active(u)', Active(v)',
                        Meets(worker[u], worker[v])'
                 PROVE  ~ worker'[u].alone
      BY DEF NoMeeting
    <2>1. Meets(worker'[u], worker'[v])
      OBVIOUS
    <2>2. CASE u = w
      <3>1. Active(v) /\ worker'[v].op = worker[v].op /\ worker'[v].on = worker[v].on /\ worker'[v].of = worker[v].of
        BY <1>3, <2>2, Disturbed
      <3>2. Meets(job, worker[v])
        BY <1>3, <1>5, <2>1, <2>2, <3>1, SameShape
      <3>3. Meets(worker[v], job)
        BY <3>2, MeetsBoth
      <3>4. ~ a
        BY <1>1, <3>1, <3>3 DEF Active
      <3> QED
        BY <1>3, <1>5, <2>2, <3>4
    <2>3. CASE v = w
      <3>1. Active(u) /\ worker'[u].op = worker[u].op /\ worker'[u].on = worker[u].on /\ worker'[u].of = worker[u].of
            /\ (worker'[u].alone => ~ Meets(worker[u], job))
        BY <1>3, <2>3, Disturbed
      <3>2. Meets(worker[u], job)
        BY <1>3, <1>5, <2>1, <2>3, <3>1, SameShape
      <3> QED
        BY <3>1, <3>2
    <2>4. CASE u # w /\ v # w
      <3>1. Active(u) /\ worker'[u].op = worker[u].op /\ worker'[u].on = worker[u].on /\ worker'[u].of = worker[u].of
            /\ (worker'[u].alone => worker[u].alone)
        BY <1>3, <2>4, Disturbed
      <3>2. Active(v) /\ worker'[v].op = worker[v].op /\ worker'[v].on = worker[v].on /\ worker'[v].of = worker[v].of
        BY <1>3, <2>4, Disturbed
      <3>3. Meets(worker[u], worker[v])
        BY <2>1, <3>1, <3>2, SameShape
      <3> QED
        BY <3>1, <3>2, <3>3 DEF IndexInv, NoMeeting
    <2> QED
      BY <2>2, <2>3, <2>4
  <1>13. HealedRests'
    <2> SUFFICES ASSUME NEW d \in Docs, NEW v \in Slots, Active(v)', Concerns(worker[v], d)'
                 PROVE  healed'[d] \cap Touches(worker'[v]) = {}
      BY DEF HealedRests
    <2>1. Concerns(worker'[v], d)
      OBVIOUS
    <2>2. CASE v = w
      <3>1. Concerns(job, d) /\ Touches(worker'[v]) = Touches(job) /\ Touches(job) \subseteq PartsOf(job)
        BY <1>3, <1>4, <1>5, <2>1, <2>2, SameShape, JobFields, TouchedArePartOf
      <3> QED
        BY <3>1, UnhealedKept
    <2>3. CASE v # w
      <3>1. Active(v) /\ worker'[v].op = worker[v].op /\ worker'[v].on = worker[v].on /\ worker'[v].of = worker[v].of
        BY <1>3, <2>3, Disturbed
      <3>2. Concerns(worker[v], d) /\ Touches(worker'[v]) = Touches(worker[v])
        BY <2>1, <3>1, SameShape
      <3>3. healed[d] \cap Touches(worker[v]) = {}
        BY <3>1, <3>2 DEF IndexInv, HealedRests
      <3> QED
        BY <3>2, <3>3, UnhealedKept
    <2> QED
      BY <2>2, <2>3
  <1> QED
    BY <1>10, <1>11, <1>12, <1>13, UnhealedKept DEF IndexInv

(* A request's job, and what it has to find.                                  *)
LEMMA RequestBegins ==
    ASSUME NEW op \in Writes, NEW s \in StepsOf(op), NEW d \in Docs,
           NEW copy \in Copies \cup {Unlisted},
           s \in {"reload", "list", "unlist"},
           s # "reload" => copy \in Copies /\ copy.doc = d,
           s = "list" => IsLive(d)' /\ copy = CopyOf(d)',
           s = "unlist" => ~ Published(d)' /\ ~ Indexed(copy)
    PROVE  LET j == Job(op, s, d, copy) IN
           j \in Jobs /\ JobFits(j) /\ OnTrack(j)' /\ j.on = d /\ j.of = {d} /\ j.op = op
  <1>1. PICK j : j = Job(op, s, d, copy)
    OBVIOUS
  <1>2. s \in Steps
    BY DEF Steps
  <1>7. PICK D \in SUBSET Docs : D = {d}
    OBVIOUS
  <1>8. j = NewJob(op, s, d, D, copy)
    BY <1>1, <1>7 DEF Job
  <1>3. /\ j \in Jobs /\ j.op = op /\ j.step = s /\ j.on = d /\ j.of = {d} /\ j.copy = copy
        /\ j.batch = <<>>
    BY <1>2, <1>7, <1>8 DEF NewJob, Jobs
  <1>4. JobFits(j)
    <2>1. op \notin Rebuilds /\ d # 0
      BY DocAssumption DEF Writes, Rebuilds
    <2>2. s \notin Embedding
      BY DEF Embedding
    <2> QED
      BY <1>3, <2>1, <2>2, FitsRequest
  <1>5. RequestOnTrack(j)'
    <2>1. s \notin Embedding
      BY DEF Embedding
    <2>2. s = "unlist" => Fresh(copy, d)'
      BY DEF Fresh
    <2> QED
      BY <1>3, <2>1, <2>2 DEF RequestOnTrack
  <1>6. OnTrack(j)'
    BY <1>3, <1>5, WriteIsNoRebuild DEF OnTrack
  <1> QED
    BY <1>1, <1>3, <1>4, <1>6

LEMMA PutOne ==
    ASSUME IndexFits, NEW d \in Docs, NEW row \in Rows, Put(d, row)
    PROVE  /\ piece' \in [Docs -> Rows] /\ piece'[d] = row
           /\ \A e \in Docs : e # d => piece'[e] = piece[e]
  BY TypesHeld DEF Put

LEMMA WriteKeeps ==
    ASSUME IndexInv, NEW w \in Slots, NEW d \in Docs, Write(w, d)
    PROVE  IndexInv'
  <1>1. /\ documents' = documents /\ embeddings' = embeddings /\ vectors' = vectors
        /\ breaks' = breaks /\ restarts' = restarts
    BY DEF Write
  <1>2. /\ piece \in [Docs -> Rows] /\ IndexFits
        /\ \A e \in Docs : CopyOf(e) \in Copies /\ Gone(e) \in Copies
    BY TypesHeld DEF IndexInv
  <1>3. ops \in 0 .. MaxOps /\ MaxOps \in Nat
    BY IndexBounds DEF IndexInv, IndexFits, IndexTypeOK
  <1>4. d \in Docs \cup {0} /\ Unlisted \in Copies \cup {Unlisted} /\ d # 0
    BY DocAssumption
  <1>5. SUFFICES \E op \in Writes, s \in Steps, copy \in Copies \cup {Unlisted}, row \in Rows :
                    /\ s \in StepsOf(op) /\ s \in {"reload", "list", "unlist"}
                    /\ s # "reload" => copy \in Copies /\ copy.doc = d
                    /\ Put(d, row) /\ Start(w, Job(op, s, d, copy))
                    /\ s = "list" => row.life = "live" /\ copy.status = row.status
                                     /\ copy.text = row.text
                    /\ s = "unlist" => ~ (row.life = "live" /\ row.status = "published")
                                       /\ ~ Indexed(copy)
    <2>1. PICK op \in Writes, s \in Steps, copy \in Copies \cup {Unlisted}, row \in Rows :
                    /\ s \in StepsOf(op) /\ s \in {"reload", "list", "unlist"}
                    /\ s # "reload" => copy \in Copies /\ copy.doc = d
                    /\ Put(d, row) /\ Start(w, Job(op, s, d, copy))
                    /\ s = "list" => row.life = "live" /\ copy.status = row.status
                                     /\ copy.text = row.text
                    /\ s = "unlist" => ~ (row.life = "live" /\ row.status = "published")
                                       /\ ~ Indexed(copy)
      BY <1>5
    <2>2. /\ piece' \in [Docs -> Rows] /\ piece'[d] = row
          /\ \A e \in Docs : e # d => piece'[e] = piece[e]
      BY <1>2, <2>1, PutOne
    <2>3. s = "list" => IsLive(d)' /\ copy = CopyOf(d)'
      <3> SUFFICES ASSUME s = "list"
                   PROVE  IsLive(d)' /\ copy = CopyOf(d)'
        OBVIOUS
      <3>1. copy \in Copies /\ copy.doc = d /\ copy.status = row.status /\ copy.text = row.text
            /\ row.life = "live"
        BY <2>1
      <3>2. copy = [doc |-> d, status |-> row.status, text |-> row.text]
        BY <3>1 DEF Copies
      <3> QED
        BY <2>2, <3>1, <3>2 DEF IsLive, CopyOf
    <2>4. s = "unlist" => ~ Published(d)' /\ ~ Indexed(copy)
      BY <2>1, <2>2 DEF Published, IsLive
    <2>5. PICK job : job = Job(op, s, d, copy)
      OBVIOUS
    <2>6. job \in Jobs /\ JobFits(job) /\ OnTrack(job)' /\ job.on = d /\ job.of = {d} /\ job.op = op
      BY <2>1, <2>3, <2>4, <2>5, RequestBegins
    <2>7. Start(w, job)
      BY <2>1, <2>5
    <2>8. Begins(job)
      <3>1. job.op \notin Rebuilds
        BY <2>6, WriteIsNoRebuild
      <3>2. \A e \in Docs : ~ Concerns(job, e) => piece'[e] = piece[e]
        BY <2>2, <2>6 DEF Concerns
      <3> QED
        BY <1>1, <2>2, <2>6, <2>7, <3>1, <3>2 DEF Begins, Start
    <2> QED
      BY <2>6, <2>7, <2>8, StartKeeps
  <1>6. /\ "list" \in Steps /\ "unlist" \in Steps /\ "reload" \in Steps
        /\ "list" \in StepsOf("create") /\ "list" \in StepsOf("update")
        /\ "reload" \in StepsOf("restore") /\ "reload" \in StepsOf("workflow")
        /\ "reload" \in StepsOf("bulkPublish")
        /\ "unlist" \in StepsOf("bulkRemove") /\ "unlist" \in StepsOf("delete")
        /\ {"create", "update", "restore", "workflow", "bulkPublish", "bulkRemove", "delete"} = Writes
    BY DEF Steps, StepsOf, Writes
  <1>7. Gone(d).doc = d /\ ~ Indexed(Gone(d)) /\ Gone(d) \in Copies
    BY <1>2 DEF Gone, Indexed
  <1>8. CASE CreateDoc(w, d)
    <2>1. PICK status \in {"draft", "published"} :
             LET row == [life |-> "live", status |-> status, text |-> ops + 1] IN
             /\ Put(d, row)
             /\ Start(w, Job("create", "list", d, [doc |-> d, status |-> status, text |-> row.text]))
      BY <1>8 DEF CreateDoc
    <2>2. ops < MaxOps
      BY <2>1 DEF Start
    <2>3. PICK row : row = [life |-> "live", status |-> status, text |-> ops + 1]
      OBVIOUS
    <2>4. PICK copy : copy = [doc |-> d, status |-> status, text |-> ops + 1]
      OBVIOUS
    <2>5. /\ row \in Rows /\ row.life = "live" /\ row.status = status /\ row.text = ops + 1
          /\ copy \in Copies /\ copy.doc = d /\ copy.status = status /\ copy.text = ops + 1
      BY <1>3, <2>2, <2>3, <2>4 DEF Rows, Copies, Texts
    <2>6. Put(d, row) /\ Start(w, Job("create", "list", d, copy))
      BY <2>1, <2>3, <2>4
    <2> QED
      BY <1>6, <2>5, <2>6
  <1>9. CASE UpdateDoc(w, d)
    <2>1. /\ IsLive(d)
          /\ Put(d, [piece[d] EXCEPT !.text = ops + 1])
          /\ Start(w, Job("update", "list", d, [CopyOf(d) EXCEPT !.text = ops + 1]))
      BY <1>9 DEF UpdateDoc
    <2>2. ops < MaxOps
      BY <2>1 DEF Start
    <2>3. PICK row : row = [piece[d] EXCEPT !.text = ops + 1]
      OBVIOUS
    <2>4. PICK copy : copy = [CopyOf(d) EXCEPT !.text = ops + 1]
      OBVIOUS
    <2>5. /\ row \in Rows /\ row.life = "live" /\ row.status = piece[d].status /\ row.text = ops + 1
      BY <1>2, <1>3, <2>1, <2>2, <2>3 DEF Rows, Texts, IsLive
    <2>6. /\ copy \in Copies /\ copy.doc = d /\ copy.status = piece[d].status /\ copy.text = ops + 1
      BY <1>2, <1>3, <2>2, <2>4 DEF Copies, Texts, CopyOf, Rows
    <2>7. Put(d, row) /\ Start(w, Job("update", "list", d, copy))
      BY <2>1, <2>3, <2>4
    <2> QED
      BY <1>6, <2>5, <2>6, <2>7
  <1>10. CASE RestoreDoc(w, d)
    <2>1. /\ Put(d, [piece[d] EXCEPT !.text = ops + 1])
          /\ Start(w, Job("restore", "reload", d, Unlisted))
      BY <1>10 DEF RestoreDoc
    <2>2. [piece[d] EXCEPT !.text = ops + 1] \in Rows
      BY <1>2, <1>3, <2>1 DEF Rows, Texts, Start
    <2> QED
      BY <1>4, <1>6, <2>1, <2>2
  <1>11. CASE ChangeStatus(w, d)
    <2>1. PICK status \in {"draft", "published"} : Put(d, [piece[d] EXCEPT !.status = status])
      BY <1>11 DEF ChangeStatus
    <2>2. [piece[d] EXCEPT !.status = status] \in Rows
      BY <1>2, <2>1 DEF Rows
    <2>3. Start(w, Job("workflow", "reload", d, Unlisted))
      BY <1>11 DEF ChangeStatus
    <2> QED
      BY <1>4, <1>6, <2>1, <2>2, <2>3
  <1>12. CASE DeleteDoc(w, d)
    <2>1. PICK row : row = [piece[d] EXCEPT !.life = "deleted"]
      OBVIOUS
    <2>2. row \in Rows /\ row.life = "deleted"
      BY <1>2, <2>1 DEF Rows
    <2>3. Put(d, row) /\ Start(w, Job("delete", "unlist", d, Gone(d)))
      BY <1>12, <2>1 DEF DeleteDoc
    <2> QED
      BY <1>6, <1>7, <2>2, <2>3
  <1>13. CASE BulkPublish(w, d)
    <2>1. PICK row : row = IF IsLive(d) THEN [piece[d] EXCEPT !.status = "published"] ELSE piece[d]
      OBVIOUS
    <2>2. row \in Rows
      BY <1>2, <2>1 DEF Rows
    <2>3. Put(d, row) /\ Start(w, Job("bulkPublish", "reload", d, Unlisted))
      BY <1>13, <2>1 DEF BulkPublish
    <2> QED
      BY <1>4, <1>6, <2>2, <2>3
  <1>14. CASE BulkRemove(w, d)
    <2>1. Start(w, Job("bulkRemove", "unlist", d, Gone(d)))
      BY <1>14 DEF BulkRemove
    <2>2. CASE Put(d, [piece[d] EXCEPT !.status = IF IsLive(d) THEN "draft" ELSE @])
      <3>1. PICK row : row = [piece[d] EXCEPT !.status = IF IsLive(d) THEN "draft" ELSE piece[d].status]
        OBVIOUS
      <3>2. row \in Rows /\ ~ (row.life = "live" /\ row.status = "published")
        <4>1. CASE IsLive(d)
          <5>1. row = [piece[d] EXCEPT !.status = "draft"]
            BY <3>1, <4>1
          <5> QED
            BY <1>2, <5>1 DEF Rows
        <4>2. CASE ~ IsLive(d)
          <5>1. row = [piece[d] EXCEPT !.status = piece[d].status]
            BY <3>1, <4>2
          <5> QED
            BY <1>2, <4>2, <5>1 DEF Rows, IsLive
        <4> QED
          BY <4>1, <4>2
      <3>3. Put(d, row)
        BY <2>2, <3>1
      <3> QED
        BY <1>6, <1>7, <2>1, <3>2, <3>3
    <2>3. CASE Put(d, [piece[d] EXCEPT !.life = "deleted"])
      <3>1. PICK row : row = [piece[d] EXCEPT !.life = "deleted"]
        OBVIOUS
      <3>2. row \in Rows /\ row.life = "deleted"
        BY <1>2, <3>1 DEF Rows
      <3>3. Put(d, row)
        BY <2>3, <3>1
      <3> QED
        BY <1>6, <1>7, <2>1, <3>2, <3>3
    <2> QED
      BY <1>14, <2>2, <2>3 DEF BulkRemove
  <1> QED
    BY <1>8, <1>9, <1>10, <1>11, <1>12, <1>13, <1>14 DEF Write

LEMMA RebuildKeeps ==
    ASSUME IndexInv, NEW w \in Slots, StartReindex(w) \/ StartRelist(w)
    PROVE  IndexInv'
  <1>1. /\ documents' = documents /\ embeddings' = embeddings /\ vectors' = vectors
        /\ breaks' = breaks /\ restarts' = restarts /\ piece' = piece
    BY DEF StartReindex, StartRelist
  <1>2. piece' \in [Docs -> Rows]
    BY <1>1, TypesHeld DEF IndexInv
  <1>3. PICK op \in {"reindex", "relist"}, s \in Steps, D \in SUBSET Docs :
           /\ s \in StepsOf(op) /\ s \in {"load", "collect"}
           /\ op = "relist" => D = Docs
           /\ Start(w, NewJob(op, s, 0, D, Unlisted))
    <2>1. "load" \in Steps /\ "collect" \in Steps
          /\ "load" \in StepsOf("reindex") /\ "collect" \in StepsOf("relist")
      BY DEF StepsOf, Steps
    <2>2. CASE StartReindex(w)
      <3>1. PICK D \in Tenants : Start(w, RebuildOf("reindex", "load", D))
        BY <2>2 DEF StartReindex
      <3>2. D \in SUBSET Docs
        BY TenantAssumption
      <3> QED
        BY <2>1, <3>1, <3>2 DEF RebuildOf
    <2>3. CASE StartRelist(w)
      <3>1. Start(w, RebuildOf("relist", "collect", Docs)) /\ Docs \in SUBSET Docs
        BY <2>3 DEF StartRelist
      <3> QED
        BY <2>1, <3>1 DEF RebuildOf
    <2> QED
      BY <2>2, <2>3
  <1>4. PICK job : job = NewJob(op, s, 0, D, Unlisted)
    OBVIOUS
  <1>5. op \in Rebuilds /\ op \in Writes \cup Rebuilds /\ 0 \in Docs \cup {0} /\ op \notin Writes
    BY DEF Rebuilds, Writes
  <1>6. /\ job \in Jobs /\ job.op = op /\ job.step = s /\ job.on = 0
        /\ job.of = D /\ job.copy = Unlisted
        /\ job.batch = <<>> /\ job.offset = 0 /\ job.keep = {}
    BY <1>3, <1>4, <1>5 DEF NewJob, Jobs
  <1>7. JobFits(job)
    <2>1. job.step \notin Embedding \cup {"list", "unlist"} /\ DocsOf(job.batch) = {}
      BY <1>3, <1>6 DEF Embedding, DocsOf
    <2> QED
      BY <1>3, <1>5, <1>6, <2>1 DEF JobFits
  <1>8. \A S \in SUBSET Docs : \A d \in S : ~ Rank(S, d) <= 0
    <2> SUFFICES ASSUME NEW S \in SUBSET Docs, NEW d \in S
                 PROVE  ~ Rank(S, d) <= 0
      OBVIOUS
    <2>1. Rank(S, d) \in 1 .. Cardinality(S) /\ Cardinality(S) \in Nat
      BY RankRange
    <2> QED
      BY <2>1
  <1>17. PICK S : S = Shown(job.of)'
    OBVIOUS
  <1>9. S \in SUBSET Docs /\ Live' \in SUBSET Docs
    BY <1>3, <1>6, <1>17, TenantAssumption DEF Shown, Live
  <1>10. op = "reindex" => s = "load"
    BY <1>3 DEF StepsOf, Embedding
  <1>11. op = "relist" => s = "collect"
    BY <1>3 DEF StepsOf
  <1>12. op = "reindex" => ReindexOnTrack(job)'
    <2> SUFFICES ASSUME op = "reindex"
                 PROVE  ReindexOnTrack(job)'
      OBVIOUS
    <2>1. CopiesOf(job.batch, S)'
      BY <1>6 DEF CopiesOf
    <2>2. \A d \in S : ~ Rank(S, d) <= job.offset
      BY <1>6, <1>8, <1>9
    <2>3. job.step = "load" /\ "load" \notin Embedding
      BY <1>6, <1>10 DEF Embedding
    <2> QED
      BY <1>6, <1>17, <2>1, <2>2, <2>3 DEF ReindexOnTrack
  <1>13. op = "relist" => RelistOnTrack(job)'
    <2> SUFFICES ASSUME op = "relist"
                 PROVE  RelistOnTrack(job)'
      OBVIOUS
    <2>1. CopiesOf(job.batch, Live)'
      BY <1>6 DEF CopiesOf
    <2>2. \A d \in Live' : ~ Rank(Live', d) <= job.offset
      BY <1>6, <1>8, <1>9
    <2> QED
      BY <1>6, <1>11, <2>1, <2>2 DEF RelistOnTrack
  <1>14. OnTrack(job)'
    BY <1>3, <1>5, <1>6, <1>12, <1>13 DEF OnTrack
  <1>15. Start(w, job)
    BY <1>3, <1>4
  <1>16. Begins(job)
    BY <1>1, <1>2, <1>6, <1>7, <1>15 DEF Begins, Start
  <1> QED
    BY <1>14, <1>15, <1>16, StartKeeps

(* The sweep: no job of this process, and a write like that of a request.     *)
LEMMA SweepKeeps ==
    ASSUME IndexInv, NEW d \in Docs, SweepPublishes(d),
           UNCHANGED <<documents, embeddings, vectors, breaks, restarts>>
    PROVE  IndexInv'
  <1>1. PICK job : job = Job("workflow", "reload", d, Unlisted)
    OBVIOUS
  <1>2. /\ job \in Jobs /\ JobFits(job) /\ job.on = d /\ job.of = {d} /\ job.op = "workflow"
    <2>1. "workflow" \in Writes /\ "reload" \in StepsOf("workflow") /\ Unlisted \in Copies \cup {Unlisted}
      BY DEF Writes, StepsOf
    <2> QED
      BY <1>1, <2>1, RequestBegins
  <1>3. PICK row : row = [piece[d] EXCEPT !.status = "published"]
    OBVIOUS
  <1>4. row \in Rows /\ IndexFits
    BY <1>3, TypesHeld DEF Rows, IndexInv
  <1>5. Put(d, row)
    BY <1>3 DEF SweepPublishes
  <1>6. /\ piece' \in [Docs -> Rows] /\ piece'[d] = row
        /\ \A e \in Docs : e # d => piece'[e] = piece[e]
    BY <1>4, <1>5, PutOne
  <1>7. Begins(job)
    <2>1. "workflow" \notin Rebuilds
      BY DEF Rebuilds
    <2>2. \A e \in Docs : ~ Concerns(job, e) => piece'[e] = piece[e]
      BY <1>2, <1>6 DEF Concerns
    <2> QED
      BY <1>1, <1>2, <1>6, <2>1, <2>2 DEF Begins, SweepPublishes
  <1>8. \A v \in Slots : Disturbs(job, v)
    BY <1>1 DEF SweepPublishes, Disturbs, Active
  <1>9. \A v \in Slots : worker'[v] \in Jobs \cup {AtRest}
    BY <1>7, <1>8, Disturbed
  <1>10. worker' \in [Slots -> Jobs \cup {AtRest}]
    <2>1. worker' = [v \in Slots |-> worker'[v]]
      BY DEF SweepPublishes
    <2> QED
      BY <1>9, <2>1
  <1>11. IndexTypeOK'
    BY <1>7, <1>10, TypesHeld, TypeKept, UnhealedKept DEF Begins, IndexInv
  <1>12. \A v \in Slots : Active(v)' =>
            JobFits(worker'[v]) /\ (worker'[v].alone => OnTrack(worker[v])')
    BY <1>7, <1>8, Disturbed
  <1>13. IndexFits'
    BY <1>10, <1>11, <1>12 DEF IndexFits
  <1>14. NoMeeting'
    <2> SUFFICES ASSUME NEW u \in Slots, NEW v \in Slots, u # v, Active(u)', Active(v)',
                        Meets(worker[u], worker[v])'
                 PROVE  ~ worker'[u].alone
      BY DEF NoMeeting
    <2>1. Meets(worker'[u], worker'[v])
      OBVIOUS
    <2>2. Active(u) /\ worker'[u].op = worker[u].op /\ worker'[u].on = worker[u].on /\ worker'[u].of = worker[u].of
          /\ (worker'[u].alone => worker[u].alone)
      BY <1>7, <1>8, Disturbed
    <2>3. Active(v) /\ worker'[v].op = worker[v].op /\ worker'[v].on = worker[v].on /\ worker'[v].of = worker[v].of
      BY <1>7, <1>8, Disturbed
    <2>4. Meets(worker[u], worker[v])
      BY <2>1, <2>2, <2>3, SameShape
    <2> QED
      BY <2>2, <2>3, <2>4 DEF IndexInv, NoMeeting
  <1>15. HealedRests'
    <2> SUFFICES ASSUME NEW e \in Docs, NEW v \in Slots, Active(v)', Concerns(worker[v], e)'
                 PROVE  healed'[e] \cap Touches(worker'[v]) = {}
      BY DEF HealedRests
    <2>1. Concerns(worker'[v], e)
      OBVIOUS
    <2>2. Active(v) /\ worker'[v].op = worker[v].op /\ worker'[v].on = worker[v].on /\ worker'[v].of = worker[v].of
      BY <1>7, <1>8, Disturbed
    <2>3. Concerns(worker[v], e) /\ Touches(worker'[v]) = Touches(worker[v])
      BY <2>1, <2>2, SameShape
    <2>4. healed[e] \cap Touches(worker[v]) = {}
      BY <2>2, <2>3 DEF IndexInv, HealedRests
    <2> QED
      BY <1>7, <2>3, <2>4, UnhealedKept
  <1> QED
    BY <1>7, <1>12, <1>13, <1>14, <1>15, UnhealedKept DEF IndexInv

LEMMA RestartKeeps ==
    ASSUME IndexInv, Restart
    PROVE  IndexInv'
  <1>1. /\ piece' = piece /\ embeddings' = embeddings /\ breaks' = breaks
        /\ documents' = [d \in Docs |-> Unlisted] /\ vectors' = {}
        /\ healed' = [d \in Docs |-> healed[d] \cap {"stored"}]
        /\ ops < MaxOps /\ ops' = ops + 1
        /\ restarts < MaxRestarts /\ restarts' = restarts + 1
    BY DEF Restart
  <1>2. PICK first : first = NewJob("relist", "collect", 0, Docs, Unlisted)
    OBVIOUS
  <1>3. PICK second : second = NewJob("warm", "read", 0, Docs, Unlisted)
    OBVIOUS
  <1>4. /\ "relist" \in Writes \cup Rebuilds /\ "warm" \in Writes \cup Rebuilds
        /\ "collect" \in Steps /\ "read" \in Steps
        /\ "relist" \in Rebuilds /\ "warm" \in Rebuilds
        /\ "relist" \notin Writes /\ "warm" \notin Writes
        /\ "collect" \in StepsOf("relist") /\ "read" \in StepsOf("warm")
    BY DEF Writes, Rebuilds, Steps, StepsOf
  <1>5. /\ first \in Jobs /\ first.op = "relist" /\ first.step = "collect" /\ first.on = 0
        /\ first.of = Docs
        /\ first.batch = <<>> /\ first.offset = 0
    BY <1>2, <1>4 DEF NewJob, Jobs
  <1>6. /\ second \in Jobs /\ second.op = "warm" /\ second.step = "read" /\ second.on = 0
        /\ second.of = Docs
    BY <1>3, <1>4 DEF NewJob, Jobs
  <1>7. JobFits(first) /\ JobFits(second)
    BY <1>4, <1>5, <1>6 DEF JobFits, Embedding
  <1>8. \A w \in Slots : worker'[w] = IF w = "indexer" THEN first
                                      ELSE IF w = "warmer" THEN second ELSE AtRest
    BY <1>2, <1>3 DEF Restart, RebuildOf
  <1>9. worker' \in [Slots -> Jobs \cup {AtRest}]
    <2>1. worker' = [w \in Slots |-> worker'[w]]
      BY DEF Restart
    <2> QED
      BY <1>5, <1>6, <1>8, <2>1
  <1>10. IndexTypeOK'
    <2>1. healed' \in [Docs -> SUBSET Parts]
      BY <1>1 DEF Parts
    <2>2. documents' \in [Docs -> Copies \cup {Unlisted}]
      BY <1>1
    <2> QED
      BY <1>1, <1>9, <2>1, <2>2, TypesHeld, TypeKept DEF IndexInv
  <1>11. IndexFits'
    BY <1>7, <1>8, <1>9, <1>10 DEF IndexFits, Active
  <1>12. OnTrack(first)' /\ OnTrack(second)'
    <2>1. CopiesOf(first.batch, Live)'
      BY <1>5 DEF CopiesOf
    <2>2. \A d \in Live' : ~ Rank(Live', d) <= first.offset
      <3> SUFFICES ASSUME NEW d \in Live'
                   PROVE  ~ Rank(Live', d) <= first.offset
        OBVIOUS
      <3>1. Live' \in SUBSET Docs
        BY TenantAssumption DEF Live
      <3>2. Rank(Live', d) \in 1 .. Cardinality(Live') /\ Cardinality(Live') \in Nat
        BY <3>1, RankRange
      <3> QED
        BY <1>5, <3>2
    <2>3. RelistOnTrack(first)'
      BY <1>5, <2>1, <2>2 DEF RelistOnTrack
    <2>4. WarmOnTrack(second)'
      BY <1>6 DEF WarmOnTrack
    <2> QED
      BY <1>4, <1>5, <1>6, <2>3, <2>4 DEF OnTrack
  <1>13. /\ PartsOf(first) = Listing /\ PartsOf(second) = {"stored", "found", "counted"}
         /\ Touches(first) = Listing /\ Touches(second) = {"found"}
    BY <1>5, <1>6 DEF PartsOf, Touches, Rebuilds, Parts, Listing
  <1>14. NoMeeting'
    <2> SUFFICES ASSUME NEW u \in Slots, NEW v \in Slots, u # v, Active(u)', Active(v)',
                        Meets(worker[u], worker[v])'
                 PROVE  FALSE
      BY DEF NoMeeting
    <2>1. \/ worker'[u] = first /\ worker'[v] = second
          \/ worker'[u] = second /\ worker'[v] = first
      BY <1>8 DEF Active
    <2>2. PartsOf(worker'[u]) \cap PartsOf(worker'[v]) # {}
      BY DEF Meets
    <2> QED
      BY <1>13, <2>1, <2>2 DEF Listing
  <1>15. HealedRests'
    BY <1>1, <1>8, <1>13 DEF HealedRests, Active, Listing
  <1>16. IndexesHeal'
    <2> SUFFICES ASSUME NEW d \in Docs
                 PROVE  /\ "listed" \in healed'[d] => ListAgrees(d)'
                        /\ "stored" \in healed'[d] => Agrees(embeddings, d)'
                        /\ "found" \in healed'[d]  => Agrees(vectors, d)'
                        /\ "omitted" \in healed'[d] => documents'[d] = Unlisted
      BY DEF IndexesHeal
    <2>1. healed'[d] = healed[d] \cap {"stored"}
      BY <1>1
    <2>2. "stored" \in healed[d] => Agrees(embeddings, d)
      BY DEF IndexInv, IndexesHeal
    <2>3. "stored" \in healed[d] => Agrees(embeddings, d)'
      BY <1>1, <2>2 DEF Agrees, Published, IsLive
    <2> QED
      BY <2>1, <2>3
  <1>17. \A w \in Slots : Active(w)' => OnTrack(worker[w])'
    <2> SUFFICES ASSUME NEW w \in Slots, Active(w)'
                 PROVE  OnTrack(worker[w])'
      OBVIOUS
    <2>1. worker'[w] = first \/ worker'[w] = second
      BY <1>8 DEF Active
    <2> QED
      BY <1>12, <2>1
  <1> QED
    BY <1>11, <1>14, <1>15, <1>16, <1>17 DEF IndexInv

LEMMA IndexInitHolds == IndexInit => IndexInv
  <1> SUFFICES ASSUME IndexInit
               PROVE  IndexInv
    OBVIOUS
  <1> USE DEF IndexInit
  <1>1. MaxOps \in Nat /\ MaxBreaks \in Nat /\ MaxRestarts \in Nat
    BY IndexBounds
  <1>2. piece \in [Docs -> Rows]
    BY <1>1 DEF Rows, Texts
  <1>3. IndexTypeOK
    BY <1>1, <1>2 DEF IndexTypeOK
  <1>4. \A w \in Slots : ~ Active(w)
    BY DEF Active
  <1>5. IndexFits
    BY <1>3, <1>4 DEF IndexFits
  <1>6. HealedRests /\ NoMeeting
    BY <1>4 DEF HealedRests, NoMeeting
  <1>7. IndexesHeal
    BY DEF IndexesHeal
  <1> QED
    BY <1>4, <1>5, <1>6, <1>7 DEF IndexInv

LEMMA IndexStutter == IndexInv /\ UNCHANGED indexVars => IndexInv'
  <1> SUFFICES ASSUME IndexInv, UNCHANGED indexVars
               PROVE  IndexInv'
    OBVIOUS
  <1>1. /\ piece' = piece /\ documents' = documents /\ embeddings' = embeddings
        /\ vectors' = vectors /\ worker' = worker /\ ops' = ops /\ breaks' = breaks
        /\ restarts' = restarts /\ healed' = healed
    BY DEF indexVars
  <1>2. IndexFits'
    BY <1>1 DEF IndexInv, IndexFits, IndexTypeOK, Active
  <1>3. NoMeeting' /\ HealedRests'
    BY <1>1 DEF IndexInv, NoMeeting, HealedRests, Active
  <1>4. IndexesHeal'
    BY <1>1 DEF IndexInv, IndexesHeal, ListAgrees, Agrees, Published, IsLive, CopyOf
  <1>5. ASSUME NEW w \in Slots, Active(w)', worker'[w].alone
        PROVE  OnTrack(worker[w])'
    <2>1. Active(w) /\ worker[w].alone
      BY <1>1, <1>5 DEF Active
    <2>2. PICK j \in Jobs : j = worker[w] /\ JobFits(j) /\ OnTrack(j)
      BY <2>1, TwoViews
    <2>3. j.op \in Writes => RequestOnTrack(j)'
      <3> SUFFICES ASSUME j.op \in Writes
                   PROVE  RequestOnTrack(j)'
        OBVIOUS
      <3>1. RequestOnTrack(j)
        BY <2>2 DEF OnTrack
      <3>2. j.on \in Docs
        BY <2>2, JobFields, WriteIsNoRebuild DEF JobFits
      <3> QED
        BY <1>1, <3>1, <3>2, RequestKept
    <2>4. j.op = "relist" => RelistOnTrack(j)'
      BY <1>1, <2>2, RelistKept DEF OnTrack
    <2>5. j.op = "reindex" => ReindexOnTrack(j)'
      BY <1>1, <2>2, ReindexKept DEF OnTrack
    <2>6. j.op = "warm" => WarmOnTrack(j)'
      BY <1>1, <2>2, WarmKept DEF OnTrack
    <2>7. OnTrack(j)'
      BY <2>3, <2>4, <2>5, <2>6 DEF OnTrack
    <2> QED
      BY <1>1, <2>2, <2>7
  <1> QED
    BY <1>2, <1>3, <1>4, <1>5 DEF IndexInv

LEMMA IndexSteps == IndexInv /\ [IndexNext]_indexVars => IndexInv'
  <1> SUFFICES ASSUME IndexInv, IndexNext
               PROVE  IndexInv'
    BY IndexStutter
  <1>1. CASE Restart
    BY <1>1, RestartKeeps
  <1>2. CASE \E d \in Docs : SweepPublishes(d) /\ UNCHANGED <<documents, embeddings, vectors,
                                                             breaks, restarts>>
    BY <1>2, SweepKeeps
  <1>3. CASE \E w \in Workers :
                \/ \E d \in Docs : Write(w, d)
                \/ StartReindex(w) \/ StartRelist(w)
    <2>1. Workers \subseteq Slots
      BY DEF Slots
    <2> QED
      BY <1>3, <2>1, WriteKeeps, RebuildKeeps
  <1>4. CASE \E w \in Slots : JobMoves(w)
    BY <1>4, JobKeeps
  <1> QED
    BY <1>1, <1>2, <1>3, <1>4 DEF IndexNext, JobMoves

(* The state of the indexes and their jobs has its type.                      *)
THEOREM IndexesTypeCorrect == IndexSpec => []IndexTypeOK
  <1>1. IndexInv => IndexTypeOK
    BY DEF IndexInv, IndexFits
  <1> QED
    BY <1>1, IndexInitHolds, IndexSteps, PTL DEF IndexSpec

(* Whatever came before, a request that nothing met leaves the indexes in     *)
(* order for its article, a rebuilding of the vectors for the posts of its    *)
(* tenant, one of the full-text index for the default tenant, and it leaves   *)
(* the articles of all other tenants out: the invariant IndexesHeal, for any  *)
(* partition of the articles into tenants.                                    *)
THEOREM IndexesAlwaysHeal == IndexSpec => []IndexesHeal
  <1>1. IndexInv => IndexesHeal
    BY DEF IndexInv
  <1> QED
    BY <1>1, IndexInitHolds, IndexSteps, PTL DEF IndexSpec

---------------------------------------------------------------------------------
(* Both side by side.                                                        *)

(* Entries and indexes have their types while either is at work: TypeOK.     *)
THEOREM ContentTypesCorrect == Spec => []TypeOK
  <1>1. Init => TypeInv /\ IndexInv
    BY InitTypes, IndexInitHolds DEF Init
  <1>2. TypeInv /\ IndexInv /\ [Next]_allContentVars => TypeInv' /\ IndexInv'
    <2> SUFFICES ASSUME TypeInv, IndexInv, [Next]_allContentVars
                 PROVE  TypeInv' /\ IndexInv'
      OBVIOUS
    <2>1. [ContentNext]_contentVars /\ [IndexNext]_indexVars
      BY DEF Next, allContentVars
    <2> QED
      BY <2>1, StepTypes, IndexSteps
  <1>3. TypeInv /\ IndexInv => TypeOK
    BY DEF TypeInv, IndexInv, IndexFits, TypeOK
  <1> QED
    BY <1>1, <1>2, <1>3, PTL DEF Spec

=================================================================================
