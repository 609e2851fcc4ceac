------------------------- MODULE PublishSchedulerProofs -------------------------
(***************************************************************************)
(* Theorems about PublishScheduler for every set of instances, articles and *)
(* tenants.  The typing holds with either lock; the exclusion of sweeps and *)
(* what follows from it hold when the instances share the lock and a sweep  *)
(* ends within its time to live.                                            *)
(***************************************************************************)
EXTENDS PublishScheduler, TLAPS

LEMMA ErrorType ==
    ASSUME TypeOK
    PROVE  Error => errors' \in 0 .. MaxErrors
  BY BoundsAssumption DEF TypeOK, Error

LEMMA KeyIsKey ==
    ASSUME NEW i \in Instances
    PROVE  Key(i) \in Keys
  BY DEF Key, Keys

LEMMA LockTyping ==
    ASSUME TypeOK, NEW i \in Instances
    PROVE  /\ Acquire(i) => LockTypeOK'
           /\ Release(i) => LockTypeOK'
           /\ LoseEntries(i) => LockTypeOK'
           /\ \A k \in Keys : Lapse(k) => LockTypeOK'
  BY KeyIsKey DEF TypeOK, LockTypeOK, Acquire, Release, LoseEntries, Lapse

LEMMA SweepTyping ==
    ASSUME TypeOK, NEW i \in Instances,
           NEW todo \in SUBSET Articles, NEW batch \in SUBSET Articles,
           NEW phase \in {"list", "publish", "announce", "release"},
           Continue(i, todo, batch, phase)
    PROVE  sweep' \in [Instances -> Sweep]
  <1>1. [phase |-> phase, todo |-> todo, batch |-> batch] \in Sweep
    BY DEF Sweep
  <1> QED
    BY <1>1 DEF TypeOK, Continue

LEMMA NoSweepTyping == NoSweep \in Sweep
  BY DEF NoSweep, Sweep

(* The writes of editors.                                                   *)
LEMMA EditTypeOK ==
    ASSUME TypeOK, NEW a \in Articles, NEW due \in BOOLEAN,
           NEW status \in {"other", "scheduled", "published", "deleted"},
           Edit(a, status, due), schedules' \in [Articles -> Nat]
    PROVE  TypeOK'
  <1>1. [status |-> status, due |-> due] \in Row
    BY DEF Row
  <1>2. row' \in [Articles -> Row]
    BY <1>1 DEF TypeOK, Edit
  <1> QED
    BY <1>2 DEF TypeOK, LockTypeOK, Edit

LEMMA EditorsTypeOK ==
    ASSUME TypeOK, NEW a \in Articles,
           Schedule(a) \/ Unpublish(a) \/ Publish(a) \/ Delete(a) \/ BecomeDue(a)
    PROVE  TypeOK'
  <1>1. row[a].due \in BOOLEAN
    BY DEF TypeOK, Row
  <1>2. CASE Schedule(a)
    <2>1. schedules' \in [Articles -> Nat]
      BY <1>2 DEF Schedule, TypeOK
    <2> QED
      BY <1>2, <2>1, EditTypeOK DEF Schedule
  <1>3. CASE Unpublish(a) \/ Publish(a) \/ Delete(a) \/ BecomeDue(a)
    <2>1. schedules' \in [Articles -> Nat]
      BY <1>3 DEF Unpublish, Publish, Delete, BecomeDue, TypeOK
    <2> QED
      BY <1>1, <1>3, <2>1, EditTypeOK DEF Unpublish, Publish, Delete, BecomeDue
  <1> QED
    BY <1>2, <1>3

LEMMA PublishTyping ==
    ASSUME TypeOK, NEW i \in Instances, NEW t \in Tenants, PublishTenant(i, t)
    PROVE  /\ row' \in [Articles -> Row]
           /\ sweep' \in [Instances -> Sweep]
  <1>1. /\ Listed(i, t) \in SUBSET Articles
        /\ sweep[i].todo \ Listed(i, t) \in SUBSET Articles
    BY DEF TypeOK, Sweep, Listed
  <1>2. \A a \in Articles : [row[a] EXCEPT !.status = "published"] \in Row
    BY DEF TypeOK, Row
  <1>3. row' \in [Articles -> Row]
    BY <1>2 DEF PublishTenant, TypeOK
  <1>4. \A S \in SUBSET Articles : Remaining(S) \in {"publish", "release"}
    BY DEF Remaining
  <1>5. sweep' \in [Instances -> Sweep]
    BY <1>1, <1>4, SweepTyping DEF PublishTenant
  <1> QED
    BY <1>3, <1>5

LEMMA SweepsTypeOK ==
    ASSUME TypeOK, NEW i \in Instances,
           \/ Tick(i) \/ AcquireUnanswered(i) \/ SweepStep(i) \/ QueryFails(i)
           \/ Crash(i) \/ Restart(i)
    PROVE  TypeOK'
  <1>1. CASE Tick(i)
    <2>1. [sweep[i] EXCEPT !.phase = "list"] \in Sweep
      BY DEF TypeOK, Sweep
    <2>2. sweep' \in [Instances -> Sweep]
      BY <1>1, <2>1 DEF Tick, TypeOK
    <2> QED
      BY <1>1, <2>2, LockTyping DEF Tick, TypeOK, history
  <1>2. CASE List(i)
    <2>1. DueArticles \in SUBSET Articles
      BY DEF DueArticles
    <2>2. sweep' \in [Instances -> Sweep]
      BY <1>2, <2>1, SweepTyping DEF List
    <2> QED
      BY <1>2, <2>2 DEF List, TypeOK, LockTypeOK, history
  <1>3. ASSUME NEW t \in Tenants, PublishTenant(i, t)
        PROVE  TypeOK'
    BY <1>3, PublishTyping DEF PublishTenant, TypeOK, LockTypeOK, history
  <1>4. CASE Announce(i)
    <2>1. sweep[i].todo \in SUBSET Articles
      BY DEF TypeOK, Sweep
    <2>2. sweep' \in [Instances -> Sweep]
      BY <1>4, <2>1, SweepTyping DEF Announce, Remaining
    <2>3. announced' \in [Articles -> Nat]
      BY <1>4 DEF Announce, TypeOK
    <2> QED
      BY <1>4, <2>2, <2>3 DEF Announce, TypeOK, LockTypeOK
  <1>5. CASE GiveBack(i)
    <2>1. sweep' \in [Instances -> Sweep]
      BY <1>5, NoSweepTyping DEF GiveBack, TypeOK
    <2>2. LockTypeOK' /\ errors' \in 0 .. MaxErrors
      BY <1>5, LockTyping, ErrorType DEF GiveBack, TypeOK, LockTypeOK
    <2> QED
      BY <1>5, <2>1, <2>2 DEF GiveBack, TypeOK, history
  <1>6. CASE QueryFails(i)
    <2>1. sweep' \in [Instances -> Sweep]
      BY <1>6, SweepTyping DEF QueryFails
    <2> QED
      BY <1>6, <2>1, ErrorType DEF QueryFails, TypeOK, LockTypeOK, history
  <1>7. CASE Crash(i)
    <2>1. sweep' \in [Instances -> Sweep]
      BY <1>7, NoSweepTyping DEF Crash, TypeOK
    <2>2. crashes' \in 0 .. MaxCrashes
      BY <1>7, BoundsAssumption DEF Crash, TypeOK
    <2> QED
      BY <1>7, <2>1, <2>2, LockTyping DEF Crash, TypeOK, history
  <1>8. CASE Restart(i)
    BY <1>8 DEF Restart, TypeOK, LockTypeOK, history
  <1>9. CASE AcquireUnanswered(i)
    BY <1>9, LockTyping, ErrorType DEF AcquireUnanswered, TypeOK, history
  <1> QED
    BY <1>1, <1>2, <1>3, <1>4, <1>5, <1>6, <1>7, <1>8, <1>9 DEF SweepStep

LEMMA StepTypeOK == TypeOK /\ [Next]_vars => TypeOK'
  <1> SUFFICES ASSUME TypeOK, [Next]_vars PROVE TypeOK'
    OBVIOUS
  <1>1. ASSUME NEW k \in Keys, LockLapses(k)
        PROVE  TypeOK'
    <2>1. LockTypeOK'
      BY <1>1 DEF LockLapses, Lapse, TypeOK, LockTypeOK
    <2> QED
      BY <1>1, <2>1 DEF LockLapses, TypeOK, history
  <1>2. CASE UNCHANGED vars
    BY <1>2 DEF vars, history, TypeOK, LockTypeOK
  <1> QED
    BY <1>1, <1>2, EditorsTypeOK, SweepsTypeOK DEF Next

(* The variables of the schedulers keep their types.                        *)
THEOREM TypeCorrect == Spec => []TypeOK
  <1>1. Init => TypeOK
    <2> SUFFICES ASSUME Init PROVE TypeOK
      OBVIOUS
    <2>1. LockTypeOK
      BY DEF Init, LockInit, LockTypeOK
    <2>2. [status |-> "other", due |-> FALSE] \in Row
      BY DEF Row
    <2> QED
      BY <2>1, <2>2, NoSweepTyping, BoundsAssumption DEF Init, TypeOK
  <1> QED
    BY <1>1, StepTypeOK, PTL DEF Spec

---------------------------------------------------------------------------------
(* A sweep at work owns the lock, and a sweep not at work has nothing left  *)
(* to publish or announce.                                                  *)
OwnerInv ==
    \A i \in Instances : Working(i) => lock[Key(i)] = i

LEMMA StepOwner ==
    ASSUME Shared, ~SlowSweeps, TypeOK, OwnerInv, [Next]_vars
    PROVE  OwnerInv'
  <1> USE DEF OwnerInv, Working, Key
  <1>1. Keys = {"redis"} /\ lock \in [Keys -> Instances \cup {"free"}]
    BY DEF Keys, TypeOK, LockTypeOK
  <1>2. ASSUME UNCHANGED <<lock, sweep>>
        PROVE  OwnerInv'
    BY <1>2
  <1>3. ASSUME NEW a \in Articles,
               Schedule(a) \/ Unpublish(a) \/ Publish(a) \/ Delete(a) \/ BecomeDue(a)
        PROVE  OwnerInv'
    BY <1>2, <1>3 DEF Schedule, Unpublish, Publish, Delete, BecomeDue, Edit
  <1>4. ASSUME NEW i \in Instances, Tick(i)
        PROVE  OwnerInv'
    <2>1. lock["redis"] = "free" /\ lock'["redis"] = i
      BY <1>1, <1>4 DEF Tick, Acquire
    <2>2. \A j \in Instances : j # i => sweep'[j] = sweep[j]
      BY <1>4 DEF Tick, TypeOK
    <2> QED
      BY <2>1, <2>2, FreeAssumption
  <1>5. ASSUME NEW i \in Instances, List(i) \/ Announce(i) \/ QueryFails(i)
                 \/ \E t \in Tenants : PublishTenant(i, t)
        PROVE  OwnerInv'
    <2>1. Working(i) /\ UNCHANGED lock
      BY <1>5 DEF List, Announce, QueryFails, PublishTenant, Phase
    <2>2. \A j \in Instances : j # i => sweep'[j] = sweep[j]
      BY <1>5 DEF List, Announce, QueryFails, PublishTenant, Continue, TypeOK
    <2> QED
      BY <2>1, <2>2
  <1>6. ASSUME NEW i \in Instances, GiveBack(i) \/ Crash(i)
        PROVE  OwnerInv'
    <2>1. sweep'[i] = NoSweep /\ \A j \in Instances : j # i => sweep'[j] = sweep[j]
      BY <1>6 DEF GiveBack, Crash, TypeOK
    <2>2. lock'["redis"] = lock["redis"] \/ lock["redis"] = i
      BY <1>1, <1>6 DEF GiveBack, Crash, Release, LoseEntries
    <2> QED
      BY <2>1, <2>2 DEF NoSweep
  <1>7. ASSUME NEW i \in Instances, Restart(i)
        PROVE  OwnerInv'
    BY <1>2, <1>7 DEF Restart
  <1>8. ASSUME NEW k \in Keys, LockLapses(k)
        PROVE  OwnerInv'
    <2>1. \A i \in Instances : ~(lock["redis"] = i /\ Working(i))
      BY <1>1, <1>8 DEF LockLapses, MayLapse
    <2>2. UNCHANGED sweep
      BY <1>8 DEF LockLapses
    <2> QED
      BY <2>1, <2>2
  <1>9. CASE UNCHANGED vars
    BY <1>2, <1>9 DEF vars
  <1>10. ASSUME NEW i \in Instances, AcquireUnanswered(i)
         PROVE  OwnerInv'
    <2>1. lock["redis"] = "free" /\ UNCHANGED sweep
      BY <1>10 DEF AcquireUnanswered, Acquire
    <2> QED
      BY <2>1, FreeAssumption
  <1> QED
    BY <1>3, <1>4, <1>5, <1>6, <1>7, <1>8, <1>9, <1>10 DEF Next, SweepStep

LEMMA OwnerInvariant ==
    ASSUME Shared, ~SlowSweeps
    PROVE  Spec => [](TypeOK /\ OwnerInv)
  <1>1. Init => OwnerInv
    BY DEF Init, OwnerInv, Working, NoSweep
  <1>2. TypeOK /\ OwnerInv /\ [Next]_vars => OwnerInv'
    BY StepOwner
  <1> QED
    BY <1>1, <1>2, TypeCorrect, PTL DEF Spec

LEMMA OwnersExclude ==
    Shared /\ OwnerInv => OneSweepAtATime
  BY DEF OwnerInv, OneSweepAtATime, Key

(* No two sweeps overlap, for any number of instances, crashes, late         *)
(* releases and lapsing entries, if the lock is shared and outlives a sweep. *)
THEOREM SweepsExclude ==
    ASSUME Shared, ~SlowSweeps
    PROVE  Spec => []OneSweepAtATime
  <1>1. OwnerInv => OneSweepAtATime
    BY OwnersExclude
  <1> QED
    BY <1>1, OwnerInvariant, PTL

---------------------------------------------------------------------------------
(* What a sweep still owes: an idle or ending sweep nothing, one that       *)
(* publishes no event, one that lists neither.                              *)
DutyInv ==
    \A i \in Instances :
        /\ sweep[i].phase \in {"idle", "list", "release"} => sweep[i].todo = {}
        /\ sweep[i].phase # "announce" => sweep[i].batch = {}

LEMMA StepDuty ==
    ASSUME TypeOK, DutyInv, [Next]_vars
    PROVE  DutyInv'
  <1> USE DEF DutyInv
  <1>1. ASSUME UNCHANGED sweep
        PROVE  DutyInv'
    BY <1>1
  <1>2. ASSUME NEW a \in Articles,
               Schedule(a) \/ Unpublish(a) \/ Publish(a) \/ Delete(a) \/ BecomeDue(a)
        PROVE  DutyInv'
    BY <1>1, <1>2 DEF Schedule, Unpublish, Publish, Delete, BecomeDue, Edit
  <1>3. ASSUME NEW i \in Instances, Tick(i)
        PROVE  DutyInv'
    BY <1>3 DEF Tick, Phase, TypeOK, Sweep
  <1>4. ASSUME NEW i \in Instances, List(i) \/ QueryFails(i)
        PROVE  DutyInv'
    BY <1>4 DEF List, QueryFails, Continue, TypeOK, Sweep
  <1>5. ASSUME NEW i \in Instances, NEW t \in Tenants, PublishTenant(i, t)
        PROVE  DutyInv'
    BY <1>5 DEF PublishTenant, Continue, Remaining, TypeOK, Sweep
  <1>6. ASSUME NEW i \in Instances, Announce(i)
        PROVE  DutyInv'
    BY <1>6 DEF Announce, Continue, Remaining, TypeOK, Sweep
  <1>7. ASSUME NEW i \in Instances, GiveBack(i) \/ Crash(i)
        PROVE  DutyInv'
    BY <1>7 DEF GiveBack, Crash, NoSweep, TypeOK, Sweep
  <1>8. ASSUME NEW i \in Instances, Restart(i)
        PROVE  DutyInv'
    BY <1>1, <1>8 DEF Restart
  <1>9. ASSUME NEW k \in Keys, LockLapses(k)
        PROVE  DutyInv'
    BY <1>1, <1>9 DEF LockLapses
  <1>10. CASE UNCHANGED vars
    BY <1>1, <1>10 DEF vars
  <1>11. ASSUME NEW i \in Instances, AcquireUnanswered(i)
         PROVE  DutyInv'
    BY <1>1, <1>11 DEF AcquireUnanswered
  <1> QED
    BY <1>2, <1>3, <1>4, <1>5, <1>6, <1>7, <1>8, <1>9, <1>10, <1>11 DEF Next, SweepStep

(* An article that is scheduled, or that a sweep has listed, will be         *)
(* announced once more for that schedule; a published batch is owed its      *)
(* event.  Announcements, owed ones included, never outnumber schedules.     *)
Awaits(a) == row[a].status = "scheduled" \/ \E i \in Instances : a \in sweep[i].todo
Owed(a)   == \E i \in Instances : a \in sweep[i].batch

One(p) == IF p THEN 1 ELSE 0

CreditInv ==
    \A a \in Articles : announced[a] + One(Owed(a)) + One(Awaits(a)) <= schedules[a]

LEMMA AloneAtWork ==
    ASSUME TypeOK, DutyInv, OneSweepAtATime, NEW i \in Instances, Working(i)
    PROVE  \A k \in Instances : k # i => sweep[k].todo = {} /\ sweep[k].batch = {}
  BY DEF TypeOK, Sweep, DutyInv, OneSweepAtATime, Working

(* One article: who waits for it and who owes it an event after a step.      *)
LEMMA CreditOf ==
    ASSUME TypeOK, CreditInv, NEW a \in Articles,
           announced'[a] = announced[a], schedules'[a] = schedules[a],
           Owed(a)' => Owed(a), Awaits(a)' => Awaits(a)
    PROVE  announced'[a] + One(Owed(a)') + One(Awaits(a)') <= schedules'[a]
  <1>1. announced[a] \in Nat /\ schedules[a] \in Nat
    BY DEF TypeOK
  <1>2. announced[a] + One(Owed(a)) + One(Awaits(a)) <= schedules[a]
    BY DEF CreditInv
  <1> QED
    BY <1>1, <1>2 DEF One

LEMMA CreditKept ==
    ASSUME TypeOK, CreditInv, UNCHANGED history,
           \A a \in Articles : (Owed(a)' => Owed(a)) /\ (Awaits(a)' => Awaits(a))
    PROVE  CreditInv'
  BY CreditOf DEF history, CreditInv

LEMMA EditsCredit ==
    ASSUME TypeOK, CreditInv, NEW b \in Articles,
           Schedule(b) \/ Unpublish(b) \/ Publish(b) \/ Delete(b) \/ BecomeDue(b)
    PROVE  CreditInv'
  <1>1. UNCHANGED <<sweep, announced>>
    BY DEF Schedule, Unpublish, Publish, Delete, BecomeDue, Edit
  <1>2. \A a \in Articles : Owed(a)' <=> Owed(a)
    BY <1>1 DEF Owed
  <1>3. \A a \in Articles : a # b => row'[a] = row[a]
    BY DEF Schedule, Unpublish, Publish, Delete, BecomeDue, Edit, TypeOK
  <1>4. CASE Schedule(b)
    <2> SUFFICES ASSUME NEW a \in Articles
                 PROVE  announced'[a] + One(Owed(a)') + One(Awaits(a)') <= schedules'[a]
      BY DEF CreditInv
    <2>1. CASE a = b
      <3>1. schedules'[a] = schedules[a] + 1
        BY <1>4, <2>1 DEF Schedule, TypeOK
      <3>2. announced[a] + One(Owed(a)) + One(Awaits(a)) <= schedules[a]
        BY DEF CreditInv
      <3>3. announced[a] \in Nat /\ schedules[a] \in Nat
        BY DEF TypeOK
      <3>4. announced'[a] = announced[a] /\ (Owed(a)' <=> Owed(a))
        BY <1>1, <1>2
      <3> QED
        BY <3>1, <3>2, <3>3, <3>4 DEF One
    <2>2. CASE a # b
      <3>1. schedules'[a] = schedules[a] /\ announced'[a] = announced[a]
        BY <1>1, <1>4, <2>2 DEF Schedule, TypeOK
      <3>2. Awaits(a)' => Awaits(a)
        BY <1>1, <1>3, <2>2 DEF Awaits
      <3> QED
        BY <1>2, <3>1, <3>2, CreditOf
    <2> QED
      BY <2>1, <2>2
  <1>5. CASE Unpublish(b) \/ Publish(b) \/ Delete(b) \/ BecomeDue(b)
    <2>1. row'[b].status = "scheduled" => row[b].status = "scheduled"
      BY <1>5 DEF Unpublish, Publish, Delete, BecomeDue, Edit, TypeOK
    <2>2. \A a \in Articles : Awaits(a)' => Awaits(a)
      BY <1>1, <1>3, <2>1 DEF Awaits
    <2>3. UNCHANGED history
      BY <1>1, <1>5 DEF Unpublish, Publish, Delete, BecomeDue, history
    <2> QED
      BY <1>2, <2>2, <2>3, CreditKept
  <1> QED
    BY <1>4, <1>5

LEMMA PublishCredit ==
    ASSUME TypeOK, DutyInv, OneSweepAtATime, CreditInv,
           NEW i \in Instances, NEW t \in Tenants, PublishTenant(i, t)
    PROVE  CreditInv'
  <1> DEFINE rest == sweep[i].todo \ Listed(i, t)
  <1>1. /\ sweep'[i].todo = rest
        /\ sweep'[i].batch \in {Listed(i, t), {}}
        /\ \A k \in Instances : k # i => sweep'[k] = sweep[k]
    BY DEF PublishTenant, Continue, TypeOK
  <1>2. \A k \in Instances : k # i => sweep[k].todo = {} /\ sweep[k].batch = {}
    BY AloneAtWork DEF PublishTenant, Phase, Working
  <1> SUFFICES ASSUME NEW a \in Articles
               PROVE  announced'[a] + One(Owed(a)') + One(Awaits(a)') <= schedules'[a]
    BY DEF CreditInv
  <1>3. announced'[a] = announced[a] /\ schedules'[a] = schedules[a]
    BY DEF PublishTenant, history
  <1>4. CASE a \in Listed(i, t)
    <2>1. Awaits(a)
      BY <1>4 DEF Awaits, Listed
    <2>2. row'[a].status # "scheduled"
      BY <1>4 DEF PublishTenant, TypeOK, Row
    <2>3. ~Awaits(a)'
      BY <1>1, <1>2, <1>4, <2>2 DEF Awaits
    <2>4. announced[a] + One(Owed(a)) + One(Awaits(a)) <= schedules[a]
      BY DEF CreditInv
    <2>5. announced[a] \in Nat /\ schedules[a] \in Nat
      BY DEF TypeOK
    <2> QED
      BY <1>3, <2>1, <2>3, <2>4, <2>5 DEF One
  <1>5. CASE a \notin Listed(i, t)
    <2>1. row'[a] = row[a]
      BY <1>5 DEF PublishTenant
    <2>2. Awaits(a)' => Awaits(a)
      BY <1>1, <2>1 DEF Awaits
    <2>3. Owed(a)' => Owed(a)
      BY <1>1, <1>5 DEF Owed
    <2> QED
      BY <1>3, <2>2, <2>3, CreditOf
  <1> QED
    BY <1>4, <1>5

LEMMA AnnounceCredit ==
    ASSUME TypeOK, DutyInv, OneSweepAtATime, CreditInv,
           NEW i \in Instances, Announce(i)
    PROVE  CreditInv'
  <1>1. /\ sweep'[i].todo = sweep[i].todo
        /\ sweep'[i].batch = {}
        /\ \A k \in Instances : k # i => sweep'[k] = sweep[k]
    BY DEF Announce, Continue, TypeOK
  <1>2. \A k \in Instances : k # i => sweep[k].batch = {}
    BY AloneAtWork DEF Announce, Phase, Working
  <1> SUFFICES ASSUME NEW a \in Articles
               PROVE  announced'[a] + One(Owed(a)') + One(Awaits(a)') <= schedules'[a]
    BY DEF CreditInv
  <1>3. schedules'[a] = schedules[a] /\ row'[a] = row[a]
    BY DEF Announce
  <1>4. Awaits(a)' => Awaits(a)
    BY <1>1, <1>3 DEF Awaits
  <1>5. ~Owed(a)'
    BY <1>1, <1>2 DEF Owed
  <1>6. CASE a \in sweep[i].batch
    <2>1. Owed(a)
      BY <1>6 DEF Owed
    <2>2. announced'[a] = announced[a] + 1
      BY <1>6 DEF Announce
    <2>3. announced[a] + One(Owed(a)) + One(Awaits(a)) <= schedules[a]
      BY DEF CreditInv
    <2>4. announced[a] \in Nat /\ schedules[a] \in Nat
      BY DEF TypeOK
    <2> QED
      BY <1>3, <1>4, <1>5, <2>1, <2>2, <2>3, <2>4 DEF One
  <1>7. CASE a \notin sweep[i].batch
    <2>1. announced'[a] = announced[a]
      BY <1>7 DEF Announce
    <2> QED
      BY <1>3, <1>4, <1>5, <2>1, CreditOf
  <1> QED
    BY <1>6, <1>7

LEMMA StepCredit ==
    ASSUME TypeOK, DutyInv, OneSweepAtATime, CreditInv, [Next]_vars
    PROVE  CreditInv'
  <1>1. ASSUME UNCHANGED <<row, sweep, history>>
        PROVE  CreditInv'
    BY <1>1, CreditKept DEF Owed, Awaits
  <1>2. ASSUME NEW i \in Instances, Tick(i)
        PROVE  CreditInv'
    <2>1. \A k \in Instances : sweep'[k].todo = sweep[k].todo /\ sweep'[k].batch = sweep[k].batch
      BY <1>2 DEF Tick, TypeOK, Sweep
    <2> QED
      BY <1>2, <2>1, CreditKept DEF Tick, Owed, Awaits
  <1>3. ASSUME NEW i \in Instances, List(i)
        PROVE  CreditInv'
    <2>1. /\ sweep'[i].todo = DueArticles
          /\ sweep'[i].batch = {}
          /\ \A k \in Instances : k # i => sweep'[k] = sweep[k]
      BY <1>3 DEF List, Continue, TypeOK
    <2>2. UNCHANGED <<row, history>>
      BY <1>3 DEF List
    <2>3. \A a \in Articles : Owed(a)' => Owed(a)
      BY <2>1 DEF Owed
    <2>4. \A a \in Articles : Awaits(a)' => Awaits(a)
      BY <2>1, <2>2 DEF Awaits, DueArticles
    <2> QED
      BY <2>2, <2>3, <2>4, CreditKept
  <1>4. ASSUME NEW i \in Instances, QueryFails(i) \/ GiveBack(i) \/ Crash(i)
        PROVE  CreditInv'
    <2>1. /\ sweep'[i].todo = {}
          /\ sweep'[i].batch = {}
          /\ \A k \in Instances : k # i => sweep'[k] = sweep[k]
      BY <1>4 DEF QueryFails, GiveBack, Crash, NoSweep, Continue, TypeOK
    <2>2. UNCHANGED <<row, history>>
      BY <1>4 DEF QueryFails, GiveBack, Crash
    <2> QED
      BY <2>1, <2>2, CreditKept DEF Owed, Awaits
  <1>5. ASSUME NEW i \in Instances, Restart(i)
        PROVE  CreditInv'
    BY <1>1, <1>5 DEF Restart
  <1>6. ASSUME NEW k \in Keys, LockLapses(k)
        PROVE  CreditInv'
    BY <1>1, <1>6 DEF LockLapses
  <1>7. CASE UNCHANGED vars
    BY <1>1, <1>7 DEF vars
  <1>8. ASSUME NEW i \in Instances, AcquireUnanswered(i)
        PROVE  CreditInv'
    BY <1>1, <1>8 DEF AcquireUnanswered
  <1> QED
    BY <1>2, <1>3, <1>4, <1>5, <1>6, <1>7, <1>8, EditsCredit, PublishCredit, AnnounceCredit
       DEF Next, SweepStep

(* However editors withdraw, reschedule and delete articles between the      *)
(* steps of a sweep, sweeps announce an article at most once for each time   *)
(* it was scheduled, if the lock is shared and outlives a sweep.             *)
THEOREM AnnouncementsCounted ==
    ASSUME Shared, ~SlowSweeps
    PROVE  Spec => []AnnouncedOncePerSchedule
  <1>1. Init => DutyInv /\ CreditInv
    <2> SUFFICES ASSUME Init PROVE DutyInv /\ CreditInv
      OBVIOUS
    <2>1. DutyInv
      BY DEF Init, DutyInv, NoSweep
    <2>2. \A a \in Articles : ~Owed(a) /\ ~Awaits(a)
      BY DEF Init, Owed, Awaits, NoSweep
    <2>3. CreditInv
      BY <2>2 DEF Init, CreditInv, One
    <2> QED
      BY <2>1, <2>3
  <1>2. TypeOK /\ DutyInv /\ [Next]_vars => DutyInv'
    BY StepDuty
  <1>3. TypeOK /\ DutyInv /\ OneSweepAtATime /\ CreditInv /\ [Next]_vars => CreditInv'
    BY StepCredit
  <1>4. TypeOK /\ CreditInv => AnnouncedOncePerSchedule
    BY DEF TypeOK, CreditInv, One, AnnouncedOncePerSchedule
  <1> QED
    BY <1>1, <1>2, <1>3, <1>4, TypeCorrect, SweepsExclude, PTL DEF Spec
=================================================================================
