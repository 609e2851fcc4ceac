---------------------------- MODULE PublishScheduler ----------------------------
(***************************************************************************)
(* The publish schedulers of several instances over one articles table.     *)
(* On a tick the loop takes the distributed lock, lists the scheduled       *)
(* articles that are due, publishes them tenant by tenant and dispatches    *)
(* one event per tenant, then gives the lock back.  Editors go on working   *)
(* between those steps.  A tick that finds the lock taken does nothing.     *)
(*                                                                          *)
(* A row keeps what the sweep depends on: "other" stands for draft, pending,*)
(* archived and trash, and "due" for scheduled_at <= now.  schedules and    *)
(* announced are histories.                                                 *)
(***************************************************************************)
EXTENDS DistributedLock, Integers

CONSTANTS
    Articles,     \* primary keys
    Tenants,      \* tenants
    TenantOf,     \* TenantOf[a]: tenant of article a
    SlowSweeps,   \* TRUE: a sweep may take longer than the lock lives
    MaxSchedules, \* bound: how often each article is scheduled
    MaxCrashes,   \* bound: processes that end
    MaxErrors     \* bound: database and Redis calls that fail

ASSUME TenantAssumption == TenantOf \in [Articles -> Tenants]
ASSUME SlowAssumption == SlowSweeps \in BOOLEAN
ASSUME BoundsAssumption == MaxSchedules \in Nat /\ MaxCrashes \in Nat /\ MaxErrors \in Nat

VARIABLES
    row,          \* row[a]: the article
    up,           \* up: the instances whose scheduler runs
    sweep,        \* sweep[i]: the sweep of instance i
    schedules,    \* schedules[a]: times a was scheduled
    announced,    \* announced[a]: events of sweeps that name a
    crashes,      \* processes ended so far
    errors        \* failed calls so far

history == <<schedules, announced>>
vars    == <<lock, row, up, sweep, history, crashes, errors>>

Row   == [status : {"other", "scheduled", "published", "deleted"}, due : BOOLEAN]
Sweep == [phase : {"idle", "list", "publish", "announce", "release"},
          todo : SUBSET Articles, batch : SUBSET Articles]

NoSweep == [phase |-> "idle", todo |-> {}, batch |-> {}]

TypeOK ==
    /\ LockTypeOK
    /\ row \in [Articles -> Row]
    /\ up \in SUBSET Instances
    /\ sweep \in [Instances -> Sweep]
    /\ schedules \in [Articles -> Nat]
    /\ announced \in [Articles -> Nat]
    /\ crashes \in 0 .. MaxCrashes
    /\ errors \in 0 .. MaxErrors

Init ==
    /\ LockInit
    /\ row = [a \in Articles |-> [status |-> "other", due |-> FALSE]]
    /\ up = Instances
    /\ sweep = [i \in Instances |-> NoSweep]
    /\ schedules = [a \in Articles |-> 0]
    /\ announced = [a \in Articles |-> 0]
    /\ crashes = 0
    /\ errors = 0

Error ==
    /\ errors < MaxErrors
    /\ errors' = errors + 1

---------------------------------------------------------------------------------
(* Editors: the committed effect of the workflow methods on a row.  Their    *)
(* check of the state machine was made in an earlier read, so that any of   *)
(* them may land on any row that is not deleted.                            *)

Edit(a, status, due) ==
    /\ row[a].status # "deleted"
    /\ row' = [row EXCEPT ![a] = [status |-> status, due |-> due]]
    /\ UNCHANGED <<lock, up, sweep, announced, crashes, errors>>

Schedule(a) ==
    /\ schedules[a] < MaxSchedules
    /\ schedules' = [schedules EXCEPT ![a] = @ + 1]
    /\ \E due \in BOOLEAN : Edit(a, "scheduled", due)

Unpublish(a) ==
    /\ Edit(a, "other", row[a].due)
    /\ UNCHANGED schedules

Publish(a) ==
    /\ Edit(a, "published", row[a].due)
    /\ UNCHANGED schedules

Delete(a) ==
    /\ Edit(a, "deleted", row[a].due)
    /\ UNCHANGED schedules

BecomeDue(a) ==
    /\ row[a].status = "scheduled"
    /\ ~row[a].due
    /\ Edit(a, "scheduled", TRUE)
    /\ UNCHANGED schedules

---------------------------------------------------------------------------------
(* A sweep.                                                                 *)

Phase(i, p) == sweep[i].phase = p

Tick(i) ==
    /\ i \in up
    /\ Phase(i, "idle")
    /\ Acquire(i)
    /\ sweep' = [sweep EXCEPT ![i].phase = "list"]
    /\ UNCHANGED <<row, up, history, crashes, errors>>

(* SET NX takes the lock but its answer is lost: Tick returns the error and  *)
(* nobody gives the entry back.                                             *)
AcquireUnanswered(i) ==
    /\ Shared
    /\ i \in up
    /\ Phase(i, "idle")
    /\ Acquire(i)
    /\ Error
    /\ UNCHANGED <<row, up, sweep, history, crashes>>

DueWhateverStatus == {a \in Articles : row[a].status # "deleted" /\ row[a].due}

DueArticles == {a \in Articles : row[a].status = "scheduled" /\ row[a].due}

Continue(i, todo, batch, phase) ==
    sweep' = [sweep EXCEPT ![i] = [phase |-> phase, todo |-> todo, batch |-> batch]]

List(i) ==
    /\ Phase(i, "list")
    /\ Continue(i, DueArticles, {}, IF DueArticles = {} THEN "release" ELSE "publish")
    /\ UNCHANGED <<lock, row, up, history, crashes, errors>>

(* BulkPublish of the articles listed for one tenant: every row that is not  *)
(* deleted becomes published, whatever its status is by now.  The event names*)
(* all the listed articles, and is left out only if no row was updated.     *)
Listed(i, t) == {a \in sweep[i].todo : TenantOf[a] = t}

Remaining(todo) == IF todo = {} THEN "release" ELSE "publish"

PublishTenant(i, t) ==
    /\ Phase(i, "publish")
    /\ Listed(i, t) # {}
    /\ LET live == {a \in Listed(i, t) : row[a].status # "deleted"}
           rest == sweep[i].todo \ Listed(i, t) IN
       /\ row' = [a \in Articles |->
             IF a \in live THEN [row[a] EXCEPT !.status = "published"] ELSE row[a]]
       /\ IF live # {}
          THEN Continue(i, rest, Listed(i, t), "announce")
          ELSE Continue(i, rest, {}, Remaining(rest))
    /\ UNCHANGED <<lock, up, history, crashes, errors>>

(* Dispatch of the event of a batch.                                        *)
Announce(i) ==
    /\ Phase(i, "announce")
    /\ announced' = [a \in Articles |->
          IF a \in sweep[i].batch THEN announced[a] + 1 ELSE announced[a]]
    /\ Continue(i, sweep[i].todo, {}, Remaining(sweep[i].todo))
    /\ UNCHANGED <<lock, row, up, schedules, crashes, errors>>

(* A query fails: the sweep ends there and gives the lock back.             *)
QueryFails(i) ==
    /\ sweep[i].phase \in {"list", "publish"}
    /\ Error
    /\ Continue(i, {}, {}, "release")
    /\ UNCHANGED <<lock, row, up, history, crashes>>

(* Releasing a Redis lock fails when the five seconds of the context of the  *)
(* tick are over; releasing a MemoryLock never does.                        *)
GiveBack(i) ==
    /\ Phase(i, "release")
    /\ sweep' = [sweep EXCEPT ![i] = NoSweep]
    /\ \/ Release(i) /\ UNCHANGED errors
       \/ Shared /\ Error /\ UNCHANGED lock
    /\ UNCHANGED <<row, up, history, crashes>>

Working(i) == sweep[i].phase \in {"list", "publish", "announce"}

LapseNever(k) == FALSE

MayLapse(k) == SlowSweeps \/ \A i \in Instances : ~(lock[k] = i /\ Working(i))

LockLapses(k) ==
    /\ MayLapse(k)
    /\ Lapse(k)
    /\ UNCHANGED <<row, up, sweep, history, crashes, errors>>

(* The process ends, crashed or shut down: Stop waits ten milliseconds for   *)
(* the sweep, not for its end.                                              *)
Crash(i) ==
    /\ i \in up
    /\ crashes < MaxCrashes
    /\ crashes' = crashes + 1
    /\ up' = up \ {i}
    /\ sweep' = [sweep EXCEPT ![i] = NoSweep]
    /\ LoseEntries(i)
    /\ UNCHANGED <<row, history, errors>>

Restart(i) ==
    /\ i \notin up
    /\ up' = up \cup {i}
    /\ UNCHANGED <<lock, row, sweep, history, crashes, errors>>

SweepStep(i) ==
    \/ List(i)
    \/ \E t \in Tenants : PublishTenant(i, t)
    \/ Announce(i)
    \/ GiveBack(i)

Next ==
    \/ \E a \in Articles :
          Schedule(a) \/ Unpublish(a) \/ Publish(a) \/ Delete(a) \/ BecomeDue(a)
    \/ \E i \in Instances :
          \/ Tick(i) \/ AcquireUnanswered(i) \/ SweepStep(i) \/ QueryFails(i)
          \/ Crash(i) \/ Restart(i)
    \/ \E k \in Keys : LockLapses(k)

(* The ticker goes on firing, a sweep goes on, an entry's time to live ends, *)
(* a supervisor restarts the process and time passes.                       *)
Fairness ==
    /\ \A i \in Instances :
          WF_vars(Tick(i)) /\ WF_vars(SweepStep(i)) /\ WF_vars(Restart(i))
    /\ \A k \in Keys : WF_vars(LockLapses(k))
    /\ \A a \in Articles : WF_vars(BecomeDue(a))

Spec     == Init /\ [][Next]_vars
FairSpec == Spec /\ Fairness

---------------------------------------------------------------------------------
(* Properties.                                                              *)

(* One instance sweeps at a time (PublishScheduler: the lock coordinates     *)
(* instances to avoid publishing twice), across crashes, entries that lapse  *)
(* and releases that come late; when sweeps end within the time to live of   *)
(* a lock that the instances share.                                         *)
OneSweepAtATime ==
    \A i, k \in Instances : Working(i) /\ Working(k) => i = k

(* Each time an article is scheduled, sweeps announce it at most once.       *)
AnnouncedOncePerSchedule ==
    \A a \in Articles : announced[a] <= schedules[a]

(* A scheduled article is eventually published by a sweep or withdrawn by an *)
(* editor, although the lock may be left behind by a dead process or a late  *)
(* release, queries fail and instances crash.                                *)
ScheduledIsPublished ==
    \A a \in Articles : row[a].status = "scheduled" ~> row[a].status # "scheduled"
=================================================================================
