--------------------------- MODULE WebhookQueueProofs ---------------------------
(***************************************************************************)
(* Theorems about WebhookQueue for every set of instances, webhooks and     *)
(* events and every retry budget.                                           *)
(***************************************************************************)
EXTENDS WebhookQueue, FiniteSetTheorems, TLAPS

(* The value a job becomes stays a job.                                      *)
LEMMA JobUpdates ==
    ASSUME NEW j \in Job
    PROVE  /\ \A a \in Answers \cup {"gone"} :
                [j EXCEPT !.phase = "answered", !.answer = a] \in Job
           /\ \A p \in {"sending", "logging"} : [j EXCEPT !.phase = p] \in Job
  BY DEF Job

LEMMA RowUpdates ==
    ASSUME NEW row \in Row
    PROVE  /\ [row EXCEPT !.status = "pending"] \in Row
           /\ ClaimedRow(row) \in Row
           /\ [row EXCEPT !.due = TRUE] \in Row
           /\ NoRow \in Row
           /\ FreshRow \in Row
  BY DEF Row, Status, Terminal, ClaimedRow, NoRow, FreshRow

LEMMA OutcomeIsStatus ==
    ASSUME NEW j
    PROVE  Outcome(j) \in Terminal \cup {"pending"}
  BY DEF Outcome, Terminal

LEMMA ResolvedRowIsRow ==
    ASSUME TypeOK, NEW j \in jobs
    PROVE  ResolvedRow(j) \in Row
  <1>1. j \in Job /\ rows[j.row] \in Row
    BY DEF TypeOK, Job
  <1>2. j.attempts + 1 \in Nat /\ rows[j.row].due \in BOOLEAN
    BY <1>1 DEF Job, Row
  <1>3. Outcome(j) \in Status
    BY OutcomeIsStatus DEF Status
  <1> QED
    BY <1>2, <1>3 DEF ResolvedRow, Row

LEMMA DbErrorType ==
    ASSUME TypeOK
    PROVE  DbError => dbErrors' \in 0 .. MaxDbErrors
  BY BoundsAssumption DEF TypeOK, DbError

LEMMA ProcessGoneType ==
    ASSUME TypeOK, NEW i \in Instances, ProcessGone(i)
    PROVE  /\ mode' \in [Instances -> {"down", "up", "draining"}]
           /\ picked' \in [Instances -> SUBSET [row : Deliveries, attempts : Nat]]
           /\ jobs' \in SUBSET Job
  BY DEF TypeOK, ProcessGone

(* Typing is kept by every step of the four groups of actions.               *)
LEMMA ManagementTypeOK ==
    ASSUME TypeOK, NEW w \in Webhooks, Management(w)
    PROVE  TypeOK'
  <1> USE DEF TypeOK, tables, workers, history, bounds, HookLife
  <1>1. CASE Create(w)
    BY <1>1 DEF Create
  <1>2. CASE Delete(w)
    BY <1>2 DEF Delete
  <1>3. CASE DeleteLogs(w)
    <2>1. logs' \in [Deliveries -> Nat]
      BY <1>3 DEF DeleteLogs
    <2> QED
      BY <1>3, <2>1 DEF DeleteLogs
  <1>4. CASE DeleteDeliveries(w)
    <2>1. rows' \in [Deliveries -> Row]
      BY <1>4, RowUpdates DEF DeleteDeliveries
    <2> QED
      BY <1>4, <2>1 DEF DeleteDeliveries
  <1>5. CASE CleanupFails(w)
    BY <1>5 DEF CleanupFails
  <1> QED
    BY <1>1, <1>2, <1>3, <1>4, <1>5 DEF Management

LEMMA DispatchingTypeOK ==
    ASSUME TypeOK, NEW e \in Events, Dispatching(e)
    PROVE  TypeOK'
  <1> USE DEF TypeOK, tables, workers, history, bounds
  <1>1. CASE Dispatch(e)
    BY <1>1 DEF Dispatch
  <1>2. ASSUME NEW w \in Webhooks, Enqueue(e, w)
        PROVE  TypeOK'
    <2>1. <<e, w>> \in Deliveries /\ FreshRow \in Row
      BY RowUpdates DEF Deliveries, NoRow, Row, FreshRow, Status
    <2>2. rows' \in [Deliveries -> Row]
      BY <1>2, <2>1 DEF Enqueue
    <2>3. dispatch' \in [Events -> [started : BOOLEAN, todo : SUBSET Webhooks]]
      BY <1>2 DEF Enqueue
    <2> QED
      BY <1>2, <2>2, <2>3 DEF Enqueue
  <1>3. ASSUME NEW w \in Webhooks, EnqueueFails(e, w)
        PROVE  TypeOK'
    BY <1>3 DEF EnqueueFails
  <1> QED
    BY <1>1, <1>2, <1>3 DEF Dispatching

LEMMA WorkerTypeOK ==
    ASSUME TypeOK, NEW i \in Instances, Worker(i)
    PROVE  TypeOK'
  <1> USE DEF TypeOK, tables, workers, history, bounds
  <1>1. CASE Start(i)
    <2>1. rows' \in [Deliveries -> Row]
      <3>1. CASE UNCHANGED rows
        BY <3>1
      <3>2. CASE rows' = [r \in Deliveries |-> IF RequeueStale(r)
                            THEN [rows[r] EXCEPT !.status = "pending"] ELSE rows[r]]
        <4>1. \A r \in Deliveries : [rows[r] EXCEPT !.status = "pending"] \in Row
          BY RowUpdates
        <4> QED
          BY <3>2, <4>1
      <3> QED
        BY <1>1, <3>1, <3>2 DEF Start
    <2>2. requeued' \in [Deliveries -> Nat]
      BY <1>1 DEF Start
    <2>3. dbErrors' \in 0 .. MaxDbErrors
      BY <1>1, DbErrorType DEF Start
    <2> QED
      BY <1>1, <2>1, <2>2, <2>3 DEF Start
  <1>2. CASE Stop(i)
    BY <1>2, BoundsAssumption DEF Stop
  <1>3. CASE Exit(i)
    BY <1>3, ProcessGoneType DEF Exit
  <1>4. CASE Crash(i)
    <2>1. downs' \in 0 .. MaxDowns
      BY <1>4, BoundsAssumption DEF Crash
    <2> QED
      BY <1>4, <2>1, ProcessGoneType DEF Crash
  <1>5. CASE ClaimRead(i)
    <2>1. PICK S \in SUBSET Due : picked' = [picked EXCEPT ![i] =
                {[row |-> r, attempts |-> rows[r].attempts] : r \in S}]
      BY <1>5 DEF ClaimRead
    <2>2. \A r \in S : r \in Deliveries /\ rows[r].attempts \in Nat
      BY DEF Due, Row
    <2>3. {[row |-> r, attempts |-> rows[r].attempts] : r \in S}
              \in SUBSET [row : Deliveries, attempts : Nat]
      BY <2>2
    <2>4. picked' \in [Instances -> SUBSET [row : Deliveries, attempts : Nat]]
      BY <2>1, <2>3
    <2> QED
      BY <1>5, <2>4 DEF ClaimRead
  <1>6. CASE ClaimCommit(i)
    <2>1. rows' \in [Deliveries -> Row]
      BY <1>6, RowUpdates DEF ClaimCommit
    <2>2. claims' \in [Deliveries -> Nat]
      BY <1>6 DEF ClaimCommit
    <2>3. \A p \in Won(i) :
             [inst |-> i, row |-> p.row, ticket |-> claims[p.row] + 1,
              attempts |-> p.attempts, phase |-> "claimed", answer |-> "none"] \in Job
      BY DEF Won, Job
    <2>4. jobs' \in SUBSET Job
      BY <1>6, <2>3 DEF ClaimCommit
    <2> QED
      BY <1>6, <2>1, <2>2, <2>4 DEF ClaimCommit
  <1>7. CASE ClaimRollback(i)
    BY <1>7, DbErrorType DEF ClaimRollback
  <1> QED
    BY <1>1, <1>2, <1>3, <1>4, <1>5, <1>6, <1>7 DEF Worker

LEMMA JobStepTypeOK ==
    ASSUME TypeOK, NEW j \in jobs, JobStep(j)
    PROVE  TypeOK'
  <1> USE DEF TypeOK, tables, workers, history, bounds
  <1>0. j \in Job /\ j.row \in Deliveries
    BY DEF Job
  <1>1. CASE LookupFails(j)
    <2>1. jobs' \in SUBSET Job
      <3>1. [j EXCEPT !.phase = "answered", !.answer = "gone"] \in Job
        BY <1>0, JobUpdates
      <3> QED
        BY <1>1, <3>1 DEF LookupFails, Replace
    <2>2. dbErrors' \in 0 .. MaxDbErrors
      BY <1>1, DbErrorType DEF LookupFails
    <2> QED
      BY <1>1, <2>1, <2>2 DEF LookupFails
  <1>a. CASE LookupFinds(j)
    <2>1. [j EXCEPT !.phase = "sending"] \in Job
      BY <1>0, JobUpdates
    <2> QED
      BY <1>a, <2>1 DEF LookupFinds, Replace
  <1>2. ASSUME NEW answer \in Answers, Attempt(j, answer)
        PROVE  TypeOK'
    <2>1. jobs' \in SUBSET Job
      <3>1. [j EXCEPT !.phase = "answered", !.answer = answer] \in Job
        BY <1>0, JobUpdates
      <3> QED
        BY <1>2, <3>1 DEF Attempt, Replace
    <2>2. sent' \in [Deliveries -> Nat] /\ acked' \in SUBSET Deliveries
      BY <1>0, <1>2 DEF Attempt
    <2> QED
      BY <1>2, <2>1, <2>2 DEF Attempt
  <1>3. CASE Complete(j)
    <2>1. rows' \in [Deliveries -> Row]
      <3>1. ResolvedRow(j) \in Row
        BY ResolvedRowIsRow
      <3>2. rows' = rows \/ rows' = [rows EXCEPT ![j.row] = ResolvedRow(j)]
        BY <1>3 DEF Complete
      <3> QED
        BY <1>0, <3>1, <3>2
    <2>2. jobs' \in SUBSET Job
      <3>1. [j EXCEPT !.phase = "logging"] \in Job
        BY <1>0, JobUpdates
      <3> QED
        BY <1>0, <1>3, <3>1 DEF Complete, AfterComplete, Replace
    <2>3. dbErrors' \in 0 .. MaxDbErrors
      BY <1>3, DbErrorType DEF Complete
    <2> QED
      BY <1>3, <2>1, <2>2, <2>3 DEF Complete
  <1>4. CASE WriteLog(j)
    <2>1. logs' \in [Deliveries -> Nat]
      <3>1. logs' = logs \/ logs' = [logs EXCEPT ![j.row] = @ + 1]
        BY <1>4 DEF WriteLog
      <3>2. logs[j.row] + 1 \in Nat
        BY <1>0
      <3> QED
        BY <1>0, <3>1, <3>2
    <2>2. dbErrors' \in 0 .. MaxDbErrors
      BY <1>4, DbErrorType DEF WriteLog
    <2> QED
      BY <1>4, <2>1, <2>2 DEF WriteLog
  <1> QED
    BY <1>1, <1>a, <1>2, <1>3, <1>4 DEF JobStep

LEMMA NextTypeOK == TypeOK /\ [Next]_vars => TypeOK'
  <1> SUFFICES ASSUME TypeOK, [Next]_vars PROVE TypeOK'
    OBVIOUS
  <1>1. ASSUME NEW r \in Deliveries, BecomeDue(r)
        PROVE  TypeOK'
    <2>1. rows' \in [Deliveries -> Row]
      BY <1>1, RowUpdates DEF TypeOK, BecomeDue
    <2> QED
      BY <1>1, <2>1 DEF TypeOK, BecomeDue, workers, history, bounds
  <1>2. CASE UNCHANGED vars
    BY <1>2 DEF TypeOK, vars, tables, workers, history, bounds
  <1> QED
    BY <1>1, <1>2, ManagementTypeOK, DispatchingTypeOK, WorkerTypeOK, JobStepTypeOK
       DEF Next

(* Every reachable state is well typed: in particular no row leaves the      *)
(* domain of statuses and every goroutine works on a row of the table.       *)
THEOREM TypeCorrect == Spec => []TypeOK
  <1>1. Init => TypeOK
    BY BoundsAssumption
       DEF Init, TypeOK, HookLife, NoRow, Row, Status
  <1> QED
    BY <1>1, NextTypeOK, PTL DEF Spec

---------------------------------------------------------------------------------
(* A row that Dispatch has not inserted yet.                                 *)
Unused(r) == ~dispatch[r[1]].started \/ r[2] \in dispatch[r[1]].todo

FreshInv ==
    /\ \A e \in Events : dispatch[e].started \/ dispatch[e].todo = {}
    /\ \A r \in Deliveries : Unused(r) =>
          /\ rows[r] = NoRow
          /\ sent[r] = 0
          /\ \A i \in Instances : \A p \in picked[i] : p.row # r
          /\ \A j \in jobs : j.row # r

(* The retry count never exceeds the requests made, in the row and in every  *)
(* copy of it that a transaction or a goroutine still holds.                 *)
RowBudget(r) ==
    /\ rows[r].status \in {"pending", "delivering"} =>
          rows[r].attempts <= sent[r] /\ rows[r].attempts < MaxAttempts
    /\ rows[r].status = "exhausted" => sent[r] >= MaxAttempts
    /\ rows[r].status = "success" => r \in acked
    /\ rows[r].attempts <= MaxAttempts

PickBudget(p) == p.attempts <= sent[p.row] /\ p.attempts < MaxAttempts

JobBudget(j) ==
    /\ j.attempts <= sent[j.row]
    /\ j.attempts < MaxAttempts
    /\ j.phase \notin {"claimed", "sending"} => j.answer # "none"
    /\ j.answer \in Answers => j.attempts + 1 <= sent[j.row]
    /\ j.answer = "ok" => j.row \in acked

BudgetInv ==
    /\ \A r \in Deliveries : RowBudget(r)
    /\ \A i \in Instances : \A p \in picked[i] : PickBudget(p)
    /\ \A j \in jobs : JobBudget(j)

(* With a single instance: nothing of a process that is down is left, a row  *)
(* picked by the open transaction is still as it was read, and a row in      *)
(* delivering belongs to at most one job.                                    *)
PickInv(i) ==
    /\ mode[i] = "down" => picked[i] = {}
    /\ \A p \in picked[i] :
          /\ rows[p.row].status \in {"pending", "absent"}
          /\ rows[p.row].status = "pending" => p.attempts = rows[p.row].attempts
          /\ \A q \in picked[i] : q.row = p.row => q = p

JobInv(j) ==
    /\ mode[j.inst] # "down"
    /\ Active(j) =>
          /\ rows[j.row].status \in {"delivering", "absent"}
          /\ rows[j.row].status = "delivering" => j.attempts = rows[j.row].attempts
          /\ \A k \in jobs : Active(k) /\ k.row = j.row => k = j
    /\ j.phase \in {"claimed", "sending"} /\ rows[j.row].status = "delivering" =>
          sent[j.row] <= rows[j.row].attempts + requeued[j.row]

SentInv(r) ==
    rows[r].status # "absent" =>
        IF rows[r].status = "delivering"
        THEN sent[r] <= rows[r].attempts + requeued[r] + 1
        ELSE sent[r] <= rows[r].attempts + requeued[r]

SoloInv ==
    /\ \A i \in Instances : PickInv(i)
    /\ \A j \in jobs : JobInv(j)
    /\ \A r \in Deliveries : SentInv(r)

---------------------------------------------------------------------------------
(* Which rows and jobs the steps of Next can touch.                          *)

LEMMA JobIsJob ==
    ASSUME TypeOK, NEW j \in jobs
    PROVE  j \in Job /\ j.row \in Deliveries /\ j.attempts \in Nat
  BY DEF TypeOK, Job

LEMMA PickIsPick ==
    ASSUME TypeOK, NEW i \in Instances, NEW p \in picked[i]
    PROVE  p.row \in Deliveries /\ p.attempts \in Nat
  BY DEF TypeOK

LEMMA NothingToInsertBeforeStart ==
    ASSUME TypeOK, FreshInv, [Next]_vars, NEW e \in Events
    PROVE  dispatch'[e].started \/ dispatch'[e].todo = {}
  <1> USE DEF tables, workers, history, bounds
  <1>0. dispatch[e].started \/ dispatch[e].todo = {}
    BY DEF FreshInv
  <1>1. CASE UNCHANGED dispatch
    BY <1>0, <1>1
  <1>2. ASSUME NEW d \in Events, Dispatch(d)
        PROVE  dispatch'[e].started \/ dispatch'[e].todo = {}
    BY <1>0, <1>2 DEF Dispatch, TypeOK
  <1>3. ASSUME NEW d \in Events, NEW w \in Webhooks, Enqueue(d, w) \/ EnqueueFails(d, w)
        PROVE  dispatch'[e].started \/ dispatch'[e].todo = {}
    <2>1. dispatch' = [dispatch EXCEPT ![d].todo = @ \ {w}]
      BY <1>3 DEF Enqueue, EnqueueFails
    <2> QED
      BY <1>0, <2>1 DEF TypeOK
  <1>4. ASSUME NEW w \in Webhooks, Management(w)
        PROVE  UNCHANGED dispatch
    BY <1>4 DEF Management, Create, Delete, DeleteLogs, DeleteDeliveries, CleanupFails
  <1>5. ASSUME NEW i \in Instances, Worker(i)
        PROVE  UNCHANGED dispatch
    BY <1>5 DEF Worker, Start, Stop, Exit, Crash, ClaimRead, ClaimCommit, ClaimRollback
  <1>6. ASSUME NEW r \in Deliveries, BecomeDue(r)
        PROVE  UNCHANGED dispatch
    BY <1>6 DEF BecomeDue
  <1>7. ASSUME NEW j \in jobs, JobStep(j)
        PROVE  UNCHANGED dispatch
    BY <1>7 DEF JobStep, LookupFails, LookupFinds, Attempt, Complete, WriteLog
  <1>8. CASE UNCHANGED vars
    BY <1>1, <1>8 DEF vars
  <1> QED
    BY <1>1, <1>2, <1>3, <1>4, <1>5, <1>6, <1>7, <1>8 DEF Next, Dispatching

LEMMA FreshInvStep == TypeOK /\ FreshInv /\ [Next]_vars => FreshInv'
  <1> SUFFICES ASSUME TypeOK, FreshInv, [Next]_vars,
                      NEW r \in Deliveries, Unused(r)'
               PROVE  /\ rows'[r] = NoRow
                      /\ sent'[r] = 0
                      /\ \A i \in Instances : \A p \in picked'[i] : p.row # r
                      /\ \A j \in jobs' : j.row # r
    BY NothingToInsertBeforeStart DEF FreshInv
  <1> USE DEF tables, workers, history, bounds
  <1>0. r[1] \in Events /\ r[2] \in Webhooks /\ r = <<r[1], r[2]>>
    BY DEF Deliveries
  <1>a. Unused(r) => /\ rows[r] = NoRow
                     /\ sent[r] = 0
                     /\ \A i \in Instances : \A p \in picked[i] : p.row # r
                     /\ \A j \in jobs : j.row # r
    BY DEF FreshInv
  <1>b. UNCHANGED dispatch => Unused(r)
    BY DEF Unused
  <1>1. ASSUME NEW w \in Webhooks, Management(w)
        PROVE  /\ Unused(r)
               /\ UNCHANGED <<sent, picked, jobs>>
               /\ rows'[r] = rows[r] \/ rows'[r] = NoRow
    BY <1>1, <1>b DEF Management, Create, Delete, DeleteLogs, DeleteDeliveries, CleanupFails
  <1>2. ASSUME NEW e \in Events, Dispatch(e)
        PROVE  Unused(r) /\ UNCHANGED <<rows, sent, picked, jobs>>
    BY <1>0, <1>2 DEF Dispatch, Unused, TypeOK
  <1>3. ASSUME NEW e \in Events, NEW w \in Webhooks, Enqueue(e, w) \/ EnqueueFails(e, w)
        PROVE  Unused(r) /\ rows'[r] = rows[r] /\ UNCHANGED <<sent, picked, jobs>>
    <2>1. dispatch' = [dispatch EXCEPT ![e].todo = @ \ {w}]
      BY <1>3 DEF Enqueue, EnqueueFails
    <2>2. Unused(r) /\ r # <<e, w>>
      <3>1. CASE r[1] = e
        <4>1. dispatch[e].started /\ dispatch'[e].started
          BY <1>3, <2>1 DEF FreshInv, TypeOK, Enqueue, EnqueueFails
        <4>2. r[2] \in dispatch'[e].todo
          BY <3>1, <4>1 DEF Unused
        <4>3. dispatch'[e].todo = dispatch[e].todo \ {w}
          BY <2>1 DEF TypeOK
        <4> QED
          BY <1>0, <3>1, <4>2, <4>3 DEF Unused
      <3>2. CASE r[1] # e
        BY <1>0, <2>1, <3>2 DEF Unused, TypeOK
      <3> QED
        BY <3>1, <3>2
    <2> QED
      BY <1>3, <2>2 DEF Enqueue, EnqueueFails, TypeOK
  <1>4. ASSUME NEW i \in Instances, Worker(i)
        PROVE  /\ Unused(r)
               /\ rows'[r] = NoRow
               /\ UNCHANGED sent
               /\ \A k \in Instances : \A p \in picked'[k] : p.row # r
               /\ \A j \in jobs' : j.row # r
    <2>0. Unused(r)
      BY <1>4, <1>b DEF Worker, Start, Stop, Exit, Crash, ClaimRead, ClaimCommit, ClaimRollback
    <2>1. CASE Start(i)
      BY <1>a, <2>0, <2>1 DEF Start, RequeueStale, NoRow
    <2>2. CASE Stop(i)
      BY <1>a, <2>0, <2>2 DEF Stop
    <2>3. CASE Exit(i) \/ Crash(i) \/ ClaimRollback(i)
      BY <1>a, <2>0, <2>3 DEF Exit, Crash, ProcessGone, ClaimRollback, TypeOK
    <2>4. CASE ClaimRead(i)
      <3>1. PICK S \in SUBSET Due : picked' = [picked EXCEPT ![i] =
                  {[row |-> d, attempts |-> rows[d].attempts] : d \in S}]
        BY <2>4 DEF ClaimRead
      <3>2. r \notin S
        BY <1>a, <2>0 DEF Due, NoRow
      <3>3. \A k \in Instances : \A p \in picked'[k] : p.row # r
        BY <1>a, <2>0, <3>1, <3>2 DEF TypeOK
      <3> QED
        BY <1>a, <2>0, <2>4, <3>3 DEF ClaimRead
    <2>5. CASE ClaimCommit(i)
      <3>1. \A p \in Won(i) : p.row # r
        BY <1>a, <2>0 DEF Won
      <3>2. rows'[r] = NoRow
        BY <1>a, <2>0, <2>5, <3>1 DEF ClaimCommit
      <3>3. \A j \in jobs' : j.row # r
        BY <1>a, <2>0, <2>5, <3>1 DEF ClaimCommit
      <3>4. \A k \in Instances : \A p \in picked'[k] : p.row # r
        BY <1>a, <2>0, <2>5 DEF ClaimCommit, TypeOK
      <3> QED
        BY <2>0, <2>5, <3>2, <3>3, <3>4 DEF ClaimCommit
    <2> QED
      BY <1>4, <2>0, <2>1, <2>2, <2>3, <2>4, <2>5 DEF Worker
  <1>5. ASSUME NEW d \in Deliveries, BecomeDue(d)
        PROVE  Unused(r) /\ rows'[r] = rows[r] /\ UNCHANGED <<sent, picked, jobs>>
    BY <1>5, <1>a, <1>b DEF BecomeDue, NoRow, TypeOK
  <1>6. ASSUME NEW j \in jobs, JobStep(j)
        PROVE  /\ Unused(r)
               /\ rows'[r] = rows[r]
               /\ sent'[r] = sent[r]
               /\ UNCHANGED picked
               /\ \A k \in jobs' : k.row # r
    <2>0. Unused(r) /\ j.row # r /\ j.row \in Deliveries
      BY <1>6, <1>a, <1>b, JobIsJob DEF JobStep, LookupFails, LookupFinds, Attempt, Complete, WriteLog
    <2>1. \A k \in jobs' : k \in jobs \/ k.row = j.row
      BY <1>6, JobIsJob DEF JobStep, LookupFails, LookupFinds, Attempt, Complete, WriteLog, AfterComplete, Replace, Job
    <2> QED
      BY <1>6, <1>a, <2>0, <2>1 DEF JobStep, LookupFails, LookupFinds, Attempt, Complete, WriteLog, TypeOK
  <1>7. CASE UNCHANGED vars
    BY <1>7, <1>a, <1>b DEF vars
  <1> QED
    BY <1>1, <1>2, <1>3, <1>4, <1>5, <1>6, <1>7, <1>a DEF Next, Dispatching
---------------------------------------------------------------------------------
(* The retry budget.  Requests and acknowledgements are only ever added, so   *)
(* what a stale copy of a row was entitled to it stays entitled to.           *)

LEMMA HistoryGrows ==
    ASSUME TypeOK, [Next]_vars
    PROVE  /\ \A r \in Deliveries : sent[r] \in Nat /\ sent'[r] \in Nat /\ sent'[r] >= sent[r]
           /\ acked \subseteq acked'
  <1> USE DEF tables, workers, history, bounds
  <1>0. \A r \in Deliveries : sent[r] \in Nat
    BY DEF TypeOK
  <1>1. ASSUME NEW j \in jobs, JobStep(j)
        PROVE  acked \subseteq acked' /\ (UNCHANGED sent \/ sent' = [sent EXCEPT ![j.row] = @ + 1])
    BY <1>1 DEF JobStep, LookupFails, LookupFinds, Attempt, Complete, WriteLog
  <1>2. ASSUME NEW w \in Webhooks, Management(w)
        PROVE  UNCHANGED <<sent, acked>>
    BY <1>2 DEF Management, Create, Delete, DeleteLogs, DeleteDeliveries, CleanupFails
  <1>3. ASSUME NEW e \in Events, Dispatching(e)
        PROVE  UNCHANGED <<sent, acked>>
    BY <1>3 DEF Dispatching, Dispatch, Enqueue, EnqueueFails
  <1>4. ASSUME NEW i \in Instances, Worker(i)
        PROVE  UNCHANGED <<sent, acked>>
    BY <1>4 DEF Worker, Start, Stop, Exit, Crash, ClaimRead, ClaimCommit, ClaimRollback
  <1>5. ASSUME NEW r \in Deliveries, BecomeDue(r)
        PROVE  UNCHANGED <<sent, acked>>
    BY <1>5 DEF BecomeDue
  <1>6. ASSUME UNCHANGED vars
        PROVE  UNCHANGED <<sent, acked>>
    BY <1>6 DEF vars
  <1>7. acked \subseteq acked'
    BY <1>1, <1>2, <1>3, <1>4, <1>5, <1>6 DEF Next
  <1>8. UNCHANGED sent \/ \E j \in jobs : sent' = [sent EXCEPT ![j.row] = @ + 1]
    BY <1>1, <1>2, <1>3, <1>4, <1>5, <1>6 DEF Next
  <1>9. \A r \in Deliveries : sent'[r] \in Nat /\ sent'[r] >= sent[r]
    <2>1. CASE UNCHANGED sent
      BY <1>0, <2>1
    <2>2. ASSUME NEW j \in jobs, sent' = [sent EXCEPT ![j.row] = @ + 1]
          PROVE  \A r \in Deliveries : sent'[r] \in Nat /\ sent'[r] >= sent[r]
      BY <1>0, <2>2 DEF TypeOK
    <2> QED
      BY <1>8, <2>1, <2>2
  <1> QED
    BY <1>0, <1>7, <1>9

(* What holds of an unchanged row, copy or job goes on holding.               *)
LEMMA BudgetMonotone ==
    ASSUME TypeOK, BudgetInv, [Next]_vars
    PROVE  /\ \A r \in Deliveries : rows'[r] = rows[r] => RowBudget(r)'
           /\ \A i \in Instances : \A p \in picked[i] : PickBudget(p)'
           /\ \A j \in jobs : JobBudget(j)'
  <1>0. /\ \A r \in Deliveries : sent[r] \in Nat /\ sent'[r] \in Nat /\ sent'[r] >= sent[r]
        /\ acked \subseteq acked'
    BY HistoryGrows
  <1>a. MaxAttempts \in Nat
    BY MaxAttemptsAssumption
  <1>1. ASSUME NEW r \in Deliveries, rows'[r] = rows[r]
        PROVE  RowBudget(r)'
    <2>1. RowBudget(r) /\ rows[r].attempts \in Nat
      BY DEF BudgetInv, TypeOK, Row
    <2> QED
      BY <1>0, <1>a, <1>1, <2>1 DEF RowBudget
  <1>2. ASSUME NEW i \in Instances, NEW p \in picked[i]
        PROVE  PickBudget(p)'
    <2>1. PickBudget(p)
      BY DEF BudgetInv
    <2> QED
      BY <1>0, <1>a, <2>1, PickIsPick DEF PickBudget
  <1>3. ASSUME NEW j \in jobs
        PROVE  JobBudget(j)'
    <2>1. JobBudget(j)
      BY DEF BudgetInv
    <2> QED
      BY <1>0, <1>a, <2>1, JobIsJob DEF JobBudget
  <1> QED
    BY <1>1, <1>2, <1>3

(* The row written for an answered job: a retry stays within the budget, the  *)
(* last attempt exhausts it, success needs the 2xx of this very job.          *)
LEMMA ResolvedRowBudget ==
    ASSUME TypeOK, NEW j \in jobs, JobBudget(j), j.phase = "answered"
    PROVE  /\ ResolvedRow(j).attempts <= MaxAttempts
           /\ ResolvedRow(j).status = "pending" =>
                 /\ ResolvedRow(j).attempts <= sent[j.row]
                 /\ ResolvedRow(j).attempts < MaxAttempts
           /\ ResolvedRow(j).status = "exhausted" => sent[j.row] >= MaxAttempts
           /\ ResolvedRow(j).status = "success" => j.row \in acked
           /\ ResolvedRow(j).status # "delivering"
  <1>1. /\ j.attempts \in Nat
        /\ sent[j.row] \in Nat
        /\ MaxAttempts \in Nat
        /\ j.answer \in Answers \cup {"gone", "none"}
    BY MaxAttemptsAssumption DEF TypeOK, Job
  <1>2. /\ ResolvedRow(j).status = Outcome(j)
        /\ ResolvedRow(j).attempts = j.attempts + 1
    BY DEF ResolvedRow
  <1>3. j.answer # "none"
    BY DEF JobBudget
  <1>4. CASE j.answer = "ok"
    <2>1. Outcome(j) = "success"
      BY <1>4 DEF Outcome
    <2> QED
      BY <1>1, <1>2, <1>4, <2>1 DEF JobBudget
  <1>5. CASE j.answer \in {"rejected", "gone"}
    <2>1. Outcome(j) = "failed"
      BY <1>5 DEF Outcome
    <2> QED
      BY <1>1, <1>2, <2>1 DEF JobBudget
  <1>6. CASE j.answer = "unavailable"
    <2>1. Outcome(j) = IF j.attempts + 1 >= MaxAttempts THEN "exhausted" ELSE "pending"
      BY <1>6 DEF Outcome, BudgetSpent
    <2>2. j.attempts + 1 <= sent[j.row]
      BY <1>6 DEF JobBudget, Answers
    <2> QED
      BY <1>1, <1>2, <2>1, <2>2 DEF JobBudget
  <1> QED
    BY <1>1, <1>3, <1>4, <1>5, <1>6 DEF Answers
LEMMA BudgetInvStep == TypeOK /\ BudgetInv /\ [Next]_vars => BudgetInv'
  <1> SUFFICES ASSUME TypeOK, BudgetInv, [Next]_vars
               PROVE  BudgetInv'
    OBVIOUS
  <1> DEFINE RowsKept  == \A r \in Deliveries : RowBudget(r)'
             PicksKept == \A i \in Instances : \A p \in picked'[i] : PickBudget(p)'
             JobsKept  == \A j \in jobs' : JobBudget(j)'
  <1> USE DEF tables, workers, history, bounds
  <1>a. MaxAttempts \in Nat \ {0}
    BY MaxAttemptsAssumption
  <1>b. /\ \A r \in Deliveries : sent[r] \in Nat /\ sent'[r] \in Nat /\ sent'[r] >= sent[r]
        /\ acked \subseteq acked'
    BY HistoryGrows
  <1>c. /\ \A r \in Deliveries : rows'[r] = rows[r] => RowBudget(r)'
        /\ UNCHANGED picked => PicksKept
        /\ jobs' \subseteq jobs => JobsKept
    BY BudgetMonotone
  <1>d. \A r \in Deliveries :
           rows'[r] \in {NoRow, FreshRow} => RowBudget(r)'
    BY <1>a, <1>b DEF RowBudget, NoRow, FreshRow
  <1>1. ASSUME NEW w \in Webhooks, Management(w)
        PROVE  RowsKept /\ PicksKept /\ JobsKept
    <2>1. \A r \in Deliveries : rows'[r] = rows[r] \/ rows'[r] = NoRow
      BY <1>1 DEF Management, Create, Delete, DeleteLogs, DeleteDeliveries, CleanupFails
    <2>2. UNCHANGED picked /\ jobs' \subseteq jobs
      BY <1>1 DEF Management, Create, Delete, DeleteLogs, DeleteDeliveries, CleanupFails
    <2> QED
      BY <1>c, <1>d, <2>1, <2>2
  <1>2. ASSUME NEW e \in Events, Dispatching(e)
        PROVE  RowsKept /\ PicksKept /\ JobsKept
    <2>1. \A r \in Deliveries : rows'[r] = rows[r] \/ rows'[r] = FreshRow
      BY <1>2 DEF Dispatching, Dispatch, Enqueue, EnqueueFails, TypeOK
    <2>2. UNCHANGED picked /\ jobs' \subseteq jobs
      BY <1>2 DEF Dispatching, Dispatch, Enqueue, EnqueueFails
    <2> QED
      BY <1>c, <1>d, <2>1, <2>2
  <1>3. ASSUME NEW i \in Instances, Worker(i)
        PROVE  RowsKept /\ PicksKept /\ JobsKept
    <2>1. CASE Start(i)
      <3>1. ASSUME NEW r \in Deliveries
            PROVE  RowBudget(r)'
        <4>1. \/ rows'[r] = rows[r]
              \/ rows[r].status = "delivering" /\ rows'[r] = [rows[r] EXCEPT !.status = "pending"]
          BY <2>1 DEF Start, RequeueStale
        <4>2. CASE rows[r].status = "delivering" /\ rows'[r] = [rows[r] EXCEPT !.status = "pending"]
          <5>1. rows'[r].status = "pending" /\ rows'[r].attempts = rows[r].attempts
            BY <4>2 DEF TypeOK, Row
          <5>2. RowBudget(r) /\ rows[r].attempts \in Nat
            BY DEF BudgetInv, TypeOK, Row
          <5> QED
            BY <1>a, <1>b, <4>2, <5>1, <5>2 DEF RowBudget
        <4> QED
          BY <1>c, <4>1, <4>2
      <3> QED
        BY <1>c, <2>1, <3>1 DEF Start
    <2>2. CASE Stop(i)
      BY <1>c, <2>2 DEF Stop
    <2>3. CASE Exit(i) \/ Crash(i) \/ ClaimRollback(i)
      <3>1. \A k \in Instances : \A p \in picked'[k] : p \in picked[k]
        BY <2>3 DEF Exit, Crash, ProcessGone, ClaimRollback, TypeOK
      <3>2. UNCHANGED rows /\ jobs' \subseteq jobs
        BY <2>3 DEF Exit, Crash, ProcessGone, ClaimRollback
      <3> QED
        BY <1>c, <3>1, <3>2, BudgetMonotone
    <2>4. CASE ClaimRead(i)
      <3>1. PICK S \in SUBSET Due : picked' = [picked EXCEPT ![i] =
                  {[row |-> r, attempts |-> rows[r].attempts] : r \in S}]
        BY <2>4 DEF ClaimRead
      <3>2. \A r \in S : PickBudget([row |-> r, attempts |-> rows[r].attempts])
        BY DEF Due, BudgetInv, RowBudget, PickBudget
      <3>3. UNCHANGED <<rows, sent, jobs>>
        BY <2>4 DEF ClaimRead
      <3>4. PicksKept
        <4> SUFFICES ASSUME NEW k \in Instances, NEW p \in picked'[k]
                     PROVE  PickBudget(p)
          BY <3>3 DEF PickBudget
        <4> QED
          BY <3>1, <3>2 DEF TypeOK, BudgetInv
      <3> QED
        BY <1>c, <3>3, <3>4
    <2>5. CASE ClaimCommit(i)
      <3>1. ASSUME NEW r \in Deliveries
            PROVE  RowBudget(r)'
        <4>1. \/ rows'[r] = rows[r]
              \/ rows[r].status = "pending" /\ rows'[r] = [rows[r] EXCEPT !.status = "delivering"]
          BY <2>5 DEF ClaimCommit, Won, ClaimedRow
        <4>2. CASE rows[r].status = "pending" /\ rows'[r] = [rows[r] EXCEPT !.status = "delivering"]
          <5>1. rows'[r].status = "delivering" /\ rows'[r].attempts = rows[r].attempts
            BY <4>2 DEF TypeOK, Row
          <5>2. RowBudget(r) /\ rows[r].attempts \in Nat
            BY DEF BudgetInv, TypeOK, Row
          <5> QED
            BY <1>a, <1>b, <4>2, <5>1, <5>2 DEF RowBudget
        <4> QED
          BY <1>c, <4>1, <4>2
      <3>2. \A k \in Instances : \A p \in picked'[k] : p \in picked[k]
        BY <2>5 DEF ClaimCommit, TypeOK
      <3>3. ASSUME NEW j \in jobs', j \notin jobs
            PROVE  JobBudget(j)'
        <4>1. PICK p \in Won(i) :
                 j = [inst |-> i, row |-> p.row, ticket |-> claims[p.row] + 1,
                      attempts |-> p.attempts, phase |-> "claimed", answer |-> "none"]
          BY <2>5, <3>3 DEF ClaimCommit
        <4>2. PickBudget(p) /\ UNCHANGED sent
          BY <2>5 DEF Won, BudgetInv, ClaimCommit
        <4> QED
          BY <4>1, <4>2 DEF PickBudget, JobBudget, Answers
      <3> QED
        BY <3>1, <3>2, <3>3, BudgetMonotone
    <2> QED
      BY <1>3, <2>1, <2>2, <2>3, <2>4, <2>5 DEF Worker
  <1>4. ASSUME NEW r \in Deliveries, BecomeDue(r)
        PROVE  RowsKept /\ PicksKept /\ JobsKept
    <2>1. rows' = [rows EXCEPT ![r].due = TRUE] /\ UNCHANGED <<picked, jobs, sent, acked>>
      BY <1>4 DEF BecomeDue
    <2>2. RowBudget(r)'
      <3>1. rows'[r].status = rows[r].status /\ rows'[r].attempts = rows[r].attempts
        BY <2>1 DEF TypeOK, Row
      <3>2. RowBudget(r)
        BY DEF BudgetInv
      <3> QED
        BY <2>1, <3>1, <3>2 DEF RowBudget
    <2> QED
      BY <1>c, <2>1, <2>2 DEF TypeOK
  <1>5. ASSUME NEW j \in jobs, JobStep(j)
        PROVE  RowsKept /\ PicksKept /\ JobsKept
    <2>0. JobBudget(j) /\ j \in Job /\ j.row \in Deliveries
      BY JobIsJob DEF BudgetInv
    <2>a. UNCHANGED picked
      BY <1>5 DEF JobStep, LookupFails, LookupFinds, Attempt, Complete, WriteLog
    <2>1. CASE LookupFails(j)
      <3> DEFINE k == [j EXCEPT !.phase = "answered", !.answer = "gone"]
      <3>1. k.row = j.row /\ k.attempts = j.attempts /\ k.phase = "answered" /\ k.answer = "gone"
        BY <2>0 DEF Job
      <3>2. JobBudget(k)'
        BY <2>0, <2>1, <3>1 DEF JobBudget, LookupFails, Answers
      <3>3. jobs' = Replace(j, k) /\ UNCHANGED rows
        BY <2>1 DEF LookupFails
      <3> QED
        BY <1>c, <2>a, <3>2, <3>3, BudgetMonotone DEF Replace
    <2>b. CASE LookupFinds(j)
      <3> DEFINE k == [j EXCEPT !.phase = "sending"]
      <3>1. k.row = j.row /\ k.attempts = j.attempts /\ k.phase = "sending" /\ k.answer = j.answer
        BY <2>0 DEF Job
      <3>2. JobBudget(k)'
        BY <2>0, <2>b, <3>1 DEF JobBudget, LookupFinds
      <3>3. jobs' = Replace(j, k) /\ UNCHANGED rows
        BY <2>b DEF LookupFinds
      <3> QED
        BY <1>c, <2>a, <3>2, <3>3, BudgetMonotone DEF Replace
    <2>2. ASSUME NEW answer \in Answers, Attempt(j, answer)
          PROVE  RowsKept /\ PicksKept /\ JobsKept
      <3> DEFINE k == [j EXCEPT !.phase = "answered", !.answer = answer]
      <3>1. k.row = j.row /\ k.attempts = j.attempts /\ k.phase = "answered" /\ k.answer = answer
        BY <2>0 DEF Job
      <3>2. /\ sent'[j.row] = sent[j.row] + 1
            /\ answer = "ok" => j.row \in acked'
        BY <2>0, <2>2 DEF Attempt, TypeOK
      <3>3. sent[j.row] \in Nat /\ j.attempts \in Nat
        BY <1>b, <2>0, JobIsJob
      <3>4. JobBudget(k)'
        BY <1>a, <2>0, <2>2, <3>1, <3>2, <3>3 DEF JobBudget, Answers
      <3>5. jobs' = Replace(j, k) /\ UNCHANGED rows
        BY <2>2 DEF Attempt
      <3> QED
        BY <1>c, <2>a, <3>4, <3>5, BudgetMonotone DEF Replace
    <2>3. CASE Complete(j)
      <3>1. RowsKept
        <4>1. \A r \in Deliveries : rows'[r] = rows[r] \/ (r = j.row /\ rows'[r] = ResolvedRow(j))
          BY <2>0, <2>3 DEF Complete, TypeOK
        <4>2. rows'[j.row] = ResolvedRow(j) => RowBudget(j.row)'
          BY <2>0, <2>3, ResolvedRowBudget DEF RowBudget, Complete
        <4> QED
          BY <1>c, <4>1, <4>2
      <3>2. JobsKept
        <4> DEFINE k == [j EXCEPT !.phase = "logging"]
        <4>1. k.row = j.row /\ k.attempts = j.attempts /\ k.phase = "logging" /\ k.answer = j.answer
          BY <2>0 DEF Job
        <4>2. JobBudget(k)'
          BY <2>0, <2>3, <4>1 DEF JobBudget, Complete
        <4>3. jobs' = jobs \ {j} \/ jobs' = Replace(j, k)
          BY <2>3 DEF Complete, AfterComplete
        <4> QED
          BY <4>2, <4>3, BudgetMonotone DEF Replace
      <3> QED
        BY <1>c, <2>a, <3>1, <3>2
    <2>4. CASE WriteLog(j)
      BY <1>c, <2>a, <2>4 DEF WriteLog
    <2> QED
      BY <1>5, <2>1, <2>b, <2>2, <2>3, <2>4 DEF JobStep
  <1>6. ASSUME UNCHANGED vars
        PROVE  RowsKept /\ PicksKept /\ JobsKept
    BY <1>6, <1>c DEF vars
  <1>7. RowsKept /\ PicksKept /\ JobsKept
    BY <1>1, <1>2, <1>3, <1>4, <1>5, <1>6 DEF Next
  <1> QED
    BY <1>7 DEF BudgetInv
LEMMA Invariants == Spec => [](TypeOK /\ FreshInv /\ BudgetInv)
  <1>1. Init => FreshInv
    BY DEF Init, FreshInv
  <1>2. Init => BudgetInv
    BY MaxAttemptsAssumption DEF Init, BudgetInv, RowBudget, NoRow
  <1> QED
    BY <1>1, <1>2, TypeCorrect, FreshInvStep, BudgetInvStep, PTL DEF Spec

(* A delivery is recorded as a success only after a 2xx answer, however many *)
(* instances claim, requeue, crash and complete concurrently.                *)
THEOREM SuccessIsAcknowledged == Spec => []SuccessWasAcknowledged
  <1>1. BudgetInv => SuccessWasAcknowledged
    BY DEF BudgetInv, RowBudget, SuccessWasAcknowledged
  <1> QED
    BY <1>1, Invariants, PTL

(* A delivery is given up as exhausted only after MaxAttempts requests,      *)
(* although workers compute the retry count from copies that may be stale.   *)
THEOREM ExhaustedIsSpent == Spec => []ExhaustedSpentBudget
  <1>1. BudgetInv => ExhaustedSpentBudget
    BY DEF BudgetInv, RowBudget, ExhaustedSpentBudget
  <1> QED
    BY <1>1, Invariants, PTL

---------------------------------------------------------------------------------
(* What one step may do to one row, seen through the status alone.           *)

LEMMA RowSteps ==
    ASSUME TypeOK, FreshInv, BudgetInv, [Next]_vars, NEW r \in Deliveries
    PROVE  \/ rows'[r].status = rows[r].status /\ (rows'[r] = rows[r] \/ rows[r].status = "pending")
           \/ rows'[r] = NoRow
           \/ rows[r] = NoRow /\ rows'[r] = FreshRow
           \/ /\ rows[r].status \in {"pending", "delivering"}
              /\ rows'[r].status \in {"pending", "delivering"}
           \/ /\ rows[r].status = "delivering"
              /\ rows'[r].status \in Terminal
              /\ rows'[r].status = "success" => r \in acked
  <1> DEFINE Goal == 
           \/ rows'[r].status = rows[r].status /\ (rows'[r] = rows[r] \/ rows[r].status = "pending")
           \/ rows'[r] = NoRow
           \/ rows[r] = NoRow /\ rows'[r] = FreshRow
           \/ /\ rows[r].status \in {"pending", "delivering"}
              /\ rows'[r].status \in {"pending", "delivering"}
           \/ /\ rows[r].status = "delivering"
              /\ rows'[r].status \in Terminal
              /\ rows'[r].status = "success" => r \in acked
  <1> SUFFICES Goal
    OBVIOUS
  <1> USE DEF tables, workers, history, bounds
  <1>a. rows[r] \in Row
    BY DEF TypeOK
  <1>1. ASSUME NEW w \in Webhooks, Management(w)
        PROVE  Goal
    BY <1>1 DEF Management, Create, Delete, DeleteLogs, DeleteDeliveries, CleanupFails
  <1>2. ASSUME NEW e \in Events, NEW w \in Webhooks, Enqueue(e, w)
        PROVE  Goal
    <2>1. rows' = [rows EXCEPT ![<<e, w>>] = FreshRow]
      BY <1>2 DEF Enqueue
    <2>2. CASE r = <<e, w>>
      <3>1. Unused(r)
        BY <1>2, <2>2 DEF Enqueue, Unused
      <3> QED
        BY <2>1, <2>2, <3>1 DEF FreshInv, TypeOK
    <2> QED
      BY <2>1, <2>2 DEF TypeOK
  <1>3. ASSUME NEW e \in Events, Dispatch(e) \/ \E w \in Webhooks : EnqueueFails(e, w)
        PROVE  Goal
    BY <1>3 DEF Dispatch, EnqueueFails
  <1>4. ASSUME NEW i \in Instances, Worker(i)
        PROVE  Goal
    <2>1. CASE Start(i)
      BY <1>a, <2>1 DEF Start, RequeueStale, Row
    <2>2. CASE ClaimCommit(i)
      BY <1>a, <2>2 DEF ClaimCommit, Won, ClaimedRow, Row
    <2>3. CASE UNCHANGED rows
      BY <2>3
    <2> QED
      BY <1>4, <2>1, <2>2, <2>3 DEF Worker, Stop, Exit, Crash, ClaimRead, ClaimRollback
  <1>5. ASSUME NEW d \in Deliveries, BecomeDue(d)
        PROVE  Goal
    BY <1>5, <1>a DEF BecomeDue, TypeOK, Row
  <1>6. ASSUME NEW j \in jobs, JobStep(j)
        PROVE  Goal
    <2>1. CASE Complete(j) /\ rows' # rows
      <3>1. /\ rows[j.row].status = "delivering"
            /\ rows' = [rows EXCEPT ![j.row] = ResolvedRow(j)]
            /\ j.phase = "answered"
        BY <2>1 DEF Complete, Completable
      <3>2. /\ ResolvedRow(j).status \in Terminal \cup {"pending"}
            /\ ResolvedRow(j).status = "success" => j.row \in acked
        BY <3>1, OutcomeIsStatus, ResolvedRowBudget DEF BudgetInv, ResolvedRow
      <3> QED
        BY <3>1, <3>2 DEF TypeOK
    <2>2. CASE UNCHANGED rows
      BY <2>2
    <2> QED
      BY <1>6, <2>1, <2>2 DEF JobStep, LookupFails, LookupFinds, Attempt, WriteLog
  <1>7. ASSUME UNCHANGED vars
        PROVE  Goal
    BY <1>7 DEF vars
  <1> QED
    BY <1>1, <1>2, <1>3, <1>4, <1>5, <1>6, <1>7 DEF Next, Dispatching

(* No step reopens a resolved delivery or changes its recorded outcome.      *)
THEOREM TerminalStaysFinal == Spec => TerminalIsFinal
  <1>1. TypeOK /\ FreshInv /\ BudgetInv /\ [Next]_vars =>
           [\A r \in Deliveries : rows[r].status \in Terminal =>
               rows'[r] = rows[r] \/ rows'[r] = NoRow]_vars
    <2> SUFFICES ASSUME TypeOK, FreshInv, BudgetInv, [Next]_vars,
                        NEW r \in Deliveries, rows[r].status \in Terminal
                 PROVE  rows'[r] = rows[r] \/ rows'[r] = NoRow
      OBVIOUS
    <2> QED
      BY RowSteps DEF Terminal, NoRow
  <1> QED
    BY <1>1, Invariants, PTL DEF Spec, TerminalIsFinal
---------------------------------------------------------------------------------
(* Refinement: what a step of the queue is for the contract.                 *)

LEMMA FateUnchanged ==
    ASSUME TypeOK,
           \A r \in Deliveries :
              \/ rows'[r].status = rows[r].status
              \/ /\ rows[r].status \in {"pending", "delivering"}
                 /\ rows'[r].status \in {"pending", "delivering"}
    PROVE  Fate' = Fate
  BY DEF Fate

(* A step that leaves acked alone and changes the status of at most one row  *)
(* opens it, resolves it, forgets it or is invisible.                        *)
LEMMA OneRowContract ==
    ASSUME TypeOK, FreshInv, BudgetInv, [Next]_vars, NEW r \in Deliveries,
           UNCHANGED acked,
           \A d \in Deliveries \ {r} : rows'[d] = rows[d]
    PROVE  [Contract!Next]_(Contract!contractVars)
  <1> USE DEF Contract!contractVars
  <1>0. /\ DOMAIN Fate = Deliveries
        /\ Fate' = [Fate EXCEPT ![r] = Fate'[r]]
    BY DEF Fate
  <1>1. CASE \/ rows'[r].status = rows[r].status
             \/ /\ rows[r].status \in {"pending", "delivering"}
                /\ rows'[r].status \in {"pending", "delivering"}
    BY <1>1, FateUnchanged
  <1>2. CASE rows'[r] = NoRow
    <2>1. Fate' = [d \in Deliveries |-> IF d \in {r} THEN "absent" ELSE Fate[d]]
      BY <1>2 DEF Fate, NoRow
    <2>2. Contract!Forget({r})
      BY <2>1 DEF Contract!Forget
    <2> QED
      BY <2>2 DEF Contract!Next
  <1>3. CASE rows[r] = NoRow /\ rows'[r] = FreshRow
    <2>1. Fate[r] = "absent" /\ Fate'[r] = "open"
      BY <1>3 DEF Fate, NoRow, FreshRow
    <2>2. Contract!Open(r)
      BY <1>0, <2>1 DEF Contract!Open
    <2> QED
      BY <2>2 DEF Contract!Next
  <1>4. CASE /\ rows[r].status = "delivering"
             /\ rows'[r].status \in Terminal
             /\ rows'[r].status = "success" => r \in acked
    <2>1. Fate[r] = "open" /\ Fate'[r] = rows'[r].status
      BY <1>4 DEF Fate, Terminal
    <2>2. Contract!Resolve(r, rows'[r].status)
      BY <1>0, <1>4, <2>1 DEF Contract!Resolve
    <2>3. rows'[r].status \in Contract!TerminalFates
      BY <1>4 DEF Terminal, Contract!TerminalFates
    <2> QED
      BY <2>2, <2>3 DEF Contract!Next
  <1> QED
    BY <1>1, <1>2, <1>3, <1>4, RowSteps

LEMMA ContractStep ==
    ASSUME TypeOK, FreshInv, BudgetInv, [Next]_vars
    PROVE  [Contract!Next]_(Contract!contractVars)
  <1> USE DEF tables, workers, history, bounds, Contract!contractVars
  <1>0. UNCHANGED <<rows, acked>> => [Contract!Next]_(Contract!contractVars)
    BY DEF Fate
  <1>1. ASSUME NEW w \in Webhooks, Management(w)
        PROVE  [Contract!Next]_(Contract!contractVars)
    <2>1. CASE DeleteDeliveries(w)
      <3> DEFINE Gone == {r \in Deliveries : HookOf(r) = w}
      <3>1. Fate' = [r \in Deliveries |-> IF r \in Gone THEN "absent" ELSE Fate[r]]
        BY <2>1 DEF DeleteDeliveries, Fate, NoRow
      <3>2. Contract!Forget(Gone)
        BY <2>1, <3>1 DEF Contract!Forget, DeleteDeliveries
      <3> QED
        BY <3>2 DEF Contract!Next
    <2> QED
      BY <1>0, <1>1, <2>1 DEF Management, Create, Delete, DeleteLogs, CleanupFails
  <1>2. ASSUME NEW e \in Events, Dispatching(e)
        PROVE  [Contract!Next]_(Contract!contractVars)
    <2>1. ASSUME NEW w \in Webhooks, Enqueue(e, w)
          PROVE  [Contract!Next]_(Contract!contractVars)
      <3>1. <<e, w>> \in Deliveries
        BY DEF Deliveries
      <3>2. UNCHANGED acked /\ \A d \in Deliveries \ {<<e, w>>} : rows'[d] = rows[d]
        BY <2>1 DEF Enqueue, TypeOK
      <3> QED
        BY <3>1, <3>2, OneRowContract
    <2> QED
      BY <1>0, <1>2, <2>1 DEF Dispatching, Dispatch, EnqueueFails
  <1>3. ASSUME NEW i \in Instances, Worker(i)
        PROVE  [Contract!Next]_(Contract!contractVars)
    <2>1. CASE Start(i)
      <3>1. UNCHANGED acked /\ Fate' = Fate
        <4>1. \A r \in Deliveries : rows[r] \in Row
          BY DEF TypeOK
        <4>2. \A r \in Deliveries :
                 \/ rows'[r].status = rows[r].status
                 \/ rows[r].status = "delivering" /\ rows'[r].status = "pending"
          BY <2>1, <4>1 DEF Start, RequeueStale, Row
        <4> QED
          BY <2>1, <4>2, FateUnchanged DEF Start
      <3> QED
        BY <3>1
    <2>2. CASE ClaimCommit(i)
      <3>1. UNCHANGED acked /\ Fate' = Fate
        <4>1. \A r \in Deliveries : rows[r] \in Row
          BY DEF TypeOK
        <4>2. \A r \in Deliveries :
                 \/ rows'[r].status = rows[r].status
                 \/ rows[r].status = "pending" /\ rows'[r].status = "delivering"
          BY <2>2, <4>1 DEF ClaimCommit, Won, ClaimedRow, Row
        <4> QED
          BY <2>2, <4>2, FateUnchanged DEF ClaimCommit
      <3> QED
        BY <3>1
    <2> QED
      BY <1>0, <1>3, <2>1, <2>2 DEF Worker, Stop, Exit, Crash, ClaimRead, ClaimRollback
  <1>4. ASSUME NEW r \in Deliveries, BecomeDue(r)
        PROVE  [Contract!Next]_(Contract!contractVars)
    <2>1. UNCHANGED acked /\ \A d \in Deliveries \ {r} : rows'[d] = rows[d]
      BY <1>4 DEF BecomeDue, TypeOK
    <2> QED
      BY <2>1, OneRowContract
  <1>5. ASSUME NEW j \in jobs, JobStep(j)
        PROVE  [Contract!Next]_(Contract!contractVars)
    <2>0. j.row \in Deliveries
      BY JobIsJob
    <2>1. ASSUME NEW answer \in Answers, Attempt(j, answer)
          PROVE  [Contract!Next]_(Contract!contractVars)
      <3>1. Fate' = Fate
        BY <2>1 DEF Attempt, Fate
      <3>2. UNCHANGED acked \/ Contract!Acknowledge(j.row)
        BY <2>1, <3>1 DEF Attempt, Contract!Acknowledge
      <3> QED
        BY <2>0, <3>1, <3>2 DEF Contract!Next
    <2>2. CASE Complete(j)
      <3>1. UNCHANGED acked /\ \A d \in Deliveries \ {j.row} : rows'[d] = rows[d]
        BY <2>0, <2>2 DEF Complete, TypeOK
      <3> QED
        BY <2>0, <3>1, OneRowContract
    <2> QED
      BY <1>0, <1>5, <2>1, <2>2 DEF JobStep, LookupFails, LookupFinds, WriteLog
  <1>6. ASSUME UNCHANGED vars
        PROVE  [Contract!Next]_(Contract!contractVars)
    BY <1>0, <1>6 DEF vars
  <1> QED
    BY <1>1, <1>2, <1>3, <1>4, <1>5, <1>6 DEF Next

(* The queue implements the delivery contract, for every number of server    *)
(* instances and whatever crashes and database errors occur.                 *)
THEOREM QueueImplementsContract == Spec => ImplementsContract
  <1>1. Init => Contract!Init
    BY DEF Init, Contract!Init, Fate, NoRow
  <1>2. TypeOK /\ FreshInv /\ BudgetInv /\ [Next]_vars => [Contract!Next]_(Contract!contractVars)
    BY ContractStep
  <1> QED
    BY <1>1, <1>2, Invariants, PTL DEF Spec, ImplementsContract, Contract!Spec
---------------------------------------------------------------------------------
(* A deployment of one instance.  Everything below assumes it.               *)

SingleInstance == \A i, k \in Instances : i = k

(* Steps that write one row at most, and neither claim, finish nor requeue.  *)
LEMMA SoloDispatching ==
    ASSUME TypeOK, FreshInv, SoloInv, NEW e \in Events, Dispatching(e)
    PROVE  SoloInv'
  <1> USE DEF tables, workers, history, bounds
  <1>1. CASE UNCHANGED rows
    BY <1>1 DEF Dispatching, Dispatch, Enqueue, EnqueueFails, SoloInv, PickInv, JobInv, SentInv, Active
  <1>2. ASSUME NEW w \in Webhooks, Enqueue(e, w)
        PROVE  SoloInv'
    <2> DEFINE r == <<e, w>>
    <2>1. /\ r \in Deliveries
          /\ Unused(r)
      BY <1>2 DEF Enqueue, Unused, Deliveries
    <2>2. /\ sent[r] = 0
          /\ \A i \in Instances : \A p \in picked[i] : p.row # r
          /\ \A j \in jobs : j.row # r
      BY <2>1 DEF FreshInv
    <2>3. /\ rows'[r] = FreshRow
          /\ \A d \in Deliveries \ {r} : rows'[d] = rows[d]
          /\ UNCHANGED <<mode, picked, jobs, sent, requeued>>
      BY <1>2, <2>1 DEF Enqueue, TypeOK
    <2>4. \A i \in Instances : PickInv(i)'
      BY <2>2, <2>3, PickIsPick DEF SoloInv, PickInv
    <2>5. \A j \in jobs' : JobInv(j)'
      BY <2>2, <2>3, JobIsJob DEF SoloInv, JobInv, Active
    <2>6. \A d \in Deliveries : SentInv(d)'
      BY <2>1, <2>2, <2>3 DEF SoloInv, SentInv, FreshRow, TypeOK
    <2> QED
      BY <2>4, <2>5, <2>6 DEF SoloInv
  <1> QED
    BY <1>1, <1>2 DEF Dispatching, Dispatch, EnqueueFails

LEMMA SoloManagement ==
    ASSUME TypeOK, SoloInv, NEW w \in Webhooks, Management(w)
    PROVE  SoloInv'
  <1> USE DEF tables, workers, history, bounds
  <1>1. /\ \A r \in Deliveries : rows'[r] = rows[r] \/ rows'[r] = NoRow
        /\ UNCHANGED <<mode, picked, jobs, sent, requeued>>
    BY DEF Management, Create, Delete, DeleteLogs, DeleteDeliveries, CleanupFails
  <1>2. \A i \in Instances : PickInv(i)'
    BY <1>1, PickIsPick DEF SoloInv, PickInv, NoRow
  <1>3. \A j \in jobs' : JobInv(j)'
    BY <1>1, JobIsJob DEF SoloInv, JobInv, Active, NoRow
  <1>4. \A r \in Deliveries : SentInv(r)'
    BY <1>1 DEF SoloInv, SentInv, NoRow
  <1> QED
    BY <1>2, <1>3, <1>4 DEF SoloInv

(* The claim is where a second job for a row could appear.                   *)
LEMMA SoloClaimCommit ==
    ASSUME SingleInstance, TypeOK, SoloInv, NEW i \in Instances, ClaimCommit(i)
    PROVE  SoloInv'
  <1> USE DEF history, bounds
  <1> DEFINE JobOf(p) == [inst |-> i, row |-> p.row, ticket |-> claims[p.row] + 1,
                          attempts |-> p.attempts, phase |-> "claimed", answer |-> "none"]
  <1>1. /\ mode[i] # "down"
        /\ UNCHANGED <<mode, sent, requeued>>
        /\ picked' = [picked EXCEPT ![i] = {}]
        /\ jobs' = jobs \cup {JobOf(p) : p \in Won(i)}
    BY DEF ClaimCommit, SoloInv, PickInv
  <1>2. \A r \in Deliveries : rows[r] \in Row
    BY DEF TypeOK
  <1>3. ASSUME NEW p \in Won(i)
        PROVE  /\ p \in picked[i]
               /\ p.row \in Deliveries
               /\ rows[p.row].status = "pending"
               /\ p.attempts = rows[p.row].attempts
               /\ rows'[p.row].status = "delivering"
               /\ rows'[p.row].attempts = rows[p.row].attempts
    <2>1. /\ p \in picked[i]
          /\ p.row \in Deliveries
          /\ rows[p.row].status = "pending"
          /\ p.attempts = rows[p.row].attempts
      BY PickIsPick DEF Won, SoloInv, PickInv
    <2>2. rows'[p.row] = [rows[p.row] EXCEPT !.status = "delivering"]
      BY <2>1 DEF ClaimCommit, ClaimedRow
    <2> QED
      BY <1>2, <2>1, <2>2 DEF Row
  <1>4. \A r \in Deliveries : rows'[r] = rows[r] \/ \E p \in Won(i) : p.row = r
    BY DEF ClaimCommit
  <1>5. \A k \in Instances : PickInv(k)'
    BY <1>1 DEF SingleInstance, PickInv, TypeOK
  <1>6. \A j \in jobs : Active(j) => rows'[j.row] = rows[j.row]
                                     /\ \A p \in Won(i) : p.row # j.row
    BY <1>3, <1>4, JobIsJob DEF SoloInv, JobInv
  <1>7. ASSUME NEW j \in jobs
        PROVE  JobInv(j)'
    <2>1. JobInv(j) /\ j \in Job
      BY JobIsJob DEF SoloInv
    <2>2. CASE Active(j)
      <3>1. \A k \in jobs' : k \in jobs \/ k.row # j.row
        BY <1>1, <1>6, <2>2
      <3> QED
        BY <1>1, <1>6, <2>1, <2>2, <3>1 DEF JobInv, Active
    <2>3. CASE ~Active(j)
      BY <1>1, <2>1, <2>3 DEF JobInv, Active
    <2> QED
      BY <2>2, <2>3
  <1>8. ASSUME NEW j \in jobs', j \notin jobs
        PROVE  JobInv(j)'
    <2>0. PICK p \in Won(i) : j = JobOf(p)
      BY <1>1, <1>8
    <2>1. \A k \in jobs' : Active(k) /\ k.row = j.row => k = j
      <3> SUFFICES ASSUME NEW k \in jobs', Active(k), k.row = j.row
                   PROVE  k = j
        OBVIOUS
      <3>1. k \notin jobs
        BY <1>6, <2>0
      <3>2. PICK q \in Won(i) : k = JobOf(q)
        BY <1>1, <3>1
      <3>3. q = p
        BY <1>3, <2>0, <3>2 DEF SoloInv, PickInv
      <3> QED
        BY <2>0, <3>2, <3>3
    <2>2. sent[p.row] <= rows[p.row].attempts + requeued[p.row]
      BY <1>3 DEF SoloInv, SentInv
    <2>3. /\ mode'[j.inst] # "down"
          /\ rows'[j.row].status = "delivering"
          /\ j.attempts = rows'[j.row].attempts
          /\ sent'[j.row] <= rows'[j.row].attempts + requeued'[j.row]
      BY <1>1, <1>3, <2>0, <2>2
    <2> QED
      BY <2>1, <2>3 DEF JobInv, Active
  <1>9. \A r \in Deliveries : SentInv(r)'
    <2> SUFFICES ASSUME NEW r \in Deliveries
                 PROVE  SentInv(r)'
      OBVIOUS
    <2>1. SentInv(r) /\ rows[r].attempts \in Nat /\ sent[r] \in Nat /\ requeued[r] \in Nat
      BY DEF SoloInv, TypeOK, Row
    <2> QED
      BY <1>1, <1>3, <1>4, <2>1 DEF SentInv
  <1> QED
    BY <1>1, <1>5, <1>7, <1>8, <1>9 DEF SoloInv
(* Starting, stopping and crashing: when a worker starts, the only process   *)
(* was down, so no goroutine of an earlier life holds a row it requeues.     *)
LEMMA SoloStart ==
    ASSUME SingleInstance, TypeOK, SoloInv, NEW i \in Instances, Start(i)
    PROVE  SoloInv'
  <1> USE DEF history, bounds
  <1>1. /\ picked[i] = {}
        /\ jobs = {}
        /\ UNCHANGED <<picked, jobs, sent>>
        /\ mode' = [mode EXCEPT ![i] = "up"]
    <2>1. \A j \in jobs : mode[i] # "down"
      BY JobIsJob DEF SoloInv, JobInv, SingleInstance, Job
    <2> QED
      BY <2>1 DEF Start, SoloInv, PickInv
  <1>2. \A k \in Instances : PickInv(k)'
    BY <1>1 DEF SingleInstance, PickInv
  <1>3. \A j \in jobs' : JobInv(j)'
    BY <1>1
  <1>4. ASSUME NEW r \in Deliveries
        PROVE  SentInv(r)'
    <2>1. /\ SentInv(r)
          /\ rows[r] \in Row
          /\ rows[r].attempts \in Nat
          /\ sent[r] \in Nat
          /\ requeued[r] \in Nat
      BY DEF SoloInv, TypeOK, Row
    <2>2. CASE rows[r].status = "delivering" /\ UNCHANGED sent
               /\ rows'[r] = [rows[r] EXCEPT !.status = "pending"] /\ requeued'[r] = requeued[r] + 1
      <3>1. rows'[r].status = "pending" /\ rows'[r].attempts = rows[r].attempts
        BY <2>1, <2>2 DEF Row
      <3> QED
        BY <2>1, <2>2, <3>1 DEF SentInv
    <2>3. CASE rows'[r] = rows[r] /\ requeued'[r] = requeued[r]
      BY <1>1, <2>1, <2>3 DEF SentInv
    <2> QED
      BY <2>2, <2>3 DEF Start, RequeueStale
  <1> QED
    BY <1>2, <1>3, <1>4 DEF SoloInv

LEMMA SoloWorker ==
    ASSUME SingleInstance, TypeOK, SoloInv, NEW i \in Instances, Worker(i)
    PROVE  SoloInv'
  <1> USE DEF tables, history, bounds
  <1>1. ASSUME UNCHANGED <<rows, sent, requeued>>
        PROVE  \A r \in Deliveries : SentInv(r)'
    BY <1>1 DEF SoloInv, SentInv
  <1>2. CASE Stop(i)
    <2>1. /\ \A k \in Instances : mode'[k] = "draining" /\ mode[k] = "up"
          /\ UNCHANGED <<rows, picked, jobs, sent, requeued>>
      BY <1>2 DEF Stop, SingleInstance, TypeOK
    <2>2. \A k \in Instances : PickInv(k)'
      BY <2>1 DEF SoloInv, PickInv
    <2>3. \A j \in jobs' : JobInv(j)'
      BY <2>1, JobIsJob DEF SoloInv, JobInv, Job, Active
    <2> QED
      BY <1>1, <2>1, <2>2, <2>3 DEF SoloInv
  <1>3. CASE Exit(i) \/ Crash(i)
    <2>1. ProcessGone(i) /\ UNCHANGED <<rows, sent, requeued>>
      BY <1>3 DEF Exit, Crash
    <2>2. \A k \in Instances : PickInv(k)'
      BY <2>1 DEF ProcessGone, PickInv, SingleInstance, TypeOK
    <2>3. jobs' = {}
      BY <2>1, JobIsJob DEF ProcessGone, SingleInstance, Job
    <2> QED
      BY <1>1, <2>1, <2>2, <2>3 DEF SoloInv
  <1>4. CASE ClaimRead(i)
    <2>1. PICK S \in SUBSET Due : picked' = [picked EXCEPT ![i] =
                {[row |-> r, attempts |-> rows[r].attempts] : r \in S}]
      BY <1>4 DEF ClaimRead
    <2>2. UNCHANGED <<rows, mode, jobs, sent, requeued>> /\ mode[i] # "down"
      BY <1>4 DEF ClaimRead
    <2>3. \A k \in Instances : PickInv(k)'
      BY <2>1, <2>2 DEF SingleInstance, PickInv, Due, TypeOK
    <2>4. \A j \in jobs' : JobInv(j)'
      BY <2>2 DEF SoloInv, JobInv, Active
    <2> QED
      BY <1>1, <2>2, <2>3, <2>4 DEF SoloInv
  <1>5. CASE ClaimRollback(i)
    <2>1. \A k \in Instances : PickInv(k)'
      BY <1>5 DEF ClaimRollback, SingleInstance, PickInv, TypeOK
    <2>2. UNCHANGED <<rows, mode, jobs, sent, requeued>>
      BY <1>5 DEF ClaimRollback
    <2>3. \A j \in jobs' : JobInv(j)'
      BY <2>2 DEF SoloInv, JobInv, Active
    <2> QED
      BY <1>1, <2>1, <2>2, <2>3 DEF SoloInv
  <1> QED
    BY <1>2, <1>3, <1>4, <1>5, SoloStart, SoloClaimCommit DEF Worker

(* Job j becomes k, which works on the same row in a later phase: no other    *)
(* job is concerned.                                                         *)
LEMMA SoloReplace ==
    ASSUME TypeOK, SoloInv, NEW j \in jobs, NEW k,
           Active(j), k.row = j.row, k.inst = j.inst, k.attempts = j.attempts,
           k.phase \in {"sending", "answered", "logging"},
           k.phase = "sending" => j.phase = "claimed" /\ UNCHANGED sent,
           jobs' \in {jobs \ {j}, Replace(j, k)},
           UNCHANGED <<mode, requeued>>,
           Active(k) => UNCHANGED rows,
           \A r \in Deliveries \ {j.row} : rows'[r] = rows[r] /\ sent'[r] = sent[r]
    PROVE  \A m \in jobs' : JobInv(m)'
  <1>1. JobInv(j) /\ j.row \in Deliveries
    BY JobIsJob DEF SoloInv
  <1>2. ASSUME NEW m \in jobs', m # k
        PROVE  JobInv(m)'
    <2>1. m \in jobs /\ m # j /\ JobInv(m) /\ m.row \in Deliveries
      BY <1>2, JobIsJob DEF Replace, SoloInv
    <2>2. CASE Active(m)
      <3>1. m.row # j.row
        BY <1>1, <2>1, <2>2 DEF JobInv
      <3> QED
        BY <2>1, <3>1 DEF JobInv, Active, Replace
    <2>3. CASE ~Active(m)
      BY <2>1, <2>3 DEF JobInv, Active
    <2> QED
      BY <2>2, <2>3
  <1>3. ASSUME k \in jobs'
        PROVE  JobInv(k)'
    <2>1. CASE Active(k)
      <3>1. \A m \in jobs' : Active(m) /\ m.row = k.row => m = k
        BY <1>1 DEF JobInv, Replace
      <3> QED
        BY <1>1, <2>1, <3>1 DEF JobInv, Active
    <2>2. CASE ~Active(k)
      BY <1>1, <2>2 DEF JobInv, Active
    <2> QED
      BY <2>1, <2>2
  <1> QED
    BY <1>2, <1>3
LEMMA SoloJobStep ==
    ASSUME TypeOK, SoloInv, NEW j \in jobs, JobStep(j)
    PROVE  SoloInv'
  <1> USE DEF tables, workers, history, bounds
  <1>0. j \in Job /\ j.row \in Deliveries /\ JobInv(j)
    BY JobIsJob DEF SoloInv
  <1>a. \A r \in Deliveries :
           /\ SentInv(r)
           /\ rows[r] \in Row /\ rows[r].attempts \in Nat
           /\ sent[r] \in Nat /\ requeued[r] \in Nat
    BY DEF SoloInv, TypeOK, Row
  <1>b. ASSUME UNCHANGED <<rows, picked, mode>>
        PROVE  \A i \in Instances : PickInv(i)'
    BY <1>b DEF SoloInv, PickInv
  <1>c. ASSUME UNCHANGED <<rows, sent, requeued>>
        PROVE  \A r \in Deliveries : SentInv(r)'
    BY <1>c DEF SoloInv, SentInv
  <1>1. CASE LookupFails(j)
    <2> DEFINE k == [j EXCEPT !.phase = "answered", !.answer = "gone"]
    <2>1. k.row = j.row /\ k.inst = j.inst /\ k.attempts = j.attempts /\ k.phase = "answered"
      BY <1>0 DEF Job
    <2>2. Active(j) /\ jobs' = Replace(j, k) /\ UNCHANGED <<rows, picked, mode, sent, requeued>>
      BY <1>1 DEF LookupFails, Active
    <2> HIDE DEF k
    <2>3. \A m \in jobs' : JobInv(m)'
      BY <2>1, <2>2, SoloReplace
    <2> QED
      BY <1>b, <1>c, <2>2, <2>3 DEF SoloInv
  <1>d. CASE LookupFinds(j)
    <2> DEFINE k == [j EXCEPT !.phase = "sending"]
    <2>1. k.row = j.row /\ k.inst = j.inst /\ k.attempts = j.attempts /\ k.phase = "sending"
      BY <1>0 DEF Job
    <2>2. /\ Active(j) /\ j.phase = "claimed" /\ jobs' = Replace(j, k)
          /\ UNCHANGED <<rows, picked, mode, sent, requeued>>
      BY <1>d DEF LookupFinds, Active
    <2> HIDE DEF k
    <2>3. \A m \in jobs' : JobInv(m)'
      BY <2>1, <2>2, SoloReplace
    <2> QED
      BY <1>b, <1>c, <2>2, <2>3 DEF SoloInv
  <1>2. ASSUME NEW answer \in Answers, Attempt(j, answer)
        PROVE  SoloInv'
    <2> DEFINE k == [j EXCEPT !.phase = "answered", !.answer = answer]
    <2>1. k.row = j.row /\ k.inst = j.inst /\ k.attempts = j.attempts /\ k.phase = "answered"
      BY <1>0 DEF Job
    <2>2. /\ Active(j)
          /\ jobs' = Replace(j, k)
          /\ UNCHANGED <<rows, picked, mode, requeued>>
          /\ sent' = [sent EXCEPT ![j.row] = @ + 1]
      BY <1>2 DEF Attempt, Active
    <2> HIDE DEF k
    <2>3. \A r \in Deliveries \ {j.row} : rows'[r] = rows[r] /\ sent'[r] = sent[r]
      BY <2>2 DEF TypeOK
    <2>4. \A m \in jobs' : JobInv(m)'
      BY <2>1, <2>2, <2>3, SoloReplace
    <2>5. SentInv(j.row)'
      <3>1. sent'[j.row] = sent[j.row] + 1
        BY <1>0, <2>2 DEF TypeOK
      <3>2. rows[j.row].status = "delivering" =>
               sent[j.row] <= rows[j.row].attempts + requeued[j.row]
        BY <1>0, <1>2 DEF JobInv, Attempt
      <3>3. rows[j.row].status \in {"delivering", "absent"}
        BY <1>0, <2>2 DEF JobInv
      <3> QED
        BY <1>0, <1>a, <2>2, <3>1, <3>2, <3>3 DEF SentInv
    <2>6. \A r \in Deliveries : SentInv(r)'
      BY <1>a, <2>2, <2>3, <2>5 DEF SentInv
    <2> QED
      BY <1>b, <2>2, <2>4, <2>6 DEF SoloInv
  <1>3. CASE Complete(j)
    <2> DEFINE k == [j EXCEPT !.phase = "logging"]
    <2>1. k.row = j.row /\ k.inst = j.inst /\ k.attempts = j.attempts /\ k.phase = "logging"
      BY <1>0 DEF Job
    <2>2. /\ Active(j)
          /\ jobs' \in {jobs \ {j}, Replace(j, k)}
          /\ UNCHANGED <<picked, mode, sent, requeued>>
      BY <1>3 DEF Complete, AfterComplete, Active
    <2> HIDE DEF k
    <2>3. \/ UNCHANGED rows
          \/ /\ rows[j.row].status = "delivering"
             /\ rows' = [rows EXCEPT ![j.row] = ResolvedRow(j)]
      BY <1>3 DEF Complete, Completable
    <2>4. \A r \in Deliveries \ {j.row} : rows'[r] = rows[r] /\ sent'[r] = sent[r]
      BY <2>2, <2>3 DEF TypeOK
    <2>5. \A m \in jobs' : JobInv(m)'
      BY <2>1, <2>2, <2>4, SoloReplace DEF Active
    <2>6. CASE UNCHANGED rows
      BY <1>b, <1>c, <2>2, <2>5, <2>6 DEF SoloInv
    <2>7. CASE /\ rows[j.row].status = "delivering"
               /\ rows' = [rows EXCEPT ![j.row] = ResolvedRow(j)]
      <3>1. /\ rows'[j.row].status \in Terminal \cup {"pending"}
            /\ rows'[j.row].attempts = rows[j.row].attempts + 1
        BY <1>0, <2>2, <2>7, OutcomeIsStatus DEF TypeOK, ResolvedRow, JobInv
      <3>2. \A i \in Instances : PickInv(i)'
        <4>1. \A i \in Instances : \A p \in picked[i] : p.row # j.row
          BY <2>7 DEF SoloInv, PickInv
        <4> QED
          BY <2>2, <2>4, <4>1, PickIsPick DEF SoloInv, PickInv
      <3>3. SentInv(j.row)'
        BY <1>0, <1>a, <2>2, <2>7, <3>1 DEF SentInv, Terminal
      <3>4. \A r \in Deliveries : SentInv(r)'
        BY <1>a, <2>2, <2>4, <3>3 DEF SentInv
      <3> QED
        BY <2>5, <3>2, <3>4 DEF SoloInv
    <2> QED
      BY <2>3, <2>6, <2>7
  <1>4. CASE WriteLog(j)
    <2>1. jobs' = jobs \ {j} /\ UNCHANGED <<rows, picked, mode, sent, requeued>>
      BY <1>4 DEF WriteLog
    <2>2. \A m \in jobs' : JobInv(m)'
      BY <2>1 DEF SoloInv, JobInv, Active
    <2> QED
      BY <1>b, <1>c, <2>1, <2>2 DEF SoloInv
  <1> QED
    BY <1>1, <1>d, <1>2, <1>3, <1>4 DEF JobStep

LEMMA SoloBecomeDue ==
    ASSUME TypeOK, SoloInv, NEW d \in Deliveries, BecomeDue(d)
    PROVE  SoloInv'
  <1> USE DEF workers, history, bounds
  <1>1. UNCHANGED <<mode, picked, jobs, sent, requeued>>
    BY DEF BecomeDue
  <1>2. \A r \in Deliveries :
           rows'[r].status = rows[r].status /\ rows'[r].attempts = rows[r].attempts
    BY DEF BecomeDue, TypeOK, Row
  <1>3. \A i \in Instances : PickInv(i)'
    BY <1>1, <1>2, PickIsPick DEF SoloInv, PickInv
  <1>4. \A j \in jobs' : JobInv(j)'
    BY <1>1, <1>2, JobIsJob DEF SoloInv, JobInv, Active
  <1>5. \A r \in Deliveries : SentInv(r)'
    BY <1>1, <1>2 DEF SoloInv, SentInv
  <1> QED
    BY <1>3, <1>4, <1>5 DEF SoloInv

LEMMA SoloInvariant ==
    ASSUME SingleInstance
    PROVE  Spec => []SoloInv
  <1>1. Init => SoloInv
    BY DEF Init, SoloInv, PickInv, JobInv, SentInv, NoRow
  <1>2. TypeOK /\ FreshInv /\ SoloInv /\ [Next]_vars => SoloInv'
    <2> SUFFICES ASSUME TypeOK, FreshInv, SoloInv, [Next]_vars
                 PROVE  SoloInv'
      OBVIOUS
    <2>1. CASE UNCHANGED vars
      BY <2>1 DEF vars, tables, workers, history, SoloInv, PickInv, JobInv, SentInv, Active
    <2> QED
      BY <2>1, SoloManagement, SoloDispatching, SoloWorker, SoloJobStep, SoloBecomeDue DEF Next
  <1> QED
    BY <1>1, <1>2, Invariants, PTL DEF Spec

(* With one instance no delivery is ever attempted twice at the same time,   *)
(* across crashes, restarts, requeues and deletions.                         *)
THEOREM SoloAttemptsAlone ==
    ASSUME SingleInstance
    PROVE  Spec => []OneAttemptAtATime
  <1>1. SoloInv => OneAttemptAtATime
    BY DEF SoloInv, JobInv, OneAttemptAtATime
  <1> QED
    BY <1>1, SoloInvariant, PTL

(* With one instance a delivery costs at most its retry budget plus one      *)
(* request for each restart that requeued it.                                *)
THEOREM SoloRequestsBounded ==
    ASSUME SingleInstance
    PROVE  Spec => []RequestsBounded
  <1>1. TypeOK /\ BudgetInv /\ SoloInv => RequestsBounded
    <2> SUFFICES ASSUME TypeOK, BudgetInv, SoloInv,
                        NEW r \in Deliveries, rows[r].status # "absent"
                 PROVE  sent[r] <= MaxAttempts + requeued[r]
      BY DEF RequestsBounded
    <2>1. /\ rows[r].attempts \in Nat
          /\ sent[r] \in Nat
          /\ requeued[r] \in Nat
          /\ MaxAttempts \in Nat
      BY MaxAttemptsAssumption DEF TypeOK, Row
    <2>2. SentInv(r) /\ RowBudget(r)
      BY DEF SoloInv, BudgetInv
    <2>3. CASE rows[r].status = "delivering"
      BY <2>1, <2>2, <2>3 DEF SentInv, RowBudget
    <2>4. CASE rows[r].status # "delivering"
      BY <2>1, <2>2, <2>4 DEF SentInv, RowBudget
    <2> QED
      BY <2>3, <2>4
  <1> QED
    BY <1>1, Invariants, SoloInvariant, PTL

---------------------------------------------------------------------------------
(* The capacity of an instance: what it runs and what its open claim read.   *)

JobsOf(i) == {j \in jobs : j.inst = i}

Capacity(i) ==
    /\ IsFiniteSet(JobsOf(i)) /\ IsFiniteSet(picked[i])
    /\ Cardinality(JobsOf(i)) + Cardinality(picked[i]) <= Concurrency

CapacityInv == \A i \in Instances : Capacity(i)

LEMMA ImageBound ==
    ASSUME NEW S, IsFiniteSet(S), NEW f, f = [x \in S |-> f[x]]
    PROVE  /\ IsFiniteSet({f[x] : x \in S})
           /\ Cardinality({f[x] : x \in S}) <= Cardinality(S)
  <1> DEFINE T == {f[x] : x \in S}
  <1>1. f \in Surjection(S, T)
    BY DEF Surjection
  <1> QED
    BY <1>1, FS_Surjection

(* Less of both leaves room.                                                 *)
LEMMA LessFits ==
    ASSUME NEW i \in Instances, Capacity(i),
           JobsOf(i)' \subseteq JobsOf(i), picked'[i] \subseteq picked[i]
    PROVE  Capacity(i)'
  <1>1. /\ IsFiniteSet(JobsOf(i)') /\ Cardinality(JobsOf(i)') <= Cardinality(JobsOf(i))
        /\ IsFiniteSet(picked'[i]) /\ Cardinality(picked'[i]) <= Cardinality(picked[i])
    BY FS_Subset DEF Capacity
  <1>2. /\ Cardinality(JobsOf(i)) \in Nat /\ Cardinality(JobsOf(i)') \in Nat
        /\ Cardinality(picked[i]) \in Nat /\ Cardinality(picked'[i]) \in Nat
    BY <1>1, FS_CardinalityType DEF Capacity
  <1> QED
    BY <1>1, <1>2, ConcurrencyAssumption DEF Capacity

(* A job that goes on takes no other room than its own.                      *)
LEMMA ReplacedFits ==
    ASSUME NEW i \in Instances, Capacity(i), NEW j \in jobs, NEW k, k.inst = j.inst,
           jobs' = Replace(j, k), picked'[i] = picked[i]
    PROVE  Capacity(i)'
  <1>1. CASE j.inst # i
    <2>1. JobsOf(i)' \subseteq JobsOf(i)
      BY <1>1 DEF JobsOf, Replace
    <2> QED
      BY <2>1, LessFits
  <1>2. CASE j.inst = i
    <2>1. JobsOf(i)' = (JobsOf(i) \ {j}) \cup {k}
      BY <1>2 DEF JobsOf, Replace
    <2>2. j \in JobsOf(i) /\ IsFiniteSet(JobsOf(i)) /\ Cardinality(JobsOf(i)) \in Nat
      BY <1>2, FS_CardinalityType DEF JobsOf, Capacity
    <2>3. /\ IsFiniteSet(JobsOf(i) \ {j})
          /\ Cardinality(JobsOf(i) \ {j}) = Cardinality(JobsOf(i)) - 1
      BY <2>2, FS_RemoveElement
    <2>4. /\ IsFiniteSet(JobsOf(i)') /\ Cardinality(JobsOf(i)') <= Cardinality(JobsOf(i))
      <3> DEFINE R == JobsOf(i) \ {j}
      <3>1. IsFiniteSet(R) /\ Cardinality(R) = Cardinality(JobsOf(i)) - 1
        BY <2>3
      <3> HIDE DEF R
      <3>2. /\ IsFiniteSet(R \cup {k})
            /\ Cardinality(R \cup {k}) = IF k \in R THEN Cardinality(R) ELSE Cardinality(R) + 1
        BY <3>1, FS_AddElement
      <3>3. JobsOf(i)' = R \cup {k}
        BY <2>1 DEF R
      <3> QED
        BY <2>2, <3>1, <3>2, <3>3
    <2>5. Cardinality(JobsOf(i)') \in Nat /\ Cardinality(picked[i]) \in Nat
      BY <2>4, FS_CardinalityType DEF Capacity
    <2> QED
      BY <2>2, <2>4, <2>5, ConcurrencyAssumption DEF Capacity
  <1> QED
    BY <1>1, <1>2

LEMMA CapacityWorker ==
    ASSUME TypeOK, CapacityInv, NEW i \in Instances, Worker(i)
    PROVE  CapacityInv'
  <1> USE DEF tables, workers, history, bounds
  <1>1. ASSUME NEW k \in Instances, UNCHANGED <<jobs, picked>>
        PROVE  Capacity(k)'
    BY <1>1, LessFits DEF CapacityInv, JobsOf
  <1>2. CASE Start(i) \/ Stop(i)
    BY <1>1, <1>2 DEF Start, Stop, CapacityInv
  <1>3. CASE Exit(i) \/ Crash(i)
    <2>1. ProcessGone(i)
      BY <1>3 DEF Exit, Crash
    <2>2. ASSUME NEW k \in Instances
          PROVE  JobsOf(k)' \subseteq JobsOf(k) /\ picked'[k] \subseteq picked[k]
      BY <2>1 DEF ProcessGone, JobsOf, TypeOK
    <2> QED
      BY <2>2, LessFits DEF CapacityInv
  <1>4. CASE ClaimRead(i)
    <2>1. PICK S \in SUBSET Due \ {{}} :
             /\ Cardinality(S) = Smaller(Available(i), Cardinality(Due))
             /\ picked' = [picked EXCEPT ![i] =
                   {[row |-> r, attempts |-> rows[r].attempts] : r \in S}]
      BY <1>4 DEF ClaimRead
    <2>2. picked[i] = {} /\ UNCHANGED jobs
      BY <1>4 DEF ClaimRead
    <2>3. IsFiniteSet(Due) /\ IsFiniteSet(S)
      <3>1. IsFiniteSet(Deliveries)
        BY FiniteAssumption, FS_Product DEF Deliveries
      <3>2. Due \in SUBSET Deliveries /\ S \in SUBSET Due
        BY DEF Due
      <3> QED
        BY <3>1, <3>2, FS_Subset
    <2> DEFINE f == [r \in S |-> [row |-> r, attempts |-> rows[r].attempts]]
    <2>4. picked'[i] = {f[r] : r \in S}
      BY <2>1 DEF TypeOK
    <2> HIDE DEF f
    <2>5. f = [r \in S |-> f[r]]
      BY DEF f
    <2>6. IsFiniteSet(picked'[i]) /\ Cardinality(picked'[i]) <= Cardinality(S)
      BY <2>3, <2>4, <2>5, ImageBound
    <2>7. /\ IsFiniteSet(JobsOf(i)) /\ Cardinality(JobsOf(i)) \in Nat
          /\ Cardinality(picked'[i]) \in Nat
          /\ Cardinality(S) \in Nat /\ Cardinality(Due) \in Nat
      BY <2>3, <2>6, FS_CardinalityType DEF CapacityInv, Capacity
    <2>8. Cardinality(S) <= Concurrency - Cardinality(JobsOf(i))
      BY <2>1, <2>7, ConcurrencyAssumption DEF Smaller, Available, Inflight, JobsOf
    <2>9. JobsOf(i)' = JobsOf(i)
      BY <2>2 DEF JobsOf
    <2>a. Capacity(i)'
      BY <2>6, <2>7, <2>8, <2>9, ConcurrencyAssumption DEF Capacity
    <2>b. ASSUME NEW k \in Instances, k # i
          PROVE  Capacity(k)'
      <3>1. JobsOf(k)' \subseteq JobsOf(k) /\ picked'[k] \subseteq picked[k]
        BY <2>1, <2>2, <2>b DEF JobsOf, TypeOK
      <3> QED
        BY <3>1, LessFits DEF CapacityInv
    <2> QED
      BY <2>a, <2>b DEF CapacityInv
  <1>5. CASE ClaimCommit(i)
    <2> DEFINE f == [p \in Won(i) |->
                  [inst |-> i, row |-> p.row, ticket |-> claims[p.row] + 1,
                   attempts |-> p.attempts, phase |-> "claimed", answer |-> "none"]]
               New == {f[p] : p \in Won(i)}
    <2>1. jobs' = jobs \cup New /\ picked' = [picked EXCEPT ![i] = {}]
      BY <1>5 DEF ClaimCommit
    <2>2. \A j \in New : j.inst = i
      OBVIOUS
    <2>3. f = [p \in Won(i) |-> f[p]]
      OBVIOUS
    <2> HIDE DEF f
    <2>4. /\ IsFiniteSet(Won(i)) /\ Cardinality(Won(i)) <= Cardinality(picked[i])
      <3>1. Won(i) \in SUBSET picked[i]
        BY DEF Won
      <3> QED
        BY <3>1, FS_Subset DEF CapacityInv, Capacity
    <2>5. IsFiniteSet(New) /\ Cardinality(New) <= Cardinality(Won(i))
      BY <2>3, <2>4, ImageBound
    <2>6. ASSUME NEW k \in Instances, k # i
          PROVE  Capacity(k)'
      <3>1. JobsOf(k)' \subseteq JobsOf(k)
        BY <2>1, <2>2, <2>6 DEF JobsOf
      <3>2. picked'[k] \subseteq picked[k]
        BY <2>1, <2>6 DEF TypeOK
      <3> QED
        BY <3>1, <3>2, LessFits DEF CapacityInv
    <2>7. Capacity(i)'
      <3>1. JobsOf(i)' = JobsOf(i) \cup New
        BY <2>1, <2>2 DEF JobsOf
      <3>2. picked'[i] = {}
        BY <2>1 DEF TypeOK
      <3> HIDE DEF New
      <3>3. IsFiniteSet(JobsOf(i)) /\ IsFiniteSet(picked[i])
            /\ Cardinality(JobsOf(i)) + Cardinality(picked[i]) <= Concurrency
        BY DEF CapacityInv, Capacity
      <3>4. /\ IsFiniteSet(JobsOf(i)')
            /\ Cardinality(JobsOf(i)') =
                 Cardinality(JobsOf(i)) + Cardinality(New) - Cardinality(JobsOf(i) \cap New)
            /\ Cardinality(JobsOf(i) \cap New) \in Nat
        BY <2>5, <3>1, <3>3, FS_Union, FS_Intersection, FS_CardinalityType
      <3>5. /\ Cardinality(JobsOf(i)) \in Nat /\ Cardinality(New) \in Nat
            /\ Cardinality(Won(i)) \in Nat /\ Cardinality(picked[i]) \in Nat
        BY <2>4, <2>5, <3>3, FS_CardinalityType
      <3>6. IsFiniteSet(picked'[i]) /\ Cardinality(picked'[i]) = 0
        BY <3>2, FS_EmptySet
      <3> QED
        BY <2>4, <2>5, <3>3, <3>4, <3>5, <3>6, ConcurrencyAssumption DEF Capacity
    <2> QED
      BY <2>6, <2>7 DEF CapacityInv
  <1>6. CASE ClaimRollback(i)
    <2>1. ASSUME NEW k \in Instances
          PROVE  JobsOf(k)' \subseteq JobsOf(k) /\ picked'[k] \subseteq picked[k]
      BY <1>6 DEF ClaimRollback, JobsOf, TypeOK
    <2> QED
      BY <2>1, LessFits DEF CapacityInv
  <1> QED
    BY <1>2, <1>3, <1>4, <1>5, <1>6 DEF Worker

LEMMA CapacityJobStep ==
    ASSUME TypeOK, CapacityInv, NEW j \in jobs, JobStep(j)
    PROVE  CapacityInv'
  <1> USE DEF tables, workers, history, bounds
  <1>1. UNCHANGED picked
    BY DEF JobStep, LookupFails, LookupFinds, Attempt, Complete, WriteLog
  <1>2. jobs' = jobs \ {j} \/ \E k : k.inst = j.inst /\ jobs' = Replace(j, k)
    <2>1. j \in Job
      BY DEF TypeOK
    <2>2. /\ \A p : [j EXCEPT !.phase = p].inst = j.inst
          /\ \A p, a : [j EXCEPT !.phase = p, !.answer = a].inst = j.inst
      BY <2>1 DEF Job
    <2> QED
      BY <2>2 DEF JobStep, LookupFails, LookupFinds, Attempt, Complete, WriteLog, AfterComplete
  <1>3. ASSUME jobs' = jobs \ {j}
        PROVE  CapacityInv'
    BY <1>1, <1>3, LessFits DEF CapacityInv, JobsOf
  <1>4. ASSUME NEW k, k.inst = j.inst, jobs' = Replace(j, k)
        PROVE  CapacityInv'
    BY <1>1, <1>4, ReplacedFits DEF CapacityInv
  <1> QED
    BY <1>2, <1>3, <1>4

LEMMA CapacityStep ==
    ASSUME TypeOK, CapacityInv, [Next]_vars
    PROVE  CapacityInv'
  <1>1. ASSUME UNCHANGED <<jobs, picked>>
        PROVE  CapacityInv'
    BY <1>1, LessFits DEF CapacityInv, JobsOf
  <1>2. ASSUME NEW w \in Webhooks, Management(w)
        PROVE  CapacityInv'
    BY <1>1, <1>2 DEF Management, Create, Delete, DeleteLogs, DeleteDeliveries, CleanupFails, workers
  <1>3. ASSUME NEW e \in Events, Dispatching(e)
        PROVE  CapacityInv'
    BY <1>1, <1>3 DEF Dispatching, Dispatch, Enqueue, EnqueueFails, workers
  <1>4. ASSUME NEW r \in Deliveries, BecomeDue(r)
        PROVE  CapacityInv'
    BY <1>1, <1>4 DEF BecomeDue, workers
  <1>5. CASE UNCHANGED vars
    BY <1>1, <1>5 DEF vars, workers
  <1> QED
    BY <1>2, <1>3, <1>4, <1>5, CapacityWorker, CapacityJobStep DEF Next

(* No instance ever runs more deliveries than its workers, although the      *)
(* claim reads the free capacity before it commits: what it picked counts    *)
(* against the capacity until then.                                          *)
THEOREM WorkersAreBounded == Spec => []ConcurrencyBounded
  <1>1. Init => CapacityInv
    BY FS_EmptySet, ConcurrencyAssumption DEF Init, CapacityInv, Capacity, JobsOf
  <1>2. CapacityInv => ConcurrencyBounded
    <2> SUFFICES ASSUME CapacityInv, NEW i \in Instances
                 PROVE  Cardinality(JobsOf(i)) <= Concurrency
      BY DEF ConcurrencyBounded, Inflight, JobsOf
    <2>1. Cardinality(JobsOf(i)) \in Nat /\ Cardinality(picked[i]) \in Nat
      BY FS_CardinalityType DEF CapacityInv, Capacity
    <2> QED
      BY <2>1, ConcurrencyAssumption DEF CapacityInv, Capacity
  <1> QED
    BY <1>1, <1>2, CapacityStep, TypeCorrect, PTL DEF Spec
=================================================================================
