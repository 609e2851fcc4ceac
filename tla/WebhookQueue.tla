------------------------------ MODULE WebhookQueue ------------------------------
(***************************************************************************)
(* The persistent webhook delivery queue: WebhookService.Dispatch inserts   *)
(* rows, the WebhookWorker of every server instance claims due rows in a    *)
(* transaction, makes one HTTP attempt per claimed row in a goroutine and   *)
(* writes the outcome back under a status guard.                            *)
(*                                                                          *)
(* A row is named by the event and the webhook it was inserted for; every   *)
(* event is dispatched once.  Time is the flag "due" of a row              *)
(* (next_retry_at <= now).  "claims", "sent", "acked" and "requeued" are    *)
(* histories: they record what happened and no action reads them, except    *)
(* that a job carries the number of its claim as its identity.              *)
(***************************************************************************)
EXTENDS Integers, FiniteSets

CONSTANTS
    Instances,       \* server processes, each with one WebhookWorker
    Webhooks,        \* rows of the webhooks table
    Events,          \* calls of Dispatch
    Subscriptions,   \* Subscriptions[w]: the events webhook w asks for
    Concurrency,     \* QUEUE_MAX_WORKERS
    MaxAttempts,     \* 1 + QUEUE_MAX_RETRIES
    MaxDowns,        \* bound: how often instances stop or crash
    MaxDbErrors      \* bound: how many database calls fail

ASSUME ConcurrencyAssumption == Concurrency \in Nat \ {0}
ASSUME MaxAttemptsAssumption == MaxAttempts \in Nat \ {0}
ASSUME BoundsAssumption == MaxDowns \in Nat /\ MaxDbErrors \in Nat
ASSUME FiniteAssumption == IsFiniteSet(Webhooks) /\ IsFiniteSet(Events)
ASSUME SubscriptionsAssumption == Subscriptions \in [Webhooks -> SUBSET Events]

VARIABLES
    hook,        \* hook[w]: life of a webhook, its cascading delete included
    dispatch,    \* dispatch[e]: the webhooks Dispatch has still to insert for
    rows,        \* the webhook_deliveries table
    logs,        \* logs[r]: rows of webhook_logs written for delivery r
    mode,        \* mode[i]: state of the process and its worker
    picked,      \* picked[i]: rows read by the open claim transaction of i
    jobs,        \* the delivery goroutines
    claims,      \* claims[r]: how often r was claimed
    sent,        \* sent[r]: HTTP requests made for r
    acked,       \* deliveries whose endpoint answered 2xx
    requeued,    \* requeued[r]: how often a starting worker reset r
    downs,       \* stops and crashes so far
    dbErrors     \* failed database calls so far

tables  == <<hook, rows, logs>>
workers == <<mode, picked, jobs>>
history == <<claims, sent, acked, requeued>>
bounds  == <<downs, dbErrors>>
vars    == <<tables, dispatch, workers, history, bounds>>

Deliveries == Events \X Webhooks
HookOf(r)  == r[2]

Terminal == {"success", "failed", "exhausted"}
Status   == {"absent", "pending", "delivering"} \cup Terminal
Answers  == {"ok", "rejected", "unavailable"}

Row == [status : Status, attempts : Nat, due : BOOLEAN]
Job == [inst : Instances, row : Deliveries, ticket : Nat, attempts : Nat,
        phase : {"claimed", "sending", "answered", "logging"},
        answer : Answers \cup {"none", "gone"}]
HookLife == {"unborn", "active", "deleteLogs", "deleteDeliveries", "deleted"}

NoRow    == [status |-> "absent", attempts |-> 0, due |-> FALSE]
FreshRow == [status |-> "pending", attempts |-> 0, due |-> TRUE]

TypeOK ==
    /\ hook \in [Webhooks -> HookLife]
    /\ dispatch \in [Events -> [started : BOOLEAN, todo : SUBSET Webhooks]]
    /\ rows \in [Deliveries -> Row]
    /\ logs \in [Deliveries -> Nat]
    /\ mode \in [Instances -> {"down", "up", "draining"}]
    /\ picked \in [Instances -> SUBSET [row : Deliveries, attempts : Nat]]
    /\ jobs \in SUBSET Job
    /\ claims \in [Deliveries -> Nat]
    /\ sent \in [Deliveries -> Nat]
    /\ acked \in SUBSET Deliveries
    /\ requeued \in [Deliveries -> Nat]
    /\ downs \in 0 .. MaxDowns
    /\ dbErrors \in 0 .. MaxDbErrors

Init ==
    /\ hook = [w \in Webhooks |-> "unborn"]
    /\ dispatch = [e \in Events |-> [started |-> FALSE, todo |-> {}]]
    /\ rows = [r \in Deliveries |-> NoRow]
    /\ logs = [r \in Deliveries |-> 0]
    /\ mode = [i \in Instances |-> "down"]
    /\ picked = [i \in Instances |-> {}]
    /\ jobs = {}
    /\ claims = [r \in Deliveries |-> 0]
    /\ sent = [r \in Deliveries |-> 0]
    /\ acked = {}
    /\ requeued = [r \in Deliveries |-> 0]
    /\ downs = 0
    /\ dbErrors = 0

DbError ==
    /\ dbErrors < MaxDbErrors
    /\ dbErrors' = dbErrors + 1

---------------------------------------------------------------------------------
(* Management: creating a webhook, and the three statements of Delete.      *)

Create(w) ==
    /\ hook[w] = "unborn"
    /\ hook' = [hook EXCEPT ![w] = "active"]
    /\ UNCHANGED <<rows, logs, dispatch, workers, history, bounds>>

Delete(w) ==
    /\ hook[w] = "active"
    /\ hook' = [hook EXCEPT ![w] = "deleteLogs"]
    /\ UNCHANGED <<rows, logs, dispatch, workers, history, bounds>>

DeleteLogs(w) ==
    /\ hook[w] = "deleteLogs"
    /\ hook' = [hook EXCEPT ![w] = "deleteDeliveries"]
    /\ logs' = [r \in Deliveries |-> IF HookOf(r) = w THEN 0 ELSE logs[r]]
    /\ UNCHANGED <<rows, dispatch, workers, history, bounds>>

DeleteDeliveries(w) ==
    /\ hook[w] = "deleteDeliveries"
    /\ hook' = [hook EXCEPT ![w] = "deleted"]
    /\ rows' = [r \in Deliveries |-> IF HookOf(r) = w THEN NoRow ELSE rows[r]]
    /\ UNCHANGED <<logs, dispatch, workers, history, bounds>>

(* The errors of the two cleanup statements are ignored, and the process may *)
(* die between them: the rest of the cascade is then never done.             *)
CleanupFails(w) ==
    /\ \/ /\ hook[w] = "deleteLogs"
          /\ hook' = [hook EXCEPT ![w] = "deleteDeliveries"]
       \/ /\ hook[w] = "deleteDeliveries"
          /\ hook' = [hook EXCEPT ![w] = "deleted"]
    /\ UNCHANGED <<rows, logs, dispatch, workers, history, bounds>>

---------------------------------------------------------------------------------
(* Dispatch: list the active webhooks, then insert one row for each.        *)

Dispatch(e) ==
    /\ ~dispatch[e].started
    /\ dispatch' = [dispatch EXCEPT ![e] =
          [started |-> TRUE,
           todo |-> {w \in Webhooks : hook[w] = "active" /\ e \in Subscriptions[w]}]]
    /\ UNCHANGED <<tables, workers, history, bounds>>

Enqueue(e, w) ==
    /\ w \in dispatch[e].todo
    /\ dispatch' = [dispatch EXCEPT ![e].todo = @ \ {w}]
    /\ rows' = [rows EXCEPT ![<<e, w>>] = FreshRow]
    /\ UNCHANGED <<hook, logs, workers, history, bounds>>

(* The insert fails, or the dispatching process dies before it.             *)
EnqueueFails(e, w) ==
    /\ w \in dispatch[e].todo
    /\ dispatch' = [dispatch EXCEPT ![e].todo = @ \ {w}]
    /\ UNCHANGED <<tables, workers, history, bounds>>

---------------------------------------------------------------------------------
(* Life of a worker.                                                        *)

RequeueStaleNever(r) == FALSE

RequeueStale(r) == rows[r].status = "delivering"

(* Start resets every row in delivering, whichever instance claimed it.     *)
Start(i) ==
    /\ mode[i] = "down"
    /\ mode' = [mode EXCEPT ![i] = "up"]
    /\ \/ /\ rows' = [r \in Deliveries |->
                IF RequeueStale(r) THEN [rows[r] EXCEPT !.status = "pending"] ELSE rows[r]]
          /\ requeued' = [r \in Deliveries |->
                IF RequeueStale(r) THEN requeued[r] + 1 ELSE requeued[r]]
          /\ UNCHANGED dbErrors
       \/ DbError /\ UNCHANGED <<rows, requeued>>
    /\ UNCHANGED <<hook, logs, dispatch, picked, jobs, claims, sent, acked, downs>>

Stop(i) ==
    /\ mode[i] = "up"
    /\ downs < MaxDowns
    /\ downs' = downs + 1
    /\ mode' = [mode EXCEPT ![i] = "draining"]
    /\ UNCHANGED <<tables, dispatch, picked, jobs, history, dbErrors>>

ProcessGone(i) ==
    /\ mode' = [mode EXCEPT ![i] = "down"]
    /\ picked' = [picked EXCEPT ![i] = {}]
    /\ jobs' = {j \in jobs : j.inst # i}

(* Stop returns when the goroutines are done or after ten seconds, and the  *)
(* process ends; goroutines still running end with it.                      *)
Exit(i) ==
    /\ mode[i] = "draining"
    /\ ProcessGone(i)
    /\ UNCHANGED <<tables, dispatch, history, bounds>>

Crash(i) ==
    /\ mode[i] # "down"
    /\ downs < MaxDowns
    /\ downs' = downs + 1
    /\ ProcessGone(i)
    /\ UNCHANGED <<tables, dispatch, history, dbErrors>>

---------------------------------------------------------------------------------
(* Claiming: the transaction of ClaimDueDeliveries reads due rows, then     *)
(* moves those still pending into delivering; its row locks make the second *)
(* half one step.  The copies handed to the goroutines are those of the     *)
(* read.                                                                    *)

Inflight(i) == Cardinality({j \in jobs : j.inst = i})

AvailableIgnoringInflight(i) == Concurrency

Available(i) == Concurrency - Inflight(i)

Due == {r \in Deliveries : rows[r].status = "pending" /\ rows[r].due}

Smaller(m, n) == IF m < n THEN m ELSE n

ClaimRead(i) ==
    /\ mode[i] # "down"
    /\ picked[i] = {}
    /\ Available(i) > 0
    /\ \E S \in SUBSET Due \ {{}} :
          /\ Cardinality(S) = Smaller(Available(i), Cardinality(Due))
          /\ picked' = [picked EXCEPT ![i] =
                {[row |-> r, attempts |-> rows[r].attempts] : r \in S}]
    /\ UNCHANGED <<tables, dispatch, mode, jobs, history, bounds>>

ClaimedRowUnmarked(row) == row

ClaimedRow(row) == [row EXCEPT !.status = "delivering"]

Won(i) == {p \in picked[i] : rows[p.row].status = "pending"}

ClaimCommit(i) ==
    /\ picked[i] # {}
    /\ picked' = [picked EXCEPT ![i] = {}]
    /\ LET wonRows == {p.row : p \in Won(i)} IN
       /\ rows' = [r \in Deliveries |->
             IF r \in wonRows THEN ClaimedRow(rows[r]) ELSE rows[r]]
       /\ claims' = [r \in Deliveries |->
             IF r \in wonRows THEN claims[r] + 1 ELSE claims[r]]
    /\ jobs' = jobs \cup
          {[inst |-> i, row |-> p.row, ticket |-> claims[p.row] + 1,
            attempts |-> p.attempts, phase |-> "claimed", answer |-> "none"] : p \in Won(i)}
    /\ UNCHANGED <<hook, logs, dispatch, mode, sent, acked, requeued, bounds>>

ClaimRollback(i) ==
    /\ picked[i] # {}
    /\ picked' = [picked EXCEPT ![i] = {}]
    /\ DbError
    /\ UNCHANGED <<tables, dispatch, mode, jobs, history, downs>>

BecomeDue(r) ==
    /\ rows[r].status = "pending"
    /\ ~rows[r].due
    /\ rows' = [rows EXCEPT ![r].due = TRUE]
    /\ UNCHANGED <<hook, logs, dispatch, workers, history, bounds>>

---------------------------------------------------------------------------------
(* processDelivery: look the webhook up, make one attempt, write the        *)
(* outcome, log a terminal one.                                             *)

Replace(j, k) == (jobs \ {j}) \cup {k}

(* A webhook that is not found, or whose lookup fails, fails the delivery.  *)
LookupFails(j) ==
    /\ j.phase = "claimed"
    /\ \/ hook[HookOf(j.row)] # "active" /\ UNCHANGED dbErrors
       \/ DbError
    /\ jobs' = Replace(j, [j EXCEPT !.phase = "answered", !.answer = "gone"])
    /\ UNCHANGED <<tables, dispatch, mode, picked, history, downs>>

LookupFinds(j) ==
    /\ j.phase = "claimed"
    /\ hook[HookOf(j.row)] = "active"
    /\ jobs' = Replace(j, [j EXCEPT !.phase = "sending"])
    /\ UNCHANGED <<tables, dispatch, mode, picked, history, bounds>>

(* The request goes out to the webhook as it was read, deleted since or not. *)
Attempt(j, answer) ==
    /\ j.phase = "sending"
    /\ sent' = [sent EXCEPT ![j.row] = @ + 1]
    /\ acked' = IF answer = "ok" THEN acked \cup {j.row} ELSE acked
    /\ jobs' = Replace(j, [j EXCEPT !.phase = "answered", !.answer = answer])
    /\ UNCHANGED <<tables, dispatch, mode, picked, claims, requeued, bounds>>

BudgetSpentEarly(attempts) == attempts + 1 >= MaxAttempts

BudgetSpent(attempts) == attempts >= MaxAttempts

OutcomeRejectedAsSuccess(j) ==
    CASE j.answer \in {"ok", "rejected"} -> "success"
      [] j.answer = "gone" -> "failed"
      [] OTHER -> IF BudgetSpent(j.attempts + 1) THEN "exhausted" ELSE "pending"

OutcomeAsAnswered(j) == j.answer

Outcome(j) ==
    CASE j.answer = "ok" -> "success"
      [] j.answer \in {"rejected", "gone"} -> "failed"
      [] OTHER -> IF BudgetSpent(j.attempts + 1) THEN "exhausted" ELSE "pending"

ResolvedRowUncounted(j) ==
    [status |-> Outcome(j), attempts |-> j.attempts,
     due |-> rows[j.row].due /\ Outcome(j) # "pending"]

ResolvedRow(j) ==
    [status |-> Outcome(j), attempts |-> j.attempts + 1,
     due |-> rows[j.row].due /\ Outcome(j) # "pending"]

CompletableUnguarded(j) == rows[j.row].status # "absent"

Completable(j) == rows[j.row].status = "delivering"

AfterComplete(j) ==
    IF Outcome(j) = "pending" \/ j.answer = "gone"
    THEN jobs \ {j}
    ELSE Replace(j, [j EXCEPT !.phase = "logging"])

(* UPDATE ... WHERE id AND status = 'delivering'; its error is only logged. *)
Complete(j) ==
    /\ j.phase = "answered"
    /\ \/ /\ rows' = IF Completable(j) THEN [rows EXCEPT ![j.row] = ResolvedRow(j)] ELSE rows
          /\ UNCHANGED dbErrors
       \/ DbError /\ UNCHANGED rows
    /\ jobs' = AfterComplete(j)
    /\ UNCHANGED <<hook, logs, dispatch, mode, picked, history, downs>>

WriteLog(j) ==
    /\ j.phase = "logging"
    /\ \/ logs' = [logs EXCEPT ![j.row] = @ + 1] /\ UNCHANGED dbErrors
       \/ DbError /\ UNCHANGED logs
    /\ jobs' = jobs \ {j}
    /\ UNCHANGED <<hook, rows, dispatch, mode, picked, history, downs>>

JobStep(j) ==
    \/ LookupFails(j)
    \/ LookupFinds(j)
    \/ \E answer \in Answers : Attempt(j, answer)
    \/ Complete(j)
    \/ WriteLog(j)

---------------------------------------------------------------------------------

Management(w) ==
    \/ Create(w)
    \/ Delete(w)
    \/ DeleteLogs(w)
    \/ DeleteDeliveries(w)
    \/ CleanupFails(w)

Dispatching(e) ==
    \/ Dispatch(e)
    \/ \E w \in Webhooks : Enqueue(e, w) \/ EnqueueFails(e, w)

Worker(i) ==
    \/ Start(i)
    \/ Stop(i)
    \/ Exit(i)
    \/ Crash(i)
    \/ ClaimRead(i)
    \/ ClaimCommit(i)
    \/ ClaimRollback(i)

Next ==
    \/ \E w \in Webhooks : Management(w)
    \/ \E e \in Events : Dispatching(e)
    \/ \E i \in Instances : Worker(i)
    \/ \E r \in Deliveries : BecomeDue(r)
    \/ \E j \in jobs : JobStep(j)

(* The run loop polls on a ticker, every HTTP attempt ends within the       *)
(* client timeout, waiting makes a row due, and a process that went down is *)
(* started again by its supervisor.                                         *)
Fairness ==
    /\ \A i \in Instances :
          /\ WF_vars(Start(i))
          /\ WF_vars(Exit(i))
          /\ WF_vars(ClaimRead(i))
          /\ WF_vars(ClaimCommit(i))
    /\ \A r \in Deliveries :
          /\ WF_vars(BecomeDue(r))
          /\ WF_vars(\E j \in jobs : j.row = r /\ JobStep(j))

Spec     == Init /\ [][Next]_vars
FairSpec == Spec /\ Fairness

---------------------------------------------------------------------------------
(* Properties of any number of instances.                                   *)

(* A delivery recorded as success was answered 2xx by its endpoint in some   *)
(* attempt (processDelivery writes success for 2xx only, and a stale worker  *)
(* can only write the outcome of an attempt it made).                        *)
SuccessWasAcknowledged ==
    \A r \in Deliveries : rows[r].status = "success" => r \in acked

(* Retries are never cut short: a delivery given up as exhausted made at     *)
(* least MaxAttempts requests, whatever was claimed twice or requeued.       *)
ExhaustedSpentBudget ==
    \A r \in Deliveries : rows[r].status = "exhausted" => sent[r] >= MaxAttempts

(* A row in a terminal state is never reopened nor given another outcome; it *)
(* can only be deleted with its webhook (the status guards of claim, requeue *)
(* and complete; models/webhook.go: "ends in exactly one terminal state").   *)
TerminalIsFinal ==
    [][\A r \in Deliveries : rows[r].status \in Terminal =>
          rows'[r] = rows[r] \/ rows'[r] = NoRow]_vars

(* An instance never runs more delivery goroutines than QUEUE_MAX_WORKERS,   *)
(* although the free capacity is read before the claim transaction commits.  *)
ConcurrencyBounded ==
    \A i \in Instances : Inflight(i) <= Concurrency

(* The queue implements the contract of DeliveryContract.                    *)
Fate == [r \in Deliveries |->
    IF rows[r].status \in {"pending", "delivering"} THEN "open" ELSE rows[r].status]

Contract == INSTANCE DeliveryContract WITH fate <- Fate, acknowledged <- acked

ImplementsContract == Contract!Spec

---------------------------------------------------------------------------------
(* Properties of a single instance.                                         *)

Active(j) == j.phase \in {"claimed", "sending", "answered"}

(* No delivery has two attempts under way at once, across crashes, restarts  *)
(* and rows requeued at start: the row of an active job is delivering, or    *)
(* was deleted meanwhile.                                                    *)
OneAttemptAtATime ==
    \A j \in jobs : Active(j) =>
        /\ rows[j.row].status \in {"delivering", "absent"}
        /\ \A k \in jobs : Active(k) /\ k.row = j.row => k = j

(* Duplicate requests come only from requeued rows: beyond the retry budget  *)
(* there is at most one request for each time a restart reset the row.       *)
RequestsBounded ==
    \A r \in Deliveries : rows[r].status # "absent" =>
        sent[r] <= MaxAttempts + requeued[r]

(* A row nobody will touch before the next Start, because the write of its   *)
(* outcome, or the requeue at start, failed.                                 *)
Stranded(r) ==
    /\ dbErrors > 0
    /\ rows[r].status = "delivering"
    /\ \A i \in Instances : mode[i] = "up"
    /\ \A j \in jobs : j.row # r

(* Every enqueued delivery is eventually resolved or deleted, through        *)
(* retries, crashes and restarts, unless a failed database write strands it. *)
EventuallyResolved ==
    \A r \in Deliveries :
        rows[r].status = "pending" ~>
            rows[r].status \in Terminal \cup {"absent"} \/ Stranded(r)

---------------------------------------------------------------------------------
(* What a comment says of the code and concurrent instances refute.         *)

(* repository/webhook.go: "a row reclaimed meanwhile (or deleted) is left    *)
(* untouched": when a job is completed after its row was claimed again, its  *)
(* row stays as it is.                                                       *)
ReclaimedRowUntouched ==
    [][\A j \in jobs : j.phase = "answered" /\ claims[j.row] > j.ticket /\ j \notin jobs' =>
          rows'[j.row] = rows[j.row]]_vars
=================================================================================
