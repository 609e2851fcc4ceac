------------------------------- MODULE LoginGuard -------------------------------
(***************************************************************************)
(* Failed logins of one account.  Each process has a guard in its memory;    *)
(* with Redis the count and the lock are shared, and a process whose call of *)
(* Redis fails asks its own guard instead.  A count begins with its first    *)
(* failure and ends a window later, however many failures follow; the fifth  *)
(* locks.  A login asks whether the account is locked, and reports how it    *)
(* went only when the password has been compared: a right one clears the      *)
(* count, and a code that is wrong after it counts as one more failure.       *)
(***************************************************************************)
EXTENDS Integers, FiniteSets

CONSTANTS
    Guards,        \* processes, each with the guard in its memory
    maxAttempts,   \* failures that lock
    windowDuration,
    lockDuration,
    MaxTime,       \* bound: the clock
    MaxPending,    \* bound: logins let through and not over yet, per process
    MaxFailures,   \* bound: failures at one time
    MaxErrors      \* bound: calls of Redis that fail

ASSUME GuardAssumption ==
    /\ maxAttempts \in Nat \ {0, 1}
    /\ {windowDuration, lockDuration} \subseteq Nat \ {0}
    /\ IsFiniteSet(Guards)
    /\ {MaxTime, MaxPending, MaxFailures, MaxErrors} \subseteq Nat

VARIABLES
    withRedis,     \* the count and the lock are in Redis, as configured
    now,
    record,        \* record[i]: the attempt record in the memory of i
    failKey,       \* the count in Redis, and when it ends
    lockKey,       \* when the lock in Redis ends, 0 without one
    pending,       \* pending[i]: logins that passed the check of i
    challenged,    \* challenged[i]: of these, with a right password and a code to compare
    errors,
    failed,        \* history: failed[t]: failures recorded at time t
    admitted,      \* history: of these, since a right password, the ones that met no lock
    endless        \* history: the count in Redis has no end

guardVars == <<withRedis, now, record, failKey, lockKey, pending, challenged,
               errors, failed, admitted, endless>>

Times == 0 .. MaxTime
Never == MaxTime + windowDuration + lockDuration + 1
Later == 0 .. Never

NoRecord == [count |-> 0, first |-> 0, until |-> 0]

GuardTypeOK ==
    /\ withRedis \in BOOLEAN
    /\ now \in Times
    /\ record \in [Guards -> [count : Nat, first : Times, until : Later]]
    /\ failKey \in [count : Nat, ends : Later]
    /\ lockKey \in Later
    /\ pending \in [Guards -> 0 .. MaxPending]
    /\ challenged \in [Guards -> Nat]
    /\ errors \in 0 .. MaxErrors
    /\ failed \in [Times -> 0 .. MaxFailures]
    /\ \A t \in Times : admitted[t] \in 0 .. failed[t]
    /\ endless \in BOOLEAN

GuardInit ==
    /\ withRedis \in BOOLEAN
    /\ now = 0
    /\ record = [i \in Guards |-> NoRecord]
    /\ failKey = [count |-> 0, ends |-> 0] /\ lockKey = 0
    /\ pending = [i \in Guards |-> 0] /\ challenged = [i \in Guards |-> 0]
    /\ errors = 0
    /\ failed = [t \in Times |-> 0] /\ admitted = [t \in Times |-> 0]
    /\ endless = FALSE

---------------------------------------------------------------------------------

(* What the guard in the memory of i, or Redis, says of the account.         *)
LockedHere(i) == now < record[i].until
LockedThere   == now < lockKey

(* Redis drops a count whose time is over.                                   *)
CountThere == IF now < failKey.ends THEN failKey.count ELSE 0

Reported(lock) ==
    /\ failed[now] < MaxFailures
    /\ failed' = [failed EXCEPT ![now] = @ + 1]
    /\ admitted' = [admitted EXCEPT ![now] = IF lock THEN @ ELSE @ + 1]

(* For the mutants: a failure is reported of a login that was not let in.    *)
TakeAny(i) == pending' = [pending EXCEPT ![i] = @ - 1] /\ UNCHANGED challenged

(* The password of a login, or its code, has been compared.                  *)
TakePassword(i) == pending[i] > 0 /\ pending' = [pending EXCEPT ![i] = @ - 1]
TakeCode(i) == challenged[i] > 0 /\ challenged' = [challenged EXCEPT ![i] = @ - 1]

Take(i) ==
    \/ TakePassword(i) /\ UNCHANGED challenged
    \/ TakeCode(i) /\ UNCHANGED pending

Error == errors < MaxErrors /\ errors' = errors + 1

(* A call of Redis that fails, or the only guard there is.                   *)
AskMemory == IF withRedis THEN Error ELSE UNCHANGED errors

LetIn(i) ==
    /\ pending[i] + challenged[i] < MaxPending
    /\ pending' = [pending EXCEPT ![i] = @ + 1]
    /\ UNCHANGED challenged

CheckHere(i) ==
    /\ AskMemory
    /\ ~ LockedHere(i)
    /\ LetIn(i)
    /\ UNCHANGED <<now, record, failKey, lockKey, failed, admitted, endless>>

CheckThere(i) ==
    /\ withRedis /\ ~ LockedThere
    /\ LetIn(i)
    /\ UNCHANGED <<now, record, failKey, lockKey, errors, failed, admitted, endless>>

(* For the mutants: the window that is over is not begun anew.               *)
CurrentForever(r) ==
    IF r.count = 0 THEN [count |-> 0, first |-> now, until |-> 0] ELSE r

(* The record a failure is added to: a new one, or one whose window is over  *)
(* and which begins again.                                                   *)
Current(r) ==
    IF r.count = 0 \/ now - r.first > windowDuration
    THEN [count |-> 0, first |-> now, until |-> 0] ELSE r

(* For the mutants: one failure more.                                        *)
LocksBeyond(count) == count > maxAttempts

Locks(count) == count >= maxAttempts

RecordFailedHere(i) ==
    /\ AskMemory /\ Take(i)
    /\ LET r == Current(record[i])
           n == r.count + 1
       IN /\ record' = [record EXCEPT ![i] =
                [r EXCEPT !.count = n, !.until = IF Locks(n) THEN now + lockDuration ELSE @]]
          /\ Reported(Locks(n))
    /\ UNCHANGED <<now, failKey, lockKey, endless>>

(* Only the first failure of a count gives it an end, and an error of that   *)
(* call is ignored.                                                          *)
RecordFailedThere(i) ==
    /\ withRedis /\ Take(i)
    /\ LET n == CountThere + 1 IN
          /\ \/ /\ failKey' = [count |-> n, ends |-> IF n = 1 THEN now + windowDuration
                                                    ELSE failKey.ends]
                /\ endless' = IF n = 1 THEN FALSE ELSE endless
                /\ UNCHANGED errors
             \/ /\ n = 1 /\ Error
                /\ failKey' = [count |-> n, ends |-> Never]
                /\ endless' = TRUE
          /\ lockKey' = IF Locks(n) THEN now + lockDuration ELSE lockKey
          /\ Reported(Locks(n))
    /\ UNCHANGED <<now, record>>

(* The lock is answered, and was not written.                                *)
RecordFailedUnlocked(i) ==
    /\ withRedis /\ Take(i) /\ Error
    /\ Locks(CountThere + 1)
    /\ failKey' = [failKey EXCEPT !.count = @ + 1]
    /\ Reported(TRUE)
    /\ UNCHANGED <<now, record, lockKey, endless>>

(* The password is right, and a code may be asked for next.  The guard of the *)
(* process is cleared whether or not Redis answers.                          *)
RecordSuccess(i) ==
    /\ TakePassword(i)
    /\ challenged' \in {challenged, [challenged EXCEPT ![i] = @ + 1]}
    /\ record' = [record EXCEPT ![i] = NoRecord]
    /\ \/ /\ withRedis
          /\ failKey' = [count |-> 0, ends |-> 0] /\ lockKey' = 0 /\ endless' = FALSE
          /\ UNCHANGED errors
       \/ AskMemory /\ UNCHANGED <<failKey, lockKey, endless>>
    /\ admitted' = [t \in Times |-> 0]
    /\ UNCHANGED <<now, failed>>

(* A login that reports nothing more: the account is disabled, no code came   *)
(* with the password, the factor cannot be read, or the code is right.       *)
ReportNothing(i) ==
    /\ Take(i)
    /\ UNCHANGED <<now, record, failKey, lockKey, errors, failed, admitted, endless>>

(* Every minute: records with a lock that is over, and a window.             *)
CleanUp(i) ==
    /\ record[i].until # 0
    /\ now > record[i].until /\ now - record[i].first > windowDuration
    /\ record' = [record EXCEPT ![i] = NoRecord]
    /\ UNCHANGED <<now, failKey, lockKey, pending, challenged, errors, failed, admitted, endless>>

TickGuard ==
    /\ now < MaxTime
    /\ now' = now + 1
    /\ UNCHANGED <<record, failKey, lockKey, pending, challenged, errors, failed, admitted, endless>>

GuardNext ==
    /\ UNCHANGED withRedis
    /\ \/ TickGuard
       \/ \E i \in Guards :
             \/ CheckHere(i) \/ CheckThere(i)
             \/ RecordFailedHere(i) \/ RecordFailedThere(i) \/ RecordFailedUnlocked(i)
             \/ RecordSuccess(i) \/ ReportNothing(i) \/ CleanUp(i)

GuardSpec == GuardInit /\ [][GuardNext]_guardVars

---------------------------------------------------------------------------------

FailuresIn(f, a, b) ==
    LET upTo[t \in a - 1 .. b] == IF t < a THEN 0 ELSE f[t] + upTo[t - 1]
    IN upTo[b]
Earliest(t) == IF t < 0 THEN 0 ELSE t

(* An account is locked only by maxAttempts failures within one window before *)
(* the lock: failures spread over more time never add up, unless the call    *)
(* that gives the count in Redis its end was lost.                           *)
LockImpliesBurst ==
    \A until \in {record[i].until : i \in Guards} \cup {lockKey} :
        now < until /\ ~ endless =>
            LET at == until - lockDuration IN
            FailuresIn(failed, Earliest(at - windowDuration), at) >= maxAttempts

(* In any window of time, wherever it begins, and while no password is right, *)
(* at most two counts let failures pass without a lock, one less than         *)
(* maxAttempts each, and one failure more for each call of Redis that failed; *)
(* without Redis each process counts for itself.  A right password begins     *)
(* the counting anew, of passwords and of codes (auth_service.go:215-218).    *)
AdmittedFailuresBounded ==
    \A t \in Times : t + windowDuration <= MaxTime =>
        FailuresIn(admitted, t, t + windowDuration) <=
            2 * (maxAttempts - 1) * (IF withRedis THEN 1 ELSE Cardinality(Guards)) + errors

(* The guard locks only for a limit of failures in one window, and between    *)
(* two right passwords it lets no window hold more than two counts of them    *)
(* (login_guard.go:126-137, redis_login_guard.go:78-96).                     *)
LocksFollowFailures == LockImpliesBurst /\ AdmittedFailuresBounded

---------------------------------------------------------------------------------

(* A caller who knows the password and not the codes.                        *)
CodesNext ==
    /\ GuardNext
    /\ \A i \in Guards : pending'[i] < pending[i] => challenged'[i] > challenged[i]

CodesSpec == GuardInit /\ [][CodesNext]_guardVars

(* "Failed codes count as failed attempts to block TOTP brute force"          *)
(* (auth_service.go:223): as many wrong codes at one time as lock an account  *)
(* have locked it, unless a call of Redis failed.                            *)
WrongCodesLock ==
    errors = 0 /\ failed[now] >= maxAttempts =>
        LockedThere \/ \E i \in Guards : LockedHere(i)
=================================================================================
