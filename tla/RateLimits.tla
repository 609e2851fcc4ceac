------------------------------- MODULE RateLimits -------------------------------
(***************************************************************************)
(* The limiters of one process: a bucket per address or key, refilled by the *)
(* first request more than a minute after the last refill, and forgotten by  *)
(* a sweep when it has not been used for more than ten minutes.  The limiter *)
(* of all requests, those of groups of routes and the one of registrations   *)
(* are the same algorithm.                                                   *)
(***************************************************************************)
EXTENDS Integers, FiniteSets, Functions

CONSTANTS
    Keys,          \* addresses, or addresses with a mail address
    Limit,         \* requests per minute
    Minute, Stale, \* spans of the clock: a minute, the time after which a bucket goes
    MaxClock,      \* bound of the clock
    MaxCalls       \* bound: requests of one key at one time

ASSUME LimitAssumption ==
    {Limit, Minute, Stale, MaxClock, MaxCalls} \subseteq Nat /\ Stale > Minute /\ Limit > 0

VARIABLES
    clock,
    bucket,      \* bucket[k]: its tokens, last refill and last use, or none
    admitted,    \* history: admitted[k][t]: requests let through at time t
    refused      \* history: refused[k]: times at which a request was refused

limitVars == <<clock, bucket, admitted, refused>>

Times    == 0 .. MaxClock
NoBucket == [tokens |-> -1, reset |-> 0, seen |-> 0]

LimitsTypeOK ==
    /\ clock \in Times
    /\ bucket \in [Keys -> [tokens : -1 .. Limit, reset : Times, seen : Times]]
    /\ admitted \in [Keys -> [Times -> 0 .. MaxCalls]]
    /\ refused \in [Keys -> SUBSET Times]

LimitsInit ==
    /\ clock = 0
    /\ bucket = [k \in Keys |-> NoBucket]
    /\ admitted = [k \in Keys |-> [t \in Times |-> 0]]
    /\ refused = [k \in Keys |-> {}]

---------------------------------------------------------------------------------
Span(k, from, to) ==
    FoldFunctionOnSet(LAMBDA n, sum : n + sum, 0, admitted[k], {t \in Times : from <= t /\ t <= to})

(* The bucket a request finds: a new one, or a refilled one, if it is time.  *)
Found(k) ==
    IF bucket[k] = NoBucket \/ clock - bucket[k].reset > Minute
    THEN [tokens |-> Limit, reset |-> clock, seen |-> clock]
    ELSE [bucket[k] EXCEPT !.seen = clock]

Refuse(k) ==
    /\ Found(k).tokens <= 0
    /\ bucket' = [bucket EXCEPT ![k] = Found(k)]
    /\ refused' = [refused EXCEPT ![k] = @ \cup {clock}]
    /\ UNCHANGED <<clock, admitted>>

Admit(k) ==
    /\ admitted[k][clock] < MaxCalls /\ Found(k).tokens > 0
    /\ bucket' = [bucket EXCEPT ![k] = [Found(k) EXCEPT !.tokens = @ - 1]]
    /\ admitted' = [admitted EXCEPT ![k][clock] = @ + 1]
    /\ UNCHANGED <<clock, refused>>

(* For the mutant: a bucket goes however lately it was used.                 *)
AnyBucket(k) == TRUE

Unused(k) == clock - bucket[k].seen > Stale

Sweep ==
    /\ bucket' = [k \in Keys |-> IF Unused(k) THEN NoBucket ELSE bucket[k]]
    /\ UNCHANGED <<clock, admitted, refused>>

Tick ==
    /\ clock < MaxClock /\ clock' = clock + 1
    /\ UNCHANGED <<bucket, admitted, refused>>

LimitsNext == Tick \/ Sweep \/ \E k \in Keys : Admit(k) \/ Refuse(k)

LimitsSpec == LimitsInit /\ [][LimitsNext]_limitVars

---------------------------------------------------------------------------------
(* Within any minute a key is let through at most twice the limit, once      *)
(* before a refill and once after, sweeps notwithstanding.                   *)
AtMostTwice == \A k \in Keys, t \in Times : Span(k, t, t + Minute) <= 2 * Limit

(* A request is refused only when as many as the limit were let through in   *)
(* the minute before.                                                        *)
RefusedForCause ==
    \A k \in Keys : \A t \in refused[k] : Span(k, t - Minute, t) >= Limit

LimitsHold == AtMostTwice /\ RefusedForCause
=================================================================================
