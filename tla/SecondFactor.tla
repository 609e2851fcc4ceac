------------------------------ MODULE SecondFactor ------------------------------
(***************************************************************************)
(* The second factor of one account.  Enrolment takes two requests: a setup  *)
(* stores a secret that is not yet in force, and a code made from it puts it *)
(* in force and is answered with backup codes, each good for one login.      *)
(* Setup, confirmation and a login by backup code read the whole row, change *)
(* their copy and save the whole copy, which brings a row back that was      *)
(* deleted meanwhile.                                                        *)
(*                                                                          *)
(* The user knows every secret and every backup code that was answered; a    *)
(* code of the authenticator is good or it is not.                           *)
(***************************************************************************)
EXTENDS Integers

CONSTANTS
    Devices,    \* requests of the account, one at a time each
    BatchCodes, \* backup codes made by one confirmation (10)
    MaxVisits   \* bound: requests

ASSUME FactorAssumption == BatchCodes \in Nat \ {0} /\ MaxVisits \in Nat

VARIABLES
    factor,     \* the row of the account in user_totps
    visit,      \* visit[d]: the request of d between its reading and its saving
    visits,     \* requests so far; they number the secrets and the batches of codes
    enrolled,   \* history: the secret that was last confirmed, 0 after a removal
    torn,       \* history: a copy was saved over a row that was not the one read
    uses,       \* history: uses[c]: logins accepted with backup code c
    loose       \* history: backup codes in a copy saved like that, or spent by it

factorVars == <<factor, visit, visits, enrolled, torn, uses, loose>>

Secrets == 1 .. MaxVisits
BackupCodes == Secrets \X (1 .. BatchCodes)

(* The id tells a row from one inserted after its deletion; 0 is given none.  *)
Factors  == [id : 0 .. MaxVisits, secret : Secrets, enabled : BOOLEAN,
             codes : SUBSET BackupCodes]
NoFactor == [id |-> 0]
NoVisit  == [op |-> "none"]
Visits   == [op : {"setup", "enable"}, read : Factors \cup {NoFactor}, copy : Factors]
            \cup [op : {"login"}, step : {"verify"}]
            \cup [op : {"login"}, step : {"spend"}, read : Factors, copy : Factors,
                  code : BackupCodes]

FactorTypeOK ==
    /\ factor \in Factors \cup {NoFactor}
    /\ visit \in [Devices -> Visits \cup {NoVisit}]
    /\ visits \in 0 .. MaxVisits
    /\ enrolled \in 0 .. MaxVisits /\ torn \in BOOLEAN
    /\ uses \in [BackupCodes -> Nat]
    /\ loose \subseteq BackupCodes

FactorInit ==
    /\ factor = NoFactor
    /\ visit = [d \in Devices |-> NoVisit]
    /\ visits = 0 /\ enrolled = 0 /\ torn = FALSE
    /\ uses = [c \in BackupCodes |-> 0] /\ loose = {}

---------------------------------------------------------------------------------

Stored  == factor # NoFactor
InForce == Stored /\ factor.enabled

Come(d, v) ==
    /\ visit[d] = NoVisit
    /\ visits < MaxVisits /\ visits' = visits + 1
    /\ visit' = [visit EXCEPT ![d] = v]

Depart(d) == visit' = [visit EXCEPT ![d] = NoVisit]

(* Save: an insert without an id, which another row of the user refuses; an   *)
(* update with one, and an insert under that id when no row has it.          *)
Accepts(copy) == ~ Stored \/ factor.id = copy.id
Written(copy) == [copy EXCEPT !.id = IF @ = 0 THEN visits ELSE @]

Save(d) ==
    LET v == visit[d] IN
    /\ Accepts(v.copy)
    /\ factor' = Written(v.copy)
    /\ Depart(d)
    /\ loose' = IF factor = v.read THEN loose
                ELSE loose \cup v.copy.codes \cup (IF v.op = "login" THEN {v.code} ELSE {})
    /\ UNCHANGED visits

(* For the mutants: a new secret at any time.                                *)
MayBeginAnyTime == TRUE

(* While the factor is in force its secret cannot be replaced.               *)
MayBegin == ~ InForce

Setup(d) ==
    /\ MayBegin
    /\ Come(d, [op |-> "setup", read |-> factor,
                copy |-> [id |-> factor.id, secret |-> visits + 1, enabled |-> FALSE,
                          codes |-> {}]])
    /\ UNCHANGED <<factor, enrolled, torn, uses, loose>>

SaveSetup(d) ==
    /\ visit[d].op = "setup"
    /\ Save(d)
    /\ torn' = (torn \/ factor # visit[d].read)
    /\ UNCHANGED <<enrolled, uses>>

(* With a code of the secret that is stored.                                 *)
Enable(d) ==
    /\ Stored /\ ~ factor.enabled
    /\ Come(d, [op |-> "enable", read |-> factor,
                copy |-> [factor EXCEPT !.enabled = TRUE,
                             !.codes = {visits + 1} \X (1 .. BatchCodes)]])
    /\ UNCHANGED <<factor, enrolled, torn, uses, loose>>

SaveEnable(d) ==
    /\ visit[d].op = "enable"
    /\ Save(d)
    /\ enrolled' = visit[d].copy.secret
    /\ torn' = (factor # visit[d].read)
    /\ UNCHANGED uses

(* With the password.                                                        *)
Disable(d) ==
    /\ visit[d] = NoVisit
    /\ visits < MaxVisits /\ visits' = visits + 1
    /\ factor' = NoFactor
    /\ enrolled' = 0 /\ torn' = FALSE
    /\ UNCHANGED <<visit, uses, loose>>

---------------------------------------------------------------------------------
(* Logins, after the password.                                               *)

(* Required: without a factor in force the login goes on without a code.      *)
Required(d) ==
    /\ InForce
    /\ Come(d, [op |-> "login", step |-> "verify"])
    /\ UNCHANGED <<factor, enrolled, torn, uses, loose>>

AtVerify(d) == visit[d].op = "login" /\ visit[d].step = "verify"

(* A code of the authenticator, a factor removed meanwhile, or a wrong code:  *)
(* nothing is written.                                                       *)
VerifyLogin(d) ==
    /\ AtVerify(d)
    /\ Depart(d)
    /\ UNCHANGED <<factor, visits, enrolled, torn, uses, loose>>

TakeBackupCode(d) ==
    /\ AtVerify(d) /\ InForce
    /\ \E c \in factor.codes :
          visit' = [visit EXCEPT ![d] =
              [op |-> "login", step |-> "spend", read |-> factor, code |-> c,
               copy |-> [factor EXCEPT !.codes = @ \ {c}]]]
    /\ UNCHANGED <<factor, visits, enrolled, torn, uses, loose>>

SpendBackupCode(d) ==
    /\ visit[d].op = "login" /\ visit[d].step = "spend"
    /\ Save(d)
    /\ uses' = [uses EXCEPT ![visit[d].code] = @ + 1]
    /\ torn' = (torn \/ factor # visit[d].read)
    /\ UNCHANGED enrolled

(* The database refuses, or the process ends.                                *)
VisitFails(d) ==
    /\ visit[d] # NoVisit
    /\ Depart(d)
    /\ UNCHANGED <<factor, visits, enrolled, torn, uses, loose>>

FactorNext ==
    \E d \in Devices :
        \/ Setup(d) \/ SaveSetup(d)
        \/ Enable(d) \/ SaveEnable(d) \/ Disable(d)
        \/ Required(d) \/ VerifyLogin(d) \/ TakeBackupCode(d) \/ SpendBackupCode(d)
        \/ VisitFails(d)

FactorSpec == FactorInit /\ [][FactorNext]_factorVars

---------------------------------------------------------------------------------

(* Unless requests overlapped in between, the factor in force is the one that *)
(* was last confirmed and not removed (totp_service.go:42: "the user must     *)
(* disable first"), and a backup code opens one login (models/totp.go:16:     *)
(* "each is removed after use") unless a copy older than the row was saved    *)
(* with it.                                                                  *)
FactorHolds ==
    /\ ~ torn => IF enrolled = 0 THEN ~ InForce
                 ELSE InForce /\ factor.secret = enrolled
    /\ \A c \in BackupCodes : uses[c] > 1 => c \in loose
=================================================================================
