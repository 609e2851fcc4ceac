---------------------------- MODULE DeliveryContract ----------------------------
(***************************************************************************)
(* What the persistent webhook queue promises about one delivery, apart     *)
(* from claims, workers, retries and crashes: a delivery that was enqueued  *)
(* stays open until it reaches exactly one terminal state, it may only be   *)
(* resolved as a success if its endpoint answered 2xx, and it disappears    *)
(* only when it is forgotten together with its webhook.                     *)
(***************************************************************************)
CONSTANT Deliveries      \* identities of rows of webhook_deliveries

VARIABLES
    fate,                \* fate[d]: absent, open, or the terminal state
    acknowledged         \* the deliveries an endpoint answered 2xx to

contractVars == <<fate, acknowledged>>

TerminalFates == {"success", "failed", "exhausted"}

Init ==
    /\ fate = [d \in Deliveries |-> "absent"]
    /\ acknowledged = {}

Open(d) ==
    /\ fate[d] = "absent"
    /\ fate' = [fate EXCEPT ![d] = "open"]
    /\ UNCHANGED acknowledged

Acknowledge(d) ==
    /\ acknowledged' = acknowledged \cup {d}
    /\ UNCHANGED fate

Resolve(d, outcome) ==
    /\ fate[d] = "open"
    /\ outcome = "success" => d \in acknowledged
    /\ fate' = [fate EXCEPT ![d] = outcome]
    /\ UNCHANGED acknowledged

Forget(S) ==
    /\ fate' = [d \in Deliveries |-> IF d \in S THEN "absent" ELSE fate[d]]
    /\ UNCHANGED acknowledged

Next ==
    \/ \E d \in Deliveries :
          \/ Open(d)
          \/ Acknowledge(d)
          \/ \E outcome \in TerminalFates : Resolve(d, outcome)
    \/ \E S \in SUBSET Deliveries : Forget(S)

Spec == Init /\ [][Next]_contractVars
=================================================================================
