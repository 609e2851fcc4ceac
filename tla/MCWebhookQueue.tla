----------------------------- MODULE MCWebhookQueue -----------------------------
(* Instances of WebhookQueue for TLC: every webhook asks for every event.   *)
EXTENDS WebhookQueue, TLC

AllEvents == [w \in Webhooks |-> Events]

InstanceSymmetry == Permutations(Instances)
=================================================================================
