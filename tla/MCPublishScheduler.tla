--------------------------- MODULE MCPublishScheduler ---------------------------
(* PublishScheduler with one article in each of two tenants.                *)
EXTENDS PublishScheduler, TLC

CONSTANTS i1, i2, a1, a2, t1, t2

OneEach == a1 :> t1 @@ a2 :> t2
=================================================================================
