--------------------------- MODULE MCArticleWorkflow ---------------------------
(* ArticleWorkflow under requests at work at the same time, or, with more of  *)
(* them, one after another and without the sweep.                             *)
EXTENDS ArticleWorkflow, FiniteSets, TLC

CONSTANT MaxTogether   \* bound: operations started when they may overlap

ASSUME TogetherAssumption == MaxTogether \in 0 .. MaxIssued

VARIABLE serial

workflowVars == <<serial, vars>>

AllOps   == Ops
AllPosts == [a \in Articles |-> "post"]

Busy == {q \in Requests : request[q] # Idle}

InOrder ==
    IF serial
    THEN Cardinality(Busy') <= 1 /\ \A q \in Busy' : request'[q].op # "sweep"
    ELSE issued' <= MaxTogether

WorkflowInit == serial \in BOOLEAN /\ Init
WorkflowNext == UNCHANGED serial /\ Next /\ InOrder
WorkflowSpec == WorkflowInit /\ [][WorkflowNext]_workflowVars

RequestSymmetry == Permutations(Requests)

(* When operations run one after another, nothing is in progress and nothing  *)
(* failed, the search index shows exactly the published posts as published    *)
(* (NewRoutes: "every create/update/delete/status-transition keeps the index  *)
(* in sync").                                                                 *)
SearchableWhenSerial == serial => SearchableIffPublished

(* When they do, every audit row of an article starts where the one before it *)
(* ended, whatever failed between the two statements of a transition          *)
(* (transitionTo).                                                            *)
ChainedWhenSerial == serial => TrailIsChained
=================================================================================
