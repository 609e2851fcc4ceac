------------------------------ MODULE ArticleStates ------------------------------
(***************************************************************************)
(* The publication state machine of internal/models: the statuses of an     *)
(* article and the transitions between them.                                *)
(***************************************************************************)

ArticleStatus == {"draft", "pending", "published", "scheduled", "archived", "trash"}

Transitions ==
    [draft     |-> {"pending", "published", "scheduled", "archived", "trash"},
     pending   |-> {"draft", "published", "archived", "trash"},
     published |-> {"draft", "archived", "trash"},
     scheduled |-> {"draft", "published", "archived", "trash"},
     archived  |-> {"draft", "trash"},
     trash     |-> {"draft", "published"}]

(* Staying in a status is always allowed.                                   *)
AllowedTransition(from, to) == from = to \/ to \in Transitions[from]
=================================================================================
