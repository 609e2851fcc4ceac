------------------------------- MODULE MCContent -------------------------------
(* Content entries and the search indexes side by side, one of them at work.  *)
EXTENDS ContentEntries, SearchIndexes, TLC

VARIABLE subject

allContentVars == <<subject, contentVars, indexVars>>

Init ==
    /\ subject \in {"entries", "indexes"}
    /\ ContentInit /\ IndexInit

Next ==
    /\ UNCHANGED subject
    /\ \/ subject = "entries" /\ ContentNext /\ UNCHANGED indexVars
       \/ subject = "indexes" /\ IndexNext /\ UNCHANGED contentVars

Spec == Init /\ [][Next]_allContentVars

TypeOK == ContentTypeOK /\ IndexTypeOK

Symmetric == Permutations(Clients) \cup Permutations(Caches)
=================================================================================
