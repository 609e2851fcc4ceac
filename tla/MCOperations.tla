------------------------------ MODULE MCOperations ------------------------------
(* The media library, the categories and the tags side by side, one of them  *)
(* at work, the others at rest in their initial states.                      *)
EXTENDS MediaBackups, CategoryTree, TagLinks

VARIABLE desk

operationsVars == <<desk, backupVars, treeVars, tagVars>>

(* The models that rest begin in one state.                                   *)
Init ==
    /\ desk \in {"backups", "tree", "tags"}
    /\ BackupsInit /\ TreeInit /\ TagsInit
    /\ desk # "backups" => driver = "postgres"
    /\ desk # "tags" => database = "sqlite"

Next ==
    \/ desk = "backups" /\ BackupsNext /\ UNCHANGED <<desk, treeVars, tagVars>>
    \/ desk = "tree" /\ TreeNext /\ UNCHANGED <<desk, backupVars, tagVars>>
    \/ desk = "tags" /\ TagsNext /\ UNCHANGED <<desk, backupVars, treeVars>>

Spec == Init /\ [][Next]_operationsVars

TypeOK == BackupsTypeOK /\ TreeTypeOK /\ TagsTypeOK

(* Categories and tags hold what they should.                                 *)
TaxonomyHolds == TreeHolds /\ TagsHold

Symmetric == Permutations(Users)
=================================================================================
