---------------------------- MODULE MCArticleEditing ----------------------------
(* ArticleEditing with interchangeable clients.                             *)
EXTENDS ArticleEditing, TLC

AllEdits     == EditOps
TextEdits    == {"update", "restore"}

ClientSymmetry == Permutations(Clients)
=================================================================================
