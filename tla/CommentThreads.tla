----------------------------- MODULE CommentThreads -----------------------------
(***************************************************************************)
(* Comments on the articles of one tenant.  A request looks at the article,  *)
(* then at the comment it replies to, inserts its own and counts it, each in *)
(* a statement of its own; articles are closed or deleted and comments       *)
(* moderated or deleted in between.                                          *)
(***************************************************************************)
EXTENDS Integers, Sequences, FiniteSets

CONSTANTS
    Threads,        \* articles
    Posters,        \* requests at work at the same time
    MaxComments,    \* bound: comments inserted
    MaxJudgements,  \* bound: decisions of moderators and of the articles' editors
    MaxGaps         \* bound: requests that fail or die on their way

ASSUME CommentBounds == {MaxComments, MaxJudgements, MaxGaps} \subseteq Nat

VARIABLES
    thread,       \* thread[a]: the article's row as far as comments depend on it
    comment,      \* the rows, in the order of their insertion
    counter,      \* counter[a]: the article's comment_count
    post,         \* post[p]: what request p does
    judgements, gaps,
    uncounted,    \* history: comments whose counting failed, or met no article
    vetted,       \* history: comments an editor wrote, or that were approved last
    disturbed     \* history: requests under whom the article they had seen open was
                  \* closed or deleted, or the parent they had seen was deleted

commentHistory == <<uncounted, vetted, disturbed>>
commentVars    == <<thread, comment, counter, post, judgements, gaps, commentHistory>>

Comments == 1 .. Len(comment)
Statuses == {"pending", "approved", "rejected"}     \* spam or trash
NoPost   == [step |-> "idle"]
Posting  == [step : {"parent", "insert"}, on : Threads, parent : 0 .. MaxComments,
             editor : BOOLEAN, depth : 0 .. MaxComments]
Counting == [step : {"count"}, mine : 1 .. MaxComments]

CommentsTypeOK ==
    /\ thread \in [Threads -> {"open", "closed", "deleted"}]
    /\ Len(comment) <= MaxComments
    /\ \A c \in Comments : comment[c] \in
          [on : Threads, parent : 0 .. MaxComments, depth : 0 .. MaxComments,
           status : Statuses, live : BOOLEAN]
    /\ counter \in [Threads -> 0 .. MaxComments]
    /\ \A p \in Posters : post[p] = NoPost \/ post[p] \in Posting \cup Counting
    /\ judgements \in 0 .. MaxJudgements /\ gaps \in 0 .. MaxGaps
    /\ uncounted \subseteq Comments /\ vetted \subseteq Comments
    /\ disturbed \subseteq Posters

(* allow_comment = false is not stored by an insert: the column's default,   *)
(* TRUE, takes its place.  Articles begin open and are closed by an update.  *)
CommentsInit ==
    /\ thread = [a \in Threads |-> "open"] /\ comment = <<>>
    /\ counter = [a \in Threads |-> 0]
    /\ post = [p \in Posters |-> NoPost]
    /\ judgements = 0 /\ gaps = 0
    /\ uncounted = {} /\ vetted = {} /\ disturbed = {}

---------------------------------------------------------------------------------
LiveComments == {c \in Comments : comment[c].live}

(* Comments of a: approved, at the top or a reply to one of those.           *)
Approved(a) == {c \in LiveComments : comment[c].on = a /\ comment[c].status = "approved"}

FindArticleComments(a) ==
    LET top == {c \in Approved(a) : comment[c].parent = 0}
    IN  top \cup {c \in LiveComments : comment[c].parent \in top /\ comment[c].status = "approved"}

---------------------------------------------------------------------------------
(* The article is there and open for comments.                               *)
MayComment(a) == thread[a] = "open"

(* For the mutant: any article that is there will do.                        *)
IsThere(a) == thread[a] # "deleted"

FindArticle(p, a, parent, editor) ==
    /\ post[p] = NoPost /\ MayComment(a) /\ Len(comment) < MaxComments
    /\ post' = [post EXCEPT ![p] =
                  [step |-> IF parent = 0 THEN "insert" ELSE "parent", on |-> a,
                   parent |-> parent, editor |-> editor, depth |-> 0]]
    /\ UNCHANGED <<thread, comment, counter, judgements, gaps, commentHistory>>

(* A parent that is gone, or on another article, ends the request.           *)
FindParent(p) ==
    /\ post[p].step = "parent"
    /\ LET c == post[p].parent
       IN  IF c \in LiveComments /\ comment[c].on = post[p].on
           THEN /\ post' = [post EXCEPT ![p].step = "insert", ![p].depth = comment[c].depth + 1]
                /\ UNCHANGED disturbed
           ELSE post' = [post EXCEPT ![p] = NoPost] /\ disturbed' = disturbed \ {p}
    /\ UNCHANGED <<thread, comment, counter, judgements, gaps, uncounted, vetted>>

(* An editor's comment is approved at once.                                  *)
CreateComment(p) ==
    /\ post[p].step = "insert" /\ Len(comment) < MaxComments
    /\ LET r == post[p]
           c == Len(comment) + 1
       IN  /\ comment' = Append(comment, [on |-> r.on, parent |-> r.parent, depth |-> r.depth,
                                          status |-> IF r.editor THEN "approved" ELSE "pending",
                                          live |-> TRUE])
           /\ post' = [post EXCEPT ![p] = [step |-> "count", mine |-> c]]
           /\ vetted' = IF r.editor THEN vetted \cup {c} ELSE vetted
           /\ disturbed' = disturbed \ {p}
    /\ UNCHANGED <<thread, counter, judgements, gaps, uncounted>>

(* For the mutant: the comments are counted again.                           *)
CountAgain(a) == Cardinality({c \in LiveComments : comment[c].on = a})

CountUp(a) == counter[a] + 1

IncrementArticleCommentCount(p) ==
    /\ post[p].step = "count"
    /\ LET a == comment[post[p].mine].on
       IN  IF thread[a] # "deleted"
           THEN counter' = [counter EXCEPT ![a] = CountUp(a)] /\ UNCHANGED uncounted
           ELSE uncounted' = uncounted \cup {post[p].mine} /\ UNCHANGED counter
    /\ post' = [post EXCEPT ![p] = NoPost]
    /\ UNCHANGED <<thread, comment, judgements, gaps, vetted, disturbed>>

(* A failing count is not reported; a request that dies leaves its comment.  *)
PostFails(p) ==
    /\ post[p] # NoPost /\ gaps < MaxGaps
    /\ gaps' = gaps + 1
    /\ uncounted' = IF post[p].step = "count" THEN uncounted \cup {post[p].mine} ELSE uncounted
    /\ post' = [post EXCEPT ![p] = NoPost]
    /\ disturbed' = disturbed \ {p}
    /\ UNCHANGED <<thread, comment, counter, judgements, vetted>>

---------------------------------------------------------------------------------
Judge == judgements < MaxJudgements /\ judgements' = judgements + 1

(* One comment or several, the ones that are there.                          *)
BulkUpdateStatus(cs, status) ==
    /\ Judge
    /\ comment' = [c \in Comments |-> IF c \in cs \cap LiveComments
                                      THEN [comment[c] EXCEPT !.status = status] ELSE comment[c]]
    /\ vetted' = IF status = "approved" THEN vetted \cup (cs \cap LiveComments) ELSE vetted \ cs
    /\ UNCHANGED <<thread, counter, post, gaps, uncounted, disturbed>>

BulkDelete(cs) ==
    /\ Judge
    /\ comment' = [c \in Comments |-> IF c \in cs THEN [comment[c] EXCEPT !.live = FALSE]
                                      ELSE comment[c]]
    /\ disturbed' = disturbed \cup {p \in Posters : post[p].step = "insert" /\ post[p].parent \in cs}
    /\ UNCHANGED <<thread, counter, post, gaps, uncounted, vetted>>

(* The article is updated or deleted.                                        *)
ChangeThread(a, state) ==
    /\ Judge
    /\ thread[a] \notin {state, "deleted"}
    /\ thread' = [thread EXCEPT ![a] = state]
    /\ disturbed' = disturbed \cup {p \in Posters : post[p].step \in {"parent", "insert"} /\ post[p].on = a}
    /\ UNCHANGED <<comment, counter, post, gaps, uncounted, vetted>>

CommentsNext ==
    \/ \E p \in Posters :
          \/ \E a \in Threads, parent \in 0 .. MaxComments, editor \in BOOLEAN :
                parent <= Len(comment) /\ FindArticle(p, a, parent, editor)
          \/ FindParent(p) \/ CreateComment(p) \/ IncrementArticleCommentCount(p) \/ PostFails(p)
    \/ \E cs \in SUBSET Comments \ {{}} :
          \/ \E status \in {"approved", "rejected"} : BulkUpdateStatus(cs, status)
          \/ BulkDelete(cs)
    \/ \E a \in Threads, state \in {"open", "closed", "deleted"} : ChangeThread(a, state)

CommentsSpec == CommentsInit /\ [][CommentsNext]_commentVars

---------------------------------------------------------------------------------
(* The article's counter is the number of comments it was ever given, but    *)
(* for those whose count failed or is still to come.  Deleting a comment     *)
(* does not count down.                                                      *)
CounterIsExplained ==
    \A a \in Threads :
        counter[a] = Cardinality({c \in Comments :
            /\ comment[c].on = a /\ c \notin uncounted
            /\ \A p \in Posters : post[p] # [step |-> "count", mine |-> c]})

(* What readers see of an article was approved and is of the article, with   *)
(* what it replies to.                                                       *)
ShownIsVetted ==
    \A a \in Threads : \A c \in FindArticleComments(a) :
        c \in vetted /\ comment[c].on = a /\ comment[c].depth <= 1

(* A reply is on the article of the comment above it, one level down.        *)
RepliesFit ==
    \A c \in Comments : LET p == comment[c].parent
                        IN  p # 0 => /\ comment[p].on = comment[c].on
                                     /\ comment[c].depth = comment[p].depth + 1

(* A comment is inserted where the article is open and what it replies to    *)
(* there, unless either changed after its request had looked.                *)
InsertedWhereAllowed ==
    \A p \in Posters \ disturbed :
        post[p].step = "insert" =>
            /\ thread[post[p].on] = "open"
            /\ post[p].parent \in {0} \cup LiveComments

CommentsHold == CounterIsExplained /\ ShownIsVetted /\ RepliesFit /\ InsertedWhereAllowed
=================================================================================
