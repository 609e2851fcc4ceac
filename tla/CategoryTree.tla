------------------------------ MODULE CategoryTree ------------------------------
(***************************************************************************)
(* The categories of one tenant and the articles in them.  A request finds   *)
(* its category and a free slug, and writes in a later statement, so two     *)
(* editors interleave; a deletion takes articles and children out of the     *)
(* category and removes it in three statements without a transaction.  The   *)
(* parent and the category of an article are written as the request names    *)
(* them: nothing looks whether they exist or whose descendants they are.     *)
(*                                                                          *)
(* A slug is the number that makes it unique, 0 for the slug as asked for:   *)
(* all requests ask for the same, with names of their own (a name that is    *)
(* taken is refused and changes nothing).  The index of slugs counts the     *)
(* rows deleted, the search for a free one does not.                         *)
(***************************************************************************)
EXTENDS Integers, Sequences, FiniteSets, TLC

CONSTANTS
    MaxCats,      \* bound: categories ever created
    Pieces,       \* the articles
    Editors,      \* requests at work at the same time
    MaxOrders,    \* bound: requests begun
    MaxSlips      \* bound: statements of a deletion that fail unseen, and requests that die

ASSUME TreeBounds ==
    /\ {MaxCats, MaxOrders, MaxSlips} \subseteq Nat
    /\ Pieces \cap (0 .. MaxCats) = {}

VARIABLES
    category,     \* category[c]: its row, or "never" before there is one
    under,        \* under[x]: the parent of a category, the category of an article
    order,        \* order[e]: what the request of editor e does
    orders, slips,
    strays        \* history: rows put where they are not seen (see Place), or
                  \* left behind by a deletion

treeVars == <<category, under, order, orders, slips, strays>>

Cats  == 1 .. MaxCats
Root  == 0
Slugs == 0 .. MaxCats
Kept  == MaxCats + 1      \* no slug is written
NoOrder  == [step |-> "idle"]

Moves  == [id : Cats \cup {Root}, parent : Cats \cup {Root}]
Orders == [op : {"create", "update", "reorder", "delete"},
           step : {"write", "articles", "children", "row", "refused"},
           slug : Slugs \cup {Kept}, holders : SUBSET Cats,
           moves : {<<>>} \cup [1 .. 1 -> Moves] \cup [1 .. 2 -> Moves]]

TreeTypeOK ==
    /\ category \in [Cats -> [state : {"never", "live", "deleted"}, slug : Slugs]]
    /\ under \in [Cats \cup Pieces -> Cats \cup {Root}]
    /\ \A e \in Editors : order[e] = NoOrder \/ order[e] \in Orders
    /\ orders \in 0 .. MaxOrders /\ slips \in 0 .. MaxSlips
    /\ strays \subseteq Cats \cup Pieces

TreeInit ==
    /\ category = [c \in Cats |-> [state |-> "never", slug |-> 0]]
    /\ under = [x \in Cats \cup Pieces |-> Root]
    /\ order = [e \in Editors |-> NoOrder]
    /\ orders = 0 /\ slips = 0
    /\ strays = {}

---------------------------------------------------------------------------------
(* The tree.                                                                 *)

Live == {c \in Cats : category[c].state = "live"}
Rows == {c \in Cats : category[c].state # "never"}

(* Chain(x): x and what it is under, up to a row that is not there.          *)
Chain(x) ==
    LET up[n \in 0 .. MaxCats] ==
            IF n = 0 THEN {x}
            ELSE LET below == up[n - 1]
                 IN  below \cup ({under[y] : y \in below} \ {Root})
    IN  up[MaxCats]

(* The categories of the tree: the roots, and the children of what is in it. *)
BuildCategoryTree ==
    LET tree[n \in 0 .. MaxCats] ==
            IF n = 0 THEN {c \in Live : under[c] = Root}
            ELSE LET above == tree[n - 1]
                 IN  above \cup {c \in Live : under[c] \in above}
    IN  tree[MaxCats]

(* Deletions of p that have dealt with such rows already.                    *)
DealtWith(p, x) ==
    \E e \in Editors :
        /\ order[e] # NoOrder /\ order[e].op = "delete" /\ order[e].moves[1].id = p
        /\ order[e].step \in IF x \in Pieces THEN {"children", "row"} ELSE {"row"}

(* Writing where x is: a stray is put under a row that is not there or being *)
(* deleted, or under itself or what is under it.                             *)
Place(x, p) ==
    /\ under' = [under EXCEPT ![x] = p]
    /\ strays' = IF p # Root /\ (p \notin Live \/ DealtWith(p, x) \/ x \in Chain(p))
                 THEN strays \cup {x} ELSE strays \ {x}

---------------------------------------------------------------------------------
(* Requests.                                                                 *)

(* The first slug that no other row holds, deleted rows aside.               *)
EnsureUniqueSlug(id) ==
    CHOOSE s \in Slugs :
        /\ \A c \in Live \ {id} : category[c].slug # s
        /\ \A r \in 0 .. s - 1 : \E c \in Live \ {id} : category[c].slug = r

(* What the index has the database refuse.                                   *)
Taken(id, s) == \E c \in Rows \ {id} : category[c].slug = s

Begin(e, op, step, s, moves) ==
    /\ order[e] = NoOrder /\ orders < MaxOrders
    /\ orders' = orders + 1
    /\ order' = [order EXCEPT ![e] =
                   [op |-> op, step |-> step, slug |-> s, moves |-> moves,
                    holders |-> {c \in Live : category[c].slug = s /\ c # moves[1].id}]]
    /\ UNCHANGED <<category, under, slips, strays>>

Move(c, p) == [id |-> c, parent |-> p]

StartCreate(e, p) == Begin(e, "create", "write", EnsureUniqueSlug(Root), <<Move(Root, p)>>)

StartUpdate(e, c, p) ==
    /\ c \in Live
    /\ \E s \in {Kept, EnsureUniqueSlug(c)} :
          Begin(e, "update", "write", s, <<Move(c, p)>>)

StartReorder(e, c, p, d, q) == Begin(e, "reorder", "write", Kept, <<Move(c, p), Move(d, q)>>)

StartDeletion(e, c) == c \in Live /\ Begin(e, "delete", "articles", Kept, <<Move(c, Root)>>)

Step(e, step) == order' = [order EXCEPT ![e].step = step]
EndOrder(e)     == order' = [order EXCEPT ![e] = NoOrder]

Refuse(e) ==
    /\ Step(e, "refused")
    /\ UNCHANGED <<category, under, orders, slips, strays>>

(* The insert takes the next id, whichever request is first.                 *)
Create(e) ==
    /\ order[e] # NoOrder /\ order[e].op = "create" /\ order[e].step = "write"
    /\ IF Taken(Root, order[e].slug)
       THEN Refuse(e)
       ELSE \E c \in Cats \ Rows :
              /\ \A d \in Cats \ Rows : c <= d
              /\ category' = [category EXCEPT ![c] = [state |-> "live", slug |-> order[e].slug]]
              /\ Place(c, order[e].moves[1].parent)
              /\ EndOrder(e)
              /\ UNCHANGED <<orders, slips>>

(* The update writes the parent too, and changes nothing of a row deleted    *)
(* meanwhile without saying so.                                              *)
UpdateFields(e) ==
    /\ order[e] # NoOrder /\ order[e].op = "update" /\ order[e].step = "write"
    /\ LET c == order[e].moves[1].id
           s == order[e].slug
       IN  \/ c \notin Live /\ EndOrder(e) /\ UNCHANGED <<category, under, orders, slips, strays>>
           \/ c \in Live /\ s # Kept /\ Taken(c, s) /\ Refuse(e)
           \/ /\ c \in Live /\ (s = Kept \/ ~Taken(c, s))
              /\ category' = IF s = Kept THEN category ELSE [category EXCEPT ![c].slug = s]
              /\ Place(c, order[e].moves[1].parent)
              /\ EndOrder(e)
              /\ UNCHANGED <<orders, slips>>

(* A reorder moves one category after the other; no parent given keeps it.   *)
UpdateSortOrder(e) ==
    /\ order[e] # NoOrder /\ order[e].op = "reorder"
    /\ LET move == Head(order[e].moves)
       IN  IF move.id \in Live /\ move.parent # Root
           THEN Place(move.id, move.parent) ELSE UNCHANGED <<under, strays>>
    /\ IF Len(order[e].moves) = 1 THEN EndOrder(e)
       ELSE order' = [order EXCEPT ![e].moves = Tail(@)]
    /\ UNCHANGED <<category, orders, slips>>

---------------------------------------------------------------------------------
(* Deletion.                                                                 *)

(* The rows of one kind are taken out of the category, or the statement      *)
(* fails and nobody looks.                                                   *)
TakeOut(c, kind) ==
    \/ /\ under' = [x \in Cats \cup Pieces |-> IF x \in kind /\ under[x] = c THEN Root
                                                 ELSE under[x]]
       /\ UNCHANGED <<slips, strays>>
    \/ /\ slips < MaxSlips /\ slips' = slips + 1
       /\ strays' = strays \cup {x \in kind : under[x] = c}
       /\ UNCHANGED under

(* For the mutant: the children stay where they are.                         *)
DeletedWithChildren(e) ==
    /\ order[e].step = "children"
    /\ Step(e, "row")
    /\ UNCHANGED <<category, under, orders, slips, strays>>

MoveArticles(e) ==
    /\ order[e].step = "articles"
    /\ TakeOut(order[e].moves[1].id, Pieces)
    /\ Step(e, "children")
    /\ UNCHANGED <<category, orders>>

MoveChildren(e) ==
    /\ order[e].step = "children"
    /\ TakeOut(order[e].moves[1].id, Live)
    /\ Step(e, "row")
    /\ UNCHANGED <<category, orders>>

DeleteCategory(e) ==
    /\ order[e].step = "row"
    /\ category' = [category EXCEPT ![order[e].moves[1].id].state = "deleted"]
    /\ EndOrder(e)
    /\ UNCHANGED <<under, orders, slips, strays>>

(* A request that dies, or its answer once refused.                          *)
Stop(e) ==
    /\ order[e] # NoOrder
    /\ IF order[e].step = "refused" THEN UNCHANGED slips
       ELSE slips < MaxSlips /\ slips' = slips + 1
    /\ EndOrder(e)
    /\ UNCHANGED <<category, under, orders, strays>>

(* An article is created in a category or moved to one, alone or in bulk.    *)
SetCategory(a, c) ==
    /\ orders < MaxOrders /\ orders' = orders + 1
    /\ Place(a, c)
    /\ UNCHANGED <<category, order, slips>>

TreeNext ==
    \/ \E e \in Editors :
          \/ \E p \in Cats \cup {Root} : StartCreate(e, p)
          \/ \E c \in Cats, p \in Cats \cup {Root} : StartUpdate(e, c, p)
          \/ \E c, d \in Rows, p, q \in Cats \cup {Root} : c # d /\ StartReorder(e, c, p, d, q)
          \/ \E c \in Cats : StartDeletion(e, c)
          \/ Create(e) \/ UpdateFields(e) \/ UpdateSortOrder(e)
          \/ MoveArticles(e) \/ MoveChildren(e) \/ DeleteCategory(e) \/ Stop(e)
    \/ \E a \in Pieces, c \in Cats : SetCategory(a, c)

---------------------------------------------------------------------------------
(* A live category is in the tree, unless it or one it is under was put      *)
(* under a missing row, under itself or its own, or under a category that    *)
(* was past moving its children away, or was left behind.                    *)
TreeShowsAll == \A c \in Live \ BuildCategoryTree : Chain(c) \cap strays # {}

(* No article is in a category that is gone, with the same exceptions.       *)
RefsAreLive == \A a \in Pieces : under[a] \in Live \cup {Root} \/ a \in strays

(* A slug found free is refused only for a row deleted before or a row       *)
(* written since.                                                            *)
SlugRefusalsExplained ==
    \A e \in Editors : order[e].step = "refused" =>
        \E c \in Rows : category[c].slug = order[e].slug /\ c \notin Live \cap order[e].holders

(* The tree holds what it should.                                            *)
TreeHolds == TreeShowsAll /\ RefsAreLive /\ SlugRefusalsExplained
=================================================================================
