-------------------------------- MODULE TagLinks --------------------------------
(***************************************************************************)
(* Tags, the articles linked to them and the counter kept beside each tag.   *)
(* Articles are written in a transaction: a new one adds one to its tags'    *)
(* counters, an update replaces its links and counts the links of every tag  *)
(* anew.  On SQLite nobody writes beside such a transaction; elsewhere its   *)
(* count may be of links that others have changed when it commits.  Deleting *)
(* and merging tags are statements on their own, whose errors are ignored: a *)
(* merge goes on to its next statement and is answered as a success.         *)
(***************************************************************************)
EXTENDS Integers, FiniteSets, TLC

CONSTANTS
    Tags, Articles,
    Clerks,       \* requests at work at the same time
    Nobody,       \* stands for no clerk and for no article
    Databases,    \* among "sqlite", "postgres", "mysql"
    MaxWrites,    \* bound: requests begun
    MaxLosses     \* bound: statements that fail unseen, and requests that die

ASSUME TagBounds == {MaxWrites, MaxLosses} \subseteq Nat
ASSUME NobodyAssumption == Nobody \notin Clerks \cup Articles

VARIABLES
    database,
    tag,          \* tag[t]: the state of its row
    written,      \* the articles there are
    links,        \* the pairs of an article and a tag
    count,        \* count[t]: the counter of tag t
    work,         \* work[k]: what the request of clerk k does
    writes, losses,
    drifted,      \* history: tags whose links were changed and not counted since
    outdated,     \* history: outdated[k]: tags whose links changed since k counted
    carried,      \* history: carried[k]: articles with a source of k's merge when it
                  \* began, whose links nobody else has changed since
    late          \* history: links to a tag past clearing its links, or deleted as
                  \* a source of a merge

tagHistory == <<drifted, outdated, carried, late>>
tagVars    == <<database, tag, written, links, count, work, writes, losses, tagHistory>>

NoWork == [step |-> "idle"]
Updating == [step : {"commit"}, article : Articles, tags : SUBSET Tags, counts : [Tags -> 0 .. MaxWrites]]
Clearing == [step : {"row"}, target : Tags]
Merging  == [step : {"source", "leftover", "count", "store", "old", "merged"}, target : Tags,
           tags : SUBSET Tags, left : SUBSET Tags, unmoved : SUBSET Tags, source : Tags,
           old : BOOLEAN, counted : 0 .. MaxWrites]

TagsTypeOK ==
    /\ database \in Databases
    /\ tag \in [Tags -> {"never", "live", "deleted"}]
    /\ written \subseteq Articles
    /\ links \subseteq written \X Tags
    /\ count \in [Tags -> 0 .. MaxWrites]
    /\ \A k \in Clerks : work[k] = NoWork \/ work[k] \in Updating \cup Clearing \cup Merging
    /\ writes \in 0 .. MaxWrites /\ losses \in 0 .. MaxLosses
    /\ drifted \subseteq Tags
    /\ outdated \in [Clerks -> SUBSET Tags] /\ carried \in [Clerks -> SUBSET Articles]
    /\ late \subseteq links

TagsInit ==
    /\ database \in Databases
    /\ tag = [t \in Tags |-> "never"] /\ written = {} /\ links = {}
    /\ count = [t \in Tags |-> 0]
    /\ work = [k \in Clerks |-> NoWork]
    /\ writes = 0 /\ losses = 0
    /\ drifted = {} /\ late = {}
    /\ outdated = [k \in Clerks |-> {}] /\ carried = [k \in Clerks |-> {}]

---------------------------------------------------------------------------------
(* Rows, links, counters.                                                    *)

LiveTags == {t \in Tags : tag[t] = "live"}

Linked(pairs, t) == {a \in Articles : <<a, t>> \in pairs}

(* For the mutant: the recount does not look whose links it counts.          *)
CountsOfAll(pairs) == [t \in Tags |-> Cardinality(pairs)]

Counts(pairs) == [t \in Tags |-> Cardinality(Linked(pairs, t))]

WithTags(a, ids) == {p \in links : p[1] # a} \cup {<<a, t>> : t \in ids}

(* On SQLite one transaction writes at a time.                               *)
MayWrite == database = "sqlite" => \A k \in Clerks : work[k].step # "commit"

(* Tags that are deleted, or whose links have been cleared for that.         *)
PastClearing == (Tags \ LiveTags) \cup
                {work[k].target : k \in {c \in Clerks : work[c].step = "row"}}

(* The links become the given ones, by k's doing: counts taken before are    *)
(* outdated, and other merges no longer answer for these articles.           *)
Link(k, pairs) ==
    LET differ == (pairs \ links) \cup (links \ pairs)
    IN  /\ links' = pairs
        /\ outdated' = [c \in Clerks |-> outdated[c] \cup {p[2] : p \in differ}]
        /\ carried' = [c \in Clerks |-> IF c = k THEN carried[c]
                                        ELSE carried[c] \ {p[1] : p \in differ}]
        /\ late' = (late \cap pairs) \cup {p \in pairs \ links : p[2] \in PastClearing}

(* Rows of tags are deleted by k: other merges no longer answer for them.    *)
Remove(k, ts) ==
    /\ tag' = [t \in Tags |-> IF t \in ts \cap LiveTags THEN "deleted" ELSE tag[t]]
    /\ carried' = [c \in Clerks |-> IF c = k THEN carried[c]
                                    ELSE carried[c] \ UNION {Linked(links, t) : t \in ts}]

MayLose == losses < MaxLosses /\ losses' = losses + 1

Enter(k, step) == work' = [work EXCEPT ![k].step = step]
EndWork(k)      == work' = [work EXCEPT ![k] = NoWork]

---------------------------------------------------------------------------------
(* Articles.                                                                 *)

(* A tag is inserted without links.                                          *)
CreateTag(t) ==
    /\ MayWrite /\ tag[t] = "never"
    /\ tag' = [tag EXCEPT ![t] = "live"]
    /\ UNCHANGED <<database, written, links, count, work, writes, losses, tagHistory>>

(* The tags a new article is linked to and counted by.                       *)
Bumped(ids) == ids \cap LiveTags

CreateArticle(a, ids) ==
    /\ MayWrite /\ a \notin written /\ writes < MaxWrites
    /\ writes' = writes + 1
    /\ written' = written \cup {a}
    /\ Link(Nobody, WithTags(a, ids \cap LiveTags))
    /\ count' = [t \in Tags |-> IF t \in Bumped(ids) THEN count[t] + 1 ELSE count[t]]
    /\ UNCHANGED <<database, tag, work, losses, drifted>>

(* An update replaces the article's links and counts all links as its        *)
(* statement sees them: its own, and those committed.                        *)
UpdateArticle(k, a, ids) ==
    /\ MayWrite /\ work[k] = NoWork /\ writes < MaxWrites /\ a \in written
    /\ \A c \in Clerks : work[c].step = "commit" => work[c].article # a
    /\ writes' = writes + 1
    /\ work' = [work EXCEPT ![k] =
                  [step |-> "commit", article |-> a, tags |-> ids \cap LiveTags,
                   counts |-> Counts(WithTags(a, ids \cap LiveTags))]]
    /\ outdated' = [outdated EXCEPT ![k] = {}]
    /\ UNCHANGED <<database, tag, written, links, count, losses, drifted, carried, late>>

CommitUpdate(k) ==
    /\ work[k].step = "commit"
    /\ Link(k, WithTags(work[k].article, work[k].tags))
    /\ count' = work[k].counts
    /\ drifted' = outdated[k]
    /\ EndWork(k)
    /\ UNCHANGED <<database, tag, written, writes, losses>>

---------------------------------------------------------------------------------
(* Deletion of a tag.                                                        *)

BeginWork(k, t, w) ==
    /\ MayWrite /\ work[k] = NoWork /\ writes < MaxWrites /\ t \in LiveTags
    /\ writes' = writes + 1
    /\ work' = [work EXCEPT ![k] = w]

(* The links are cleared, unless that fails unseen, and the row goes next.   *)
ClearArticleAssociations(k, t) ==
    /\ BeginWork(k, t, [step |-> "row", target |-> t])
    /\ \/ /\ Link(k, {p \in links : p[2] # t})
          /\ drifted' = drifted \cup {t}
          /\ UNCHANGED losses
       \/ /\ MayLose
          /\ late' = late \cup {p \in links : p[2] = t}
          /\ UNCHANGED <<links, drifted, outdated, carried>>
    /\ UNCHANGED <<database, tag, written, count>>

DeleteTag(k) ==
    /\ work[k].step = "row" /\ MayWrite
    /\ Remove(k, {work[k].target})
    /\ EndWork(k)
    /\ UNCHANGED <<database, written, links, count, writes, losses, drifted, outdated, late>>

---------------------------------------------------------------------------------
(* Merging tags: the sources one after the other, then the target's counter, *)
(* then the rows of the sources if asked for.  `unmoved` is a history of the  *)
(* sources whose statement failed.                                           *)

StartMerge(k, sources, t, old) ==
    /\ BeginWork(k, t, [step |-> IF sources \ {t} = {} THEN "count" ELSE "source",
                        target |-> t, tags |-> sources, left |-> sources \ {t},
                        unmoved |-> {}, source |-> t, old |-> old, counted |-> 0])
    /\ carried' = [carried EXCEPT ![k] =
                     UNION {Linked(links, s) : s \in sources \cap LiveTags}]
    /\ UNCHANGED <<database, tag, written, links, count, losses, drifted, outdated, late>>

(* UPDATE OR IGNORE: the links go to the target, those it has already stay.  *)
Moved(s, t) ==
    LET going == Linked(links, s) \ Linked(links, t)
    IN  (links \ {<<a, s>> : a \in going}) \cup {<<a, t>> : a \in going}

Reach(k, s, step, failed) ==
    work' = [work EXCEPT ![k].left = @ \ {s}, ![k].source = s, ![k].step = step,
                         ![k].unmoved = @ \cup failed]

NextSource(k, left) == IF left = {} THEN "count" ELSE "source"

(* Only SQLite knows the statement, and may fail at it; elsewhere it always   *)
(* fails.  Merge goes on whatever became of it.                              *)
MergeTags(k, s) ==
    /\ work[k].step = "source" /\ s \in work[k].left /\ MayWrite
    /\ LET t == work[k].target
           next == NextSource(k, work[k].left \ {s})
       IN  \/ /\ database = "sqlite" /\ {s, t} \subseteq LiveTags
              /\ Link(k, Moved(s, t))
              /\ drifted' = drifted \cup {s, t}
              /\ Reach(k, s, "leftover", {})
              /\ UNCHANGED losses
           \/ /\ {s, t} \subseteq LiveTags
              /\ IF database = "sqlite" THEN MayLose ELSE UNCHANGED losses
              /\ Reach(k, s, next, {s})
              /\ UNCHANGED <<links, tagHistory>>
           \/ /\ ~ {s, t} \subseteq LiveTags
              /\ Reach(k, s, next, {})
              /\ UNCHANGED <<links, losses, tagHistory>>
    /\ UNCHANGED <<database, tag, written, count, writes>>

(* What the source still has is a link of the target as well, or new; it     *)
(* stays if the statement fails.                                             *)
DropLeftovers(k) ==
    /\ work[k].step = "leftover" /\ MayWrite
    /\ LET s == work[k].source
       IN  /\ Reach(k, s, NextSource(k, work[k].left), {})
           /\ \/ /\ Link(k, {p \in links : p[2] # s})
                 /\ drifted' = drifted \cup {s}
                 /\ UNCHANGED losses
              \/ MayLose /\ UNCHANGED <<links, tagHistory>>
    /\ UNCHANGED <<database, tag, written, count, writes>>

(* Without its target the merge ends in an error.                            *)
CountArticleAssociations(k) ==
    /\ work[k].step = "count"
    /\ LET t == work[k].target
       IN  IF t \notin LiveTags THEN EndWork(k)
           ELSE work' = [work EXCEPT ![k].step = "store",
                                     ![k].counted = Cardinality(Linked(links, t))]
    /\ outdated' = [outdated EXCEPT ![k] = {}]
    /\ UNCHANGED <<database, tag, written, links, count, writes, losses, drifted, carried, late>>

(* Whether the counter was written or not, Merge goes on.                    *)
UpdateCount(k) ==
    /\ work[k].step = "store" /\ MayWrite
    /\ LET t == work[k].target
       IN  \/ /\ t \in LiveTags
              /\ count' = [count EXCEPT ![t] = work[k].counted]
              /\ drifted' = IF t \in outdated[k] THEN drifted \cup {t} ELSE drifted \ {t}
              /\ UNCHANGED losses
           \/ t \notin LiveTags /\ UNCHANGED <<count, drifted, losses>>
           \/ MayLose /\ UNCHANGED <<count, drifted>>
    /\ Enter(k, IF work[k].old THEN "old" ELSE "merged")
    /\ UNCHANGED <<database, tag, written, links, writes, outdated, carried, late>>

(* All the sources go, the target among them if it was listed; or none does.  *)
DeleteSources(k) ==
    /\ work[k].step = "old" /\ MayWrite
    /\ \/ /\ Remove(k, work[k].tags)
          /\ late' = late \cup {p \in links : p[2] \in work[k].tags}
          /\ UNCHANGED losses
       \/ MayLose /\ UNCHANGED <<tag, carried, late>>
    /\ Enter(k, "merged")
    /\ UNCHANGED <<database, written, links, count, writes, drifted, outdated>>

MergeAnswered(k) ==
    /\ work[k].step = "merged"
    /\ EndWork(k)
    /\ carried' = [carried EXCEPT ![k] = {}]
    /\ UNCHANGED <<database, tag, written, links, count, writes, losses, drifted, outdated, late>>

(* A request dies, or ends with the error of a statement that is looked at;   *)
(* an open transaction leaves nothing.                                       *)
Dies(k) ==
    /\ work[k] # NoWork /\ MayLose
    /\ EndWork(k)
    /\ carried' = [carried EXCEPT ![k] = {}]
    /\ UNCHANGED <<database, tag, written, links, count, writes, drifted, outdated, late>>

TagsNext ==
    \/ \E t \in Tags : CreateTag(t)
    \/ \E a \in Articles, ids \in SUBSET Tags : CreateArticle(a, ids)
    \/ \E k \in Clerks :
          \/ \E a \in Articles, ids \in SUBSET Tags : UpdateArticle(k, a, ids)
          \/ \E t \in Tags : ClearArticleAssociations(k, t) \/ MergeTags(k, t)
          \/ \E sources \in SUBSET Tags \ {{}}, t \in Tags, old \in BOOLEAN :
                StartMerge(k, sources, t, old)
          \/ CommitUpdate(k) \/ DeleteTag(k) \/ DropLeftovers(k) \/ CountArticleAssociations(k)
          \/ UpdateCount(k) \/ DeleteSources(k) \/ MergeAnswered(k) \/ Dies(k)

TagsSpec == TagsInit /\ [][TagsNext]_tagVars

---------------------------------------------------------------------------------
(* The counter of a live tag is the number of its links, unless they were    *)
(* moved or cleared and not counted since, or changed between a request's    *)
(* count and its write.                                                      *)
CountsMatchLinks == \A t \in LiveTags : count[t] = Cardinality(Linked(links, t)) \/ t \in drifted

(* A link leads to a live tag, unless it came while the tag's deletion was   *)
(* past clearing, the clearing failed, or a merge deleted the tag.           *)
LinksAreLive == \A p \in links : p[2] \in LiveTags \/ p \in late

(* A merge answered with success has carried the articles of its sources over *)
(* to the target, or left them as they were with a source whose statement     *)
(* failed unseen (tag_service.go:124; on PostgreSQL and MySQL, every source): *)
(* no article loses both links, but for those whose links others changed      *)
(* meanwhile.  Such a source may be deleted all the same, and its articles    *)
(* are then linked to a tag that is gone.                                    *)
MergeCarries ==
    \A k \in Clerks : work[k].step = "merged" =>
        \A a \in carried[k] : \/ <<a, work[k].target>> \in links
                              \/ \E s \in work[k].unmoved : <<a, s>> \in links

(* Tags, links and counters agree.                                           *)
TagsHold == CountsMatchLinks /\ LinksAreLive /\ MergeCarries
=================================================================================
