---------------------------- MODULE ArticleRevisions ----------------------------
(***************************************************************************)
(* The history of articles: how creating, translating, updating, restoring  *)
(* and deleting them choose slugs, translation groups and the numbers of     *)
(* revisions, several requests at once, each statement on its own.  A        *)
(* transaction reads what is committed (PostgreSQL's READ COMMITTED), and an  *)
(* UPDATE holds its row until the end of its transaction.  One title, whose    *)
(* slugs are numbered by their suffix.  Only a request's own statements are     *)
(* steps: what it finds before the first one must be there and be its own.  One *)
(* whose statement fails changes nothing, and is as good as one never made.    *)
(***************************************************************************)
EXTENDS Integers, FiniteSets, FiniteSetsExt, TLC

CONSTANTS
    Writers,          \* requests that are served at the same time, and their users
    Privileged,       \* the users who may update and delete all articles
    Locales,
    maxSlugAttempts,
    MaxStories,       \* bound: articles, the first one included
    MaxWrites         \* bound: requests that write

ASSUME RevisionAssumption ==
    /\ Privileged \subseteq Writers /\ "en" \in Locales
    /\ maxSlugAttempts \in Nat \ {0} /\ MaxStories \in Nat \ {0} /\ MaxWrites \in Nat

VARIABLES
    story,            \* story[a]: the row of an article, deleted ones included
    revisions,
    writing,          \* writing[w]: the request being served and how far it is
    begun,            \* how many there have been; the number is a request's text
    collisions        \* history: slugs that were found free and then refused

revisionVars == <<story, revisions, writing, begun, collisions>>

Stories  == 1 .. MaxStories
Slugs    == 0 .. maxSlugAttempts - 1
Texts    == 0 .. MaxWrites
Moments  == 0 .. MaxWrites + 1
Recorded == Cardinality(revisions)

Unborn == [state |-> "none"]
Idling == [op |-> "none", locked |-> FALSE]

(* A new article; the request that wrote it looked for siblings at a time.      *)
NewStory(s, g, l, t, w, looked) ==
    [state |-> "live", slug |-> s, since |-> Recorded + 1, group |-> g, locale |-> l, text |-> t,
     author |-> w, version |-> 1, looked |-> looked]

Rows ==
    [state : {"live", "deleted"}, slug : Slugs, since : Moments, group : 0 .. MaxStories,
     locale : Locales, text : Texts, author : Writers, version : Moments, looked : Moments]

(* locked: written while its transaction held the row of the article, or with   *)
(* it; from: when that row was read.                                           *)
Revision(a, n, t, locked, from) ==
    [id |-> Recorded + 1, article |-> a, number |-> n, text |-> t, locked |-> locked, from |-> from]

RevisionsTypeOK ==
    /\ story \in [Stories -> Rows \cup {Unborn}]
    /\ revisions \subseteq [id : Moments, article : Stories, number : Moments,
                            text : Texts, locked : BOOLEAN, from : Moments]
    /\ \A w \in Writers :
          \/ writing[w] = Idling
          \/ /\ writing[w].op \in {"create", "update", "annotate", "restore"}
             /\ writing[w].step \in {"sibling", "slug", "insert", "row", "number", "record"}
             /\ writing[w].locked => writing[w].row \in Rows /\ writing[w].article \in Stories
    /\ begun \in 0 .. MaxWrites
    /\ collisions \subseteq [holder : {"live", "deleted"}, since : Moments, checked : Moments]

(* One article is there, its first revision with it.                          *)
RevisionsInit ==
    /\ revisions = {[id |-> 1, article |-> 1, number |-> 1, text |-> 0, locked |-> TRUE, from |-> 0]}
    /\ \E w \in Writers :
          story = [a \in Stories |-> IF a = 1 THEN [NewStory(0, 0, "en", 0, w, 0) EXCEPT !.since = 1] ELSE Unborn]
    /\ writing = [w \in Writers |-> Idling] /\ begun = 0 /\ collisions = {}

---------------------------------------------------------------------------------
Known(a) == story[a].state # "none"
Live(a)  == story[a].state = "live"
History(a) == {r \in revisions : r.article = a}

MayTouch(w, a) == Live(a) /\ (story[a].author = w \/ w \in Privileged)

(* The root of a group of translations has none, its own identifier is it.     *)
effectiveGroupID(a) == IF story[a].group # 0 THEN story[a].group ELSE a
Group(g) == {b \in Stories : Live(b) /\ effectiveGroupID(b) = g}

ListTranslations(a)           == Group(effectiveGroupID(a)) \ {a}
FindTranslationInLocale(g, l) == {b \in Group(g) : story[b].locale = l}

Amid(w, s)    == writing[w].op # "none" /\ writing[w].step = s
Proceed(w, q) == writing' = [writing EXCEPT ![w] = q]
Finish(w)     == writing' = [writing EXCEPT ![w] = Idling]

Task(op, a, s, step) ==
    [op |-> op, article |-> a, step |-> step, slug |-> s, checked |-> 0, group |-> 0, looked |-> 0,
     text |-> begun + 1, locked |-> FALSE]

Start(w, q) ==
    /\ writing[w] = Idling /\ begun < MaxWrites
    /\ begun' = begun + 1
    /\ Proceed(w, q)
    /\ UNCHANGED <<story, revisions, collisions>>

(* Whose transaction holds the row of an article.                             *)
RowHeld(w, a) == \E v \in Writers \ {w} : writing[v].locked /\ writing[v].article = a

(* The index makes a request wait for one that is about to take the slug or to  *)
(* leave it.                                                                  *)
Contested(w, s) ==
    \E v \in Writers \ {w} :
        /\ writing[v].locked
        /\ LET old == story[writing[v].article].slug
               new == writing[v].row.slug
           IN  old # new /\ s \in {old, new}

(* The unique index knows the deleted rows too.                                *)
Holders(s, a) == {b \in Stories \ {a} : Known(b) /\ story[b].slug = s}

Collide(w) ==
    /\ collisions' = collisions \cup
          {[holder |-> story[b].state, since |-> story[b].since, checked |-> writing[w].checked] :
              b \in Holders(writing[w].slug, writing[w].article)}
    /\ Finish(w)
    /\ UNCHANGED <<story, revisions, begun>>

---------------------------------------------------------------------------------
Create(w) ==
    \E l \in Locales : Start(w, Task("create", 0, 0, "slug") @@ [locale |-> l])

(* A translation joins the group of an article as that one was when read.       *)
CreateTranslation(w) ==
    \E a \in Stories, l \in Locales :
        /\ Live(a)
        /\ Start(w, [Task("create", 0, 0, "sibling") EXCEPT !.group = effectiveGroupID(a)]
                    @@ [locale |-> l])

LookForSibling(w) ==
    /\ Amid(w, "sibling")
    /\ IF FindTranslationInLocale(writing[w].group, writing[w].locale) # {} THEN Finish(w)
       ELSE Proceed(w, [writing[w] EXCEPT !.step = "slug", !.looked = Recorded])
    /\ UNCHANGED <<story, revisions, begun, collisions>>

(* One COUNT for each candidate, among what is not deleted.                    *)
EnsureUniqueSlug(w) ==
    /\ Amid(w, "slug")
    /\ LET q == writing[w]
           taken == \E b \in Stories \ {q.article} : Live(b) /\ story[b].slug = q.slug
       IN  IF ~taken
           THEN Proceed(w, [q EXCEPT !.checked = Recorded,
                                     !.step = IF q.op = "create" THEN "insert" ELSE "row"])
           ELSE IF q.slug + 1 \in Slugs THEN Proceed(w, [q EXCEPT !.slug = @ + 1])
           ELSE Finish(w)
    /\ UNCHANGED <<story, revisions, begun, collisions>>

(* The row and its first revision.                                            *)
Insert(w) ==
    /\ Amid(w, "insert") /\ ~Contested(w, writing[w].slug)
    /\ LET q == writing[w]
           a == Cardinality({b \in Stories : Known(b)}) + 1
       IN  IF Holders(q.slug, 0) # {} THEN Collide(w)
           ELSE /\ a \in Stories
                /\ story' = [story EXCEPT ![a] = NewStory(q.slug, q.group, q.locale, q.text, w, q.looked)]
                /\ revisions' = revisions \cup {Revision(a, 1, q.text, TRUE, Recorded)}
                /\ Finish(w)
                /\ UNCHANGED <<begun, collisions>>

---------------------------------------------------------------------------------
(* A new text, with or without a new slug, or tags alone, for a version the     *)
(* client has read.                                                           *)
Update(w) ==
    \E a \in Stories, slugged, rewritten \in BOOLEAN :
        /\ MayTouch(w, a) /\ (slugged => rewritten)
        /\ \E v \in 1 .. story[a].version :
              Start(w, Task("update", a, IF slugged THEN 0 ELSE story[a].slug,
                            IF slugged THEN "slug" ELSE "row")
                       @@ [expected |-> v, slugged |-> slugged, rewritten |-> rewritten])

UpdateRow(w) ==
    /\ Amid(w, "row") /\ writing[w].op = "update"
    /\ ~RowHeld(w, writing[w].article)
    /\ LET q   == writing[w]
           old == story[q.article]
           s   == IF q.slugged THEN q.slug ELSE old.slug
       IN  IF ~Live(q.article) \/ old.version # q.expected
           THEN Finish(w) /\ UNCHANGED <<story, revisions, begun, collisions>>
           ELSE /\ s # old.slug => ~Contested(w, s)
                /\ IF s # old.slug /\ Holders(s, q.article) # {} THEN Collide(w)
                   ELSE /\ Proceed(w, [op |-> "update", article |-> q.article, step |-> "number", locked |-> TRUE,
                                from |-> Recorded,
                                row |-> [old EXCEPT !.slug = s, !.version = @ + 1,
                                                    !.text = IF q.rewritten THEN q.text ELSE @]])
                        /\ UNCHANGED <<story, revisions, begun, collisions>>

(* An update of nothing writes a revision of what it finds, without a lock.     *)
Annotate(w) ==
    \E a \in Stories : MayTouch(w, a) /\ Start(w, Task("annotate", a, 0, "row"))

ReadRow(w) ==
    /\ Amid(w, "row") /\ writing[w].op = "annotate"
    /\ LET a == writing[w].article
       IN  IF Live(a)
           THEN Proceed(w, [op |-> "annotate", article |-> a, step |-> "number", locked |-> FALSE,
                            from |-> Recorded, text |-> story[a].text])
           ELSE Finish(w)
    /\ UNCHANGED <<story, revisions, begun, collisions>>

RestoreRevision(w) ==
    \E a \in Stories : \E r \in History(a) :
        MayTouch(w, a) /\ Start(w, [Task("restore", a, 0, "row") EXCEPT !.text = r.text])

(* The version stays as it is; a row that is gone is no error.                 *)
RestoreRow(w) ==
    /\ Amid(w, "row") /\ writing[w].op = "restore"
    /\ ~RowHeld(w, writing[w].article)
    /\ LET q == writing[w]
       IN  Proceed(w, [op |-> "restore", article |-> q.article, step |-> "number", locked |-> Live(q.article),
                       from |-> Recorded, text |-> q.text, row |-> [story[q.article] EXCEPT !.text = q.text]])
    /\ UNCHANGED <<story, revisions, begun, collisions>>

MaxVersion(a) == Max({0} \cup {r.number : r \in History(a)})

Number(w) ==
    /\ Amid(w, "number")
    /\ Proceed(w, [writing[w] EXCEPT !.step = "record"] @@ [number |-> MaxVersion(writing[w].article) + 1])
    /\ UNCHANGED <<story, revisions, begun, collisions>>

(* The revision, a last look at the row after an update, and the commit.        *)
Record(w) ==
    /\ Amid(w, "record")
    /\ LET q == writing[w]
           a == q.article
       IN  IF q.op = "annotate" /\ ~Live(a) THEN UNCHANGED <<story, revisions>>
           ELSE /\ revisions' = revisions \cup
                      {Revision(a, q.number, IF q.op = "update" THEN q.row.text ELSE q.text, q.locked, q.from)}
                /\ story' = IF ~q.locked THEN story
                            ELSE [story EXCEPT ![a] =
                                    [q.row EXCEPT !.since = IF story[a].slug = q.row.slug THEN @ ELSE Recorded + 1]]
    /\ Finish(w)
    /\ UNCHANGED <<begun, collisions>>

DeleteStory(w) ==
    \E a \in Stories :
        /\ writing[w] = Idling /\ begun < MaxWrites
        /\ MayTouch(w, a) /\ ~RowHeld(w, a)
        /\ begun' = begun + 1
        /\ story' = [story EXCEPT ![a].state = "deleted"]
        /\ UNCHANGED <<revisions, writing, collisions>>

RevisionsNext ==
    \E w \in Writers :
        \/ Create(w) \/ CreateTranslation(w) \/ LookForSibling(w) \/ EnsureUniqueSlug(w) \/ Insert(w)
        \/ Update(w) \/ UpdateRow(w) \/ Annotate(w) \/ ReadRow(w)
        \/ RestoreRevision(w) \/ RestoreRow(w) \/ Number(w) \/ Record(w) \/ DeleteStory(w)

RevisionsSpec == RevisionsInit /\ [][RevisionsNext]_revisionVars

---------------------------------------------------------------------------------
LastOf(S) == CHOOSE r \in S : \A s \in S : s.id <= r.id

(* What an article shows is what the last transaction that held its row has     *)
(* recorded, and the numbers of those transactions ascend.  A revision that     *)
(* shows something else under that number or a higher one read the article     *)
(* before, or is a restoration that came after the deletion.                   *)
HistoryIsTrue ==
    \A a \in {b \in Stories : Known(b)} :
        LET firm == {r \in History(a) : r.locked}
            last == LastOf(firm)
        IN  /\ story[a].text = last.text
            /\ \A r, s \in firm : r.id < s.id => r.number < s.number
            /\ \A r \in History(a) :
                  r.number >= last.number /\ r.text # last.text => r.from < last.id \/ ~Live(a)

(* Two revisions of an article bear one number only if they were written at the  *)
(* same time, one of them without the row.                                     *)
NumbersClash ==
    \A r, s \in revisions :
        r.article = s.article /\ r.number = s.number /\ r.id < s.id =>
            s.from < r.id /\ ~(r.locked /\ s.locked)

(* The version of an article never runs ahead of the numbers of its revisions,   *)
(* which have no gap.                                                         *)
NumbersAreWhole ==
    \A a \in {b \in Stories : Known(b)} :
        /\ story[a].version <= MaxVersion(a)
        /\ {r.number : r \in History(a)} = 1 .. MaxVersion(a)

(* Groups of translations have one root, which is in no group, and whoever is    *)
(* listed as a translation lists the other as well.                            *)
GroupsAreFlat ==
    \A a, b \in {c \in Stories : Known(c)} :
        /\ story[a].group = b => story[b].group = 0 /\ b < a
        /\ Live(a) /\ Live(b) => (b \in ListTranslations(a) <=> a \in ListTranslations(b))

(* A group has two articles in a locale only if the second was on its way when   *)
(* the first was inserted.                                                    *)
TwinsWereMissed ==
    \A a, b \in {c \in Stories : Live(c)} :
        LET born == Min({r.id : r \in History(a)})
        IN  a < b /\ b \in ListTranslations(a) /\ story[a].locale = story[b].locale
            => story[b].looked < born

(* A slug that was found free is refused only if a deleted article keeps it or  *)
(* another request has taken it since; no two articles share one.              *)
RefusalsAreExplained ==
    /\ \A e \in collisions : e.holder = "deleted" \/ e.since > e.checked
    /\ \A a, b \in {c \in Stories : Known(c)} : story[a].slug = story[b].slug => a = b

RevisionsHold ==
    /\ HistoryIsTrue /\ NumbersClash /\ NumbersAreWhole
    /\ GroupsAreFlat /\ TwinsWereMissed /\ RefusalsAreExplained
=================================================================================
