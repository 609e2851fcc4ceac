-------------------------- MODULE ArticleEditingProofs --------------------------
(***************************************************************************)
(* Theorems about ArticleEditing for every set of clients and processes and *)
(* every choice of offered edits.                                           *)
(***************************************************************************)
EXTENDS ArticleEditing, TLAPS

---------------------------------------------------------------------------------
(* Types.                                                                   *)

LEMMA KeysAreKeys ==
    ASSUME TypeOK
    PROVE  DetailKey \in Key /\ \A i \in Instances : ListKey(i) \in Key
  BY DEF TypeOK, Key, DetailKey, ListKey

LEMMA StoreOfIsStore == \A i \in Instances : StoreOf(i) \in Stores
  BY DEF StoreOf, Stores

LEMMA Pending ==
    ASSUME TypeOK, NEW c \in Clients, read[c].phase # "idle"
    PROVE  read[c] \in Read
  BY DEF TypeOK, Idle

LEMMA Busy ==
    ASSUME TypeOK, NEW c \in Clients, edit[c].phase # "idle"
    PROVE  edit[c] \in Edit
  BY DEF TypeOK, Idle

LEMMA CachedIsEntry ==
    ASSUME TypeOK, NEW i \in Instances, NEW key, NEW e \in Cached(i, key)
    PROVE  e \in Entry /\ e.got \in Article /\ e \in store[StoreOf(i)] /\ e.key = key
  BY StoreOfIsStore DEF TypeOK, Cached, Entry

LEMMA ReceiveTyping ==
    ASSUME TypeOK, NEW C \in SUBSET Clients, NEW got \in Article, Receive(C, got)
    PROVE  last' \in [Clients -> Answer] /\ read' \in [Clients -> Read \cup {Idle}]
  <1>1. \A d \in Clients : Outdated(read[d].key, got, read[d].since) \in BOOLEAN
    BY DEF Outdated
  <1> QED
    BY <1>1 DEF TypeOK, Receive, Answer

LEMMA ReadTyping ==
    ASSUME TypeOK, NEW c \in Clients, NEW r \in Read, read' = [read EXCEPT ![c] = r]
    PROVE  read' \in [Clients -> Read \cup {Idle}]
  BY DEF TypeOK

LEMMA EditTyping ==
    ASSUME TypeOK, NEW c \in Clients, NEW r \in Edit \cup {Idle}, edit' = [edit EXCEPT ![c] = r]
    PROVE  edit' \in [Clients -> Edit \cup {Idle}]
  BY DEF TypeOK

LEMMA AskTyping ==
    ASSUME TypeOK, NEW c \in Clients, NEW i \in Instances, Ask(c, i)
    PROVE  TypeOK'
  <1>1. reads' \in 0 .. MaxReads
    BY BoundsAssumption DEF TypeOK, Ask
  <1>2. PICK key \in {DetailKey, ListKey(i)} :
          \/ \E e \in Cached(i, key) :
                /\ last' = [last EXCEPT ![c] =
                      [got |-> e.got, behind |-> Outdated(key, e.got, bumped[i])]]
                /\ UNCHANGED read
          \/ /\ Misses(i, key)
             /\ read' = [read EXCEPT ![c] =
                   [phase |-> "miss", at |-> i, key |-> key, since |-> bumped[i],
                    got |-> Unread, overtaken |-> FALSE]]
             /\ UNCHANGED last
    BY DEF Ask
  <1>3. key \in Key
    BY KeysAreKeys
  <1>4. last' \in [Clients -> Answer] /\ read' \in [Clients -> Read \cup {Idle}]
    <2>1. ASSUME NEW e \in Cached(i, key),
                 last' = [last EXCEPT ![c] =
                      [got |-> e.got, behind |-> Outdated(key, e.got, bumped[i])]],
                 UNCHANGED read
          PROVE  <1>4!1 /\ <1>4!2
      <3>1. [got |-> e.got, behind |-> Outdated(key, e.got, bumped[i])] \in Answer
        BY CachedIsEntry DEF Answer, Outdated
      <3> QED
        BY <2>1, <3>1 DEF TypeOK
    <2>2. ASSUME read' = [read EXCEPT ![c] =
                   [phase |-> "miss", at |-> i, key |-> key, since |-> bumped[i],
                    got |-> Unread, overtaken |-> FALSE]],
                 UNCHANGED last
          PROVE  <1>4!1 /\ <1>4!2
      <3>1. [phase |-> "miss", at |-> i, key |-> key, since |-> bumped[i],
             got |-> Unread, overtaken |-> FALSE] \in Read
        BY <1>3 DEF TypeOK, Read, Unread, Article
      <3> QED
        BY <2>2, <3>1, ReadTyping DEF TypeOK
    <2> QED
      BY <1>2, <2>1, <2>2
  <1> QED
    BY <1>1, <1>4 DEF TypeOK, Ask, caching

LEMMA SharingAreClients == \A c \in Clients : \A P : Sharing(c, P) \in SUBSET Clients
  BY DEF Sharing

LEMMA FlyTyping ==
    ASSUME TypeOK, NEW c \in Clients, Fly(c)
    PROVE  TypeOK'
  <1>1. read[c] \in Read /\ read[c].at \in Instances
    BY Pending DEF Fly, Reads, Read
  <1>2. [read[c] EXCEPT !.phase = "join"] \in Read /\ [read[c] EXCEPT !.phase = "load"] \in Read
    BY <1>1 DEF Read
  <1>3. ASSUME NEW e \in Cached(read[c].at, read[c].key), Receive({c}, e.got)
        PROVE  last' \in [Clients -> Answer] /\ read' \in [Clients -> Read \cup {Idle}]
    BY <1>1, <1>3, CachedIsEntry, ReceiveTyping
  <1>4. last' \in [Clients -> Answer] /\ read' \in [Clients -> Read \cup {Idle}]
    <2>1. \/ \E e \in Cached(read[c].at, read[c].key) : Receive({c}, e.got)
          \/ UNCHANGED last /\ read' = [read EXCEPT ![c] = [read[c] EXCEPT !.phase = "join"]]
          \/ UNCHANGED last /\ read' = [read EXCEPT ![c] = [read[c] EXCEPT !.phase = "load"]]
      BY DEF Fly
    <2> QED
      BY <1>2, <1>3, <2>1, ReadTyping DEF TypeOK
  <1> QED
    BY <1>4 DEF TypeOK, Fly, caching, bounds

LEMMA LoadTyping ==
    ASSUME TypeOK, NEW c \in Clients, Load(c) \/ LoadFails(c)
    PROVE  TypeOK'
  <1>1. CASE Load(c)
    <2>1. read[c] \in Read
      BY <1>1, Pending DEF Load, Reads
    <2>2. [read[c] EXCEPT !.phase = "fill", !.got = article] \in Read
      BY <2>1 DEF Read, TypeOK
    <2>3. read' = [read EXCEPT ![c] = [read[c] EXCEPT !.phase = "fill", !.got = article]]
      BY <1>1 DEF Load, TypeOK
    <2> QED
      BY <1>1, <2>2, <2>3, ReadTyping DEF Load, TypeOK, caching, bounds
  <1>2. CASE LoadFails(c)
    BY <1>2 DEF LoadFails, TypeOK, caching, bounds
  <1> QED
    BY <1>1, <1>2

LEMMA FillTyping ==
    ASSUME TypeOK, NEW c \in Clients, Fill(c)
    PROVE  TypeOK'
  <1>1. read[c] \in Read /\ read[c].at \in Instances /\ read[c].got \in Article
    BY Pending DEF Fill, Reads, Read
  <1>2. last' \in [Clients -> Answer] /\ read' \in [Clients -> Read \cup {Idle}]
    BY <1>1, SharingAreClients, ReceiveTyping DEF Fill
  <1>3. store' \in [Stores -> SUBSET Entry]
    <2>1. [key |-> FilledKey(c), got |-> read[c].got, overtaken |-> read[c].overtaken] \in Entry
      BY <1>1 DEF Read, Entry, FilledKey
    <2>2. Filled(c) \in SUBSET Entry
      BY <1>1, <2>1, StoreOfIsStore DEF Filled, TypeOK
    <2> QED
      BY <2>2 DEF Fill, TypeOK
  <1> QED
    BY <1>2, <1>3 DEF Fill, TypeOK, bounds

LEMMA SubmitTyping ==
    ASSUME TypeOK, NEW c \in Clients, NEW i \in Instances, NEW op \in OfferedEdits,
           Submit(c, i, op)
    PROVE  TypeOK'
  <1>1. edits' \in 0 .. MaxEdits
    BY BoundsAssumption DEF TypeOK, Submit
  <1>2. PICK base \in CASE op = "update"  -> {last[c].got} \ {Unread}
                        [] op = "restore" -> {[Unread EXCEPT !.text = t] : t \in revisions}
                        [] OTHER          -> {Unread} :
          edit' = [edit EXCEPT ![c] =
              [phase |-> "commit", at |-> i, op |-> op, base |-> base, edition |-> 0]]
    BY DEF Submit
  <1>3. base \in Article
    <2>1. Unread \in Article /\ \A t \in Nat : [Unread EXCEPT !.text = t] \in Article
      BY DEF Unread, Article
    <2>2. last[c].got \in Article
      BY DEF TypeOK, Answer
    <2> QED
      BY <1>2, <2>1, <2>2 DEF TypeOK
  <1>4. [phase |-> "commit", at |-> i, op |-> op, base |-> base, edition |-> 0] \in Edit
    BY <1>3, OfferedAssumption DEF Edit
  <1> QED
    BY <1>1, <1>2, <1>4, EditTyping DEF TypeOK, Submit, caching

LEMMA CommittedTyping ==
    ASSUME TypeOK, NEW c \in Clients, Edits(c, "commit"), NEW phase \in {"reload", "bump"},
           article' \in Article, Committed(c, phase)
    PROVE  edit' \in [Clients -> Edit \cup {Idle}]
  <1>1. edit[c] \in Edit
    BY Busy DEF Edits
  <1>2. article'.edition \in Nat
    BY DEF Article
  <1>3. [edit[c] EXCEPT !.phase = phase, !.edition = article'.edition] \in Edit
    BY <1>1, <1>2 DEF Edit
  <1>4. edit' = [edit EXCEPT ![c] = [edit[c] EXCEPT !.phase = phase, !.edition = article'.edition]]
    BY DEF Committed, TypeOK
  <1> QED
    BY <1>3, <1>4, EditTyping

LEMMA Dismissed ==
    ASSUME TypeOK, NEW c \in Clients, edit' = [edit EXCEPT ![c] = Idle]
    PROVE  edit' \in [Clients -> Edit \cup {Idle}]
  BY DEF TypeOK

Commits(c) ==
    \/ CommitUpdate(c) \/ CommitAnnotate(c) \/ CommitRestore(c) \/ CommitTransition(c)
    \/ CommitDelete(c) \/ CommitFails(c)

LEMMA CommitsTyping ==
    ASSUME TypeOK, NEW c \in Clients, Commits(c)
    PROVE  TypeOK'
  <1>1. /\ article \in Article /\ article.edition + 1 \in Nat
        /\ [text |-> article.edition + 1, version |-> article.version + 1,
            edition |-> article.edition + 1] \in Article
        /\ [article EXCEPT !.edition = @ + 1] \in Article
    BY DEF TypeOK, Article
  <1>2. CASE CommitUpdate(c)
    <2>1. article' \in Article /\ revisions' \in SUBSET Nat
      BY <1>1, <1>2 DEF CommitUpdate, TypeOK, Article
    <2>2. edit' \in [Clients -> Edit \cup {Idle}]
      BY <1>2, <2>1, CommittedTyping, Dismissed DEF CommitUpdate
    <2> QED
      BY <1>2, <2>1, <2>2 DEF CommitUpdate, TypeOK, caching, bounds
  <1>3. CASE CommitAnnotate(c)
    <2>1. article' \in Article /\ revisions' \in SUBSET Nat
      BY <1>1, <1>3 DEF CommitAnnotate, TypeOK, Article
    <2>2. edit' \in [Clients -> Edit \cup {Idle}]
      BY <1>3, <2>1, CommittedTyping, Dismissed DEF CommitAnnotate
    <2> QED
      BY <1>3, <2>1, <2>2 DEF CommitAnnotate, TypeOK, caching, bounds
  <1>4. CASE CommitRestore(c)
    <2>1. edit[c].base.text \in Nat
      BY <1>4, Busy DEF CommitRestore, Edits, Edit, Article
    <2>2. article' \in Article /\ restoredAt' \in Nat
      BY <1>1, <1>4, <2>1 DEF CommitRestore, TypeOK, Article
    <2>3. edit' \in [Clients -> Edit \cup {Idle}]
      BY <1>4, <2>2, CommittedTyping DEF CommitRestore
    <2> QED
      BY <1>4, <2>2, <2>3 DEF CommitRestore, TypeOK, caching, bounds
  <1>5. CASE CommitTransition(c)
    <2>1. article' \in Article
      BY <1>1, <1>5 DEF CommitTransition
    <2>2. edit' \in [Clients -> Edit \cup {Idle}]
      BY <1>5, <2>1, CommittedTyping DEF CommitTransition
    <2> QED
      BY <1>5, <2>1, <2>2 DEF CommitTransition, TypeOK, caching, bounds
  <1>6. CASE CommitDelete(c)
    <2>1. article' \in Article
      BY <1>1, <1>6 DEF CommitDelete
    <2>2. edit' \in [Clients -> Edit \cup {Idle}]
      BY <1>6, <2>1, CommittedTyping DEF CommitDelete
    <2> QED
      BY <1>6, <2>1, <2>2 DEF CommitDelete, TypeOK, caching, bounds
  <1>7. CASE CommitFails(c)
    BY <1>7, Dismissed DEF CommitFails, TypeOK, caching, bounds
  <1> QED
    BY <1>2, <1>3, <1>4, <1>5, <1>6, <1>7 DEF Commits

AfterCommit(c) == Reload(c) \/ ReloadFails(c) \/ Bump(c) \/ Invalidate(c)

LEMMA AfterCommitTyping ==
    ASSUME TypeOK, NEW c \in Clients, AfterCommit(c)
    PROVE  TypeOK'
  <1>0. edit[c] \in Edit
    BY Busy DEF AfterCommit, Reload, ReloadFails, Bump, Invalidate, Edits
  <1>1. \A phase \in {"bump", "invalidate"} : [edit[c] EXCEPT !.phase = phase] \in Edit
    BY <1>0 DEF Edit
  <1>2. CASE Reload(c)
    <2>1. edit' = [edit EXCEPT ![c] = [edit[c] EXCEPT !.phase = "bump"]]
      BY <1>2 DEF Reload, TypeOK
    <2> QED
      BY <1>1, <1>2, <2>1, EditTyping DEF Reload, TypeOK, caching, bounds
  <1>3. CASE ReloadFails(c)
    BY <1>3, Dismissed DEF ReloadFails, TypeOK, bounds
  <1>4. CASE Bump(c)
    <2>1. edit' = [edit EXCEPT ![c] = [edit[c] EXCEPT !.phase = "invalidate"]]
      BY <1>4 DEF Bump, TypeOK
    <2>2. edit[c].at \in Instances /\ edit[c].edition \in Nat
      BY <1>0 DEF Edit
    <2>3. cacheGen' \in [Instances -> Nat] /\ bumped' \in [Instances -> Nat]
      BY <1>4, <2>2 DEF Bump, TypeOK, Later
    <2> QED
      BY <1>1, <1>4, <2>1, <2>3, EditTyping DEF Bump, TypeOK, bounds
  <1>5. CASE Invalidate(c)
    <2>1. edit[c].at \in Instances
      BY <1>0 DEF Edit
    <2>2. store' \in [Stores -> SUBSET Entry]
      BY <1>5, <2>1, StoreOfIsStore DEF Invalidate, Invalidated, TypeOK
    <2>3. read' \in [Clients -> Read \cup {Idle}]
      <3>1. ASSUME NEW d \in Clients, Reads(d, "fill")
            PROVE  [read[d] EXCEPT !.overtaken = TRUE] \in Read
        BY <3>1, Pending DEF Reads, Read
      <3>2. read' \in [Clients -> Read \cup {Idle}] \/ UNCHANGED read
        BY <1>5, <3>1 DEF Invalidate, TypeOK
      <3> QED
        BY <3>2 DEF TypeOK
    <2>4. skipped' \in BOOLEAN
      BY <1>5 DEF Invalidate, TypeOK
    <2> QED
      BY <1>5, <2>2, <2>3, <2>4, Dismissed DEF Invalidate, TypeOK, bounds
  <1> QED
    BY <1>2, <1>3, <1>4, <1>5 DEF AfterCommit

LEMMA RestartTyping ==
    ASSUME TypeOK, NEW i \in Instances, Restart(i)
    PROVE  TypeOK'
  <1>1. restarts' \in 0 .. MaxRestarts
    BY BoundsAssumption DEF TypeOK, Restart
  <1>2. cacheGen' \in [Instances -> Nat] /\ store' \in [Stores -> SUBSET Entry]
    BY DEF TypeOK, Restart
  <1>3. /\ read' \in [Clients -> Read \cup {Idle}]
        /\ edit' \in [Clients -> Edit \cup {Idle}]
    BY DEF TypeOK, Restart
  <1>4. skipped' \in BOOLEAN
    BY DEF TypeOK, Restart
  <1> QED
    BY <1>1, <1>2, <1>3, <1>4 DEF TypeOK, Restart

LEMMA ExternalTyping ==
    ASSUME TypeOK, SweepPublishes \/ \E k \in Stores : Expire(k)
    PROVE  TypeOK'
  <1>1. CASE SweepPublishes
    <2>1. article' \in Article
      BY <1>1 DEF SweepPublishes, TypeOK, Article
    <2>2. edits' \in 0 .. MaxEdits
      BY <1>1, BoundsAssumption DEF SweepPublishes, TypeOK
    <2> QED
      BY <1>1, <2>1, <2>2 DEF SweepPublishes, TypeOK
  <1>2. ASSUME NEW k \in Stores, Expire(k)
        PROVE  TypeOK'
    BY <1>2 DEF Expire, TypeOK, bounds
  <1> QED
    BY <1>1, <1>2

(* The steps of Next in groups, for the proofs by cases.                     *)
LEMMA Steps ==
    ASSUME [Next]_vars
    PROVE  \/ \E c \in Clients : \/ \E i \in Instances : Ask(c, i)
                                 \/ Fly(c) \/ Load(c) \/ LoadFails(c) \/ Fill(c)
           \/ \E c \in Clients, i \in Instances, op \in OfferedEdits : Submit(c, i, op)
           \/ \E c \in Clients : Commits(c) \/ AfterCommit(c)
           \/ SweepPublishes
           \/ \E k \in Stores : Expire(k)
           \/ \E i \in Instances : Restart(i)
           \/ UNCHANGED vars
  BY DEF Next, Reading, Editing, Commits, AfterCommit

LEMMA TypeInit == Init => TypeOK
  <1> SUFFICES ASSUME Init
               PROVE  TypeOK
    OBVIOUS
  <1>1. article \in Article /\ restoredAt \in Nat /\ revisions \in SUBSET Nat
    BY DEF Init, Article
  <1>2. last \in [Clients -> Answer]
    <2>1. [got |-> Unread, behind |-> FALSE] \in Answer
      BY DEF Answer, Unread, Article
    <2> QED
      BY <2>1 DEF Init
  <1>3. /\ read \in [Clients -> Read \cup {Idle}] /\ edit \in [Clients -> Edit \cup {Idle}]
        /\ store \in [Stores -> SUBSET Entry]
    BY DEF Init
  <1>4. cacheGen \in [Instances -> Nat] /\ bumped \in [Instances -> Nat]
    BY DEF Init
  <1>5. reads \in 0 .. MaxReads /\ edits \in 0 .. MaxEdits /\ restarts \in 0 .. MaxRestarts
    BY BoundsAssumption DEF Init
  <1>6. live \in BOOLEAN /\ skipped \in BOOLEAN
    BY DEF Init
  <1> QED
    BY <1>1, <1>2, <1>3, <1>4, <1>5, <1>6 DEF TypeOK

LEMMA TypeNext == TypeOK /\ [Next]_vars => TypeOK'
  <1> SUFFICES ASSUME TypeOK, [Next]_vars
               PROVE  TypeOK'
    OBVIOUS
  <1>1. CASE UNCHANGED vars
    BY <1>1 DEF TypeOK, vars, caching, bounds
  <1> QED
    BY <1>1, Steps, AskTyping, FlyTyping, LoadTyping, FillTyping, SubmitTyping,
       CommitsTyping, AfterCommitTyping, ExternalTyping, RestartTyping

(* The variables keep their types: a request that reads or edits is in one   *)
(* of the phases of its method, with the article it has read, and a cache    *)
(* holds articles (article_service.go, article_cache.go).                    *)
THEOREM TypeCorrect == Spec => []TypeOK
  BY TypeInit, TypeNext, PTL DEF Spec

---------------------------------------------------------------------------------
(* No lost update.                                                          *)

Updating(c) == edit[c].phase # "idle" /\ edit[c].op = "update"

(* s is an article that somebody has read, or could still be given.          *)
Seen(s) ==
    \/ s = Unread \/ s = article
    \/ \E c \in Clients : s = last[c].got
    \/ \E c \in Clients : read[c].phase # "idle" /\ s = read[c].got
    \/ \E k \in Stores : \E e \in store[k] : s = e.got
    \/ \E c \in Clients : Updating(c) /\ s = edit[c].base

LEMMA SeenIsArticle ==
    ASSUME TypeOK, NEW s, Seen(s)
    PROVE  s \in Article
  <1>1. Unread \in Article
    BY DEF Unread, Article
  <1>2. \A c \in Clients : read[c].phase # "idle" => read[c].got \in Article
    BY Pending DEF Read
  <1>3. \A c \in Clients : Updating(c) => edit[c].base \in Article
    BY Busy DEF Updating, Edit
  <1>4. \A c \in Clients : last[c].got \in Article
    BY DEF TypeOK, Answer
  <1>5. \A k \in Stores : \A e \in store[k] : e.got \in Article
    BY DEF TypeOK, Entry
  <1> QED
    BY <1>1, <1>2, <1>3, <1>4, <1>5 DEF Seen, TypeOK

LEMMA CachedIsSeen ==
    ASSUME NEW i \in Instances, NEW key, NEW e \in Cached(i, key)
    PROVE  Seen(e.got)
  BY StoreOfIsStore DEF Cached, Seen

LEMMA ReceiveOrigin ==
    ASSUME TypeOK, NEW C \in SUBSET Clients, NEW got, Seen(got), Receive(C, got)
    PROVE  \A c \in Clients : /\ Seen(last'[c].got)
                              /\ read'[c].phase # "idle" => Seen(read'[c].got)
  BY DEF TypeOK, Receive, Seen, Idle

(* What a read receives, and what a request holds, has been seen or is now.  *)
LEMMA ReadOrigin ==
    ASSUME TypeOK, [Next]_vars, NEW c \in Clients
    PROVE  /\ Seen(last'[c].got)
           /\ read'[c].phase # "idle" => Seen(read'[c].got)
  <1> DEFINE Goal == /\ Seen(last'[c].got)
                     /\ read'[c].phase # "idle" => Seen(read'[c].got)
  <1> SUFFICES Goal
    OBVIOUS
  <1>0. /\ Seen(last[c].got)
        /\ read[c].phase # "idle" => Seen(read[c].got)
        /\ Seen(Unread) /\ Seen(article)
    BY DEF Seen
  <1>1. ASSUME last' = last,
               \A d \in Clients : \/ read'[d] \in {read[d], Idle}
                                  \/ read'[d].got \in {Unread, article}
                                  \/ read[d].phase # "idle" /\ read'[d].got = read[d].got
        PROVE  Goal
    BY <1>0, <1>1 DEF Idle
  <1>2. ASSUME NEW d \in Clients, NEW i \in Instances, Ask(d, i)
        PROVE  Goal
    <2>1. PICK key \in {DetailKey, ListKey(i)} :
          \/ \E e \in Cached(i, key) :
                /\ last' = [last EXCEPT ![d] =
                      [got |-> e.got, behind |-> Outdated(key, e.got, bumped[i])]]
                /\ UNCHANGED read
          \/ /\ Misses(i, key)
             /\ read' = [read EXCEPT ![d] =
                   [phase |-> "miss", at |-> i, key |-> key, since |-> bumped[i],
                    got |-> Unread, overtaken |-> FALSE]]
             /\ UNCHANGED last
      BY <1>2 DEF Ask
    <2>2. ASSUME NEW e \in Cached(i, key),
                 last' = [last EXCEPT ![d] =
                      [got |-> e.got, behind |-> Outdated(key, e.got, bumped[i])]],
                 UNCHANGED read
          PROVE  Goal
      BY <1>0, <2>2, CachedIsSeen DEF TypeOK
    <2>3. ASSUME read' = [read EXCEPT ![d] =
                   [phase |-> "miss", at |-> i, key |-> key, since |-> bumped[i],
                    got |-> Unread, overtaken |-> FALSE]],
                 UNCHANGED last
          PROVE  Goal
      BY <1>1, <2>3 DEF TypeOK
    <2> QED
      BY <2>1, <2>2, <2>3
  <1>3. ASSUME NEW d \in Clients, Fly(d)
        PROVE  Goal
    <2>1. read[d] \in Read /\ read[d].at \in Instances /\ read[d].phase # "idle"
      BY <1>3, Pending DEF Fly, Reads, Read
    <2>2. ASSUME NEW e \in Cached(read[d].at, read[d].key), Receive({d}, e.got)
          PROVE  Goal
      BY <2>1, <2>2, CachedIsSeen, ReceiveOrigin
    <2>3. ASSUME NEW phase, read' = [read EXCEPT ![d] = [read[d] EXCEPT !.phase = phase]],
                 UNCHANGED last
          PROVE  Goal
      BY <1>1, <2>1, <2>3 DEF TypeOK, Read
    <2> QED
      BY <1>3, <2>2, <2>3 DEF Fly
  <1>4. ASSUME NEW d \in Clients, Load(d)
        PROVE  Goal
    <2>1. read[d] \in Read
      BY <1>4, Pending DEF Load, Reads
    <2>2. read' = [read EXCEPT ![d] = [read[d] EXCEPT !.phase = "fill", !.got = article]]
      BY <1>4 DEF Load, TypeOK
    <2> QED
      BY <1>1, <1>4, <2>1, <2>2 DEF Load, TypeOK, Read
  <1>5. ASSUME NEW d \in Clients, LoadFails(d)
        PROVE  Goal
    BY <1>1, <1>5 DEF LoadFails
  <1>6. ASSUME NEW d \in Clients, Fill(d)
        PROVE  Goal
    <2>1. Seen(read[d].got)
      BY <1>6 DEF Fill, Reads, Seen
    <2> QED
      BY <1>6, <2>1, SharingAreClients, ReceiveOrigin DEF Fill
  <1>7. ASSUME NEW d \in Clients, AfterCommit(d)
        PROVE  Goal
    <2>1. ASSUME NEW b \in Clients, Reads(b, "fill")
          PROVE  [read[b] EXCEPT !.overtaken = TRUE].got = read[b].got
      BY <2>1, Pending DEF Reads, Read
    <2>2. \A b \in Clients : \/ read'[b] = read[b]
                             \/ read[b].phase # "idle" /\ read'[b].got = read[b].got
      BY <1>7, <2>1 DEF AfterCommit, Reload, ReloadFails, Bump, Invalidate, caching, Reads
    <2>3. last' = last
      BY <1>7 DEF AfterCommit, Reload, ReloadFails, Bump, Invalidate
    <2> QED
      BY <1>1, <2>2, <2>3
  <1>8. ASSUME NEW d \in Clients, Commits(d)
        PROVE  Goal
    BY <1>1, <1>8 DEF Commits, CommitUpdate, CommitAnnotate, CommitRestore, CommitTransition,
                      CommitDelete, CommitFails
  <1>9. ASSUME NEW d \in Clients, NEW i \in Instances, NEW op \in OfferedEdits, Submit(d, i, op)
        PROVE  Goal
    BY <1>1, <1>9 DEF Submit
  <1>10. ASSUME NEW i \in Instances, Restart(i)
         PROVE  Goal
    BY <1>1, <1>10 DEF Restart
  <1>11. ASSUME SweepPublishes \/ \E k \in Stores : Expire(k)
         PROVE  Goal
    BY <1>1, <1>11 DEF SweepPublishes, Expire
  <1>12. CASE UNCHANGED vars
    BY <1>1, <1>12 DEF vars
  <1> HIDE DEF Goal
  <1> QED
    BY Steps, <1>2, <1>3, <1>4, <1>5, <1>6, <1>7, <1>8, <1>9, <1>10, <1>11, <1>12

(* So has what a cache holds.                                                *)
LEMMA StoreOrigin ==
    ASSUME TypeOK, [Next]_vars, NEW k \in Stores, NEW e \in store'[k]
    PROVE  Seen(e.got)
  <1>1. ASSUME store'[k] \subseteq store[k]
        PROVE  Seen(e.got)
    BY <1>1 DEF Seen
  <1>2. ASSUME NEW c \in Clients, Fill(c)
        PROVE  Seen(e.got)
    <2>1. StoreOf(read[c].at) \in Stores
      BY <1>2, Pending, StoreOfIsStore DEF Fill, Reads, Read
    <2>2. \/ e \in store[k]
          \/ e.got = read[c].got
      BY <1>2, <2>1 DEF Fill, Filled, TypeOK
    <2> QED
      BY <1>2, <2>2 DEF Fill, Reads, Seen
  <1>3. ASSUME NEW c \in Clients, AfterCommit(c)
        PROVE  Seen(e.got)
    <2>1. store'[k] \subseteq store[k]
      <3>1. CASE Invalidate(c)
        BY <3>1, Busy DEF Invalidate, Invalidated, TypeOK
      <3> QED
        BY <1>3, <3>1 DEF AfterCommit, Reload, ReloadFails, Bump, caching
    <2> QED
      BY <1>1, <2>1
  <1>4. ASSUME NEW c \in Clients,
               \/ \E i \in Instances : Ask(c, i)
               \/ Fly(c) \/ Load(c) \/ LoadFails(c) \/ Commits(c)
               \/ \E i \in Instances, op \in OfferedEdits : Submit(c, i, op)
        PROVE  Seen(e.got)
    BY <1>1, <1>4 DEF Ask, Fly, Load, LoadFails, Commits, CommitUpdate, CommitAnnotate,
       CommitRestore, CommitTransition, CommitDelete, CommitFails, Submit, caching
  <1>5. ASSUME NEW i \in Instances, Restart(i)
        PROVE  Seen(e.got)
    <2>1. store'[k] \subseteq store[k]
      BY <1>5 DEF Restart, TypeOK
    <2> QED
      BY <1>1, <2>1
  <1>6. CASE SweepPublishes \/ UNCHANGED vars
    BY <1>1, <1>6 DEF SweepPublishes, vars, caching
  <1>7. ASSUME NEW j \in Stores, Expire(j)
        PROVE  Seen(e.got)
    <2>1. store'[k] \subseteq store[k]
      BY <1>7 DEF Expire, TypeOK
    <2> QED
      BY <1>1, <2>1
  <1> QED
    BY Steps, <1>2, <1>3, <1>4, <1>5, <1>6, <1>7

(* And so has what an update is based on.                                    *)
LEMMA EditOrigin ==
    ASSUME TypeOK, [Next]_vars, NEW c \in Clients, Updating(c)'
    PROVE  Seen(edit'[c].base)
  <1> DEFINE Goal == Seen(edit'[c].base)
  <1> SUFFICES Goal
    OBVIOUS
  <1>0. ASSUME \/ edit'[c] \in {edit[c], Idle}
               \/ /\ edit[c] \in Edit
                  /\ \/ \E p \in {"reload", "bump", "invalidate"}, n \in Nat :
                           edit'[c] = [edit[c] EXCEPT !.phase = p, !.edition = n]
                     \/ \E p \in {"reload", "bump", "invalidate"} :
                           edit'[c] = [edit[c] EXCEPT !.phase = p]
        PROVE  Goal
    <2>1. edit'[c] # Idle
      BY DEF Updating, Idle
    <2>2. Updating(c) /\ edit'[c].base = edit[c].base
      BY <1>0, <2>1 DEF Updating, Edit
    <2> QED
      BY <2>2 DEF Seen
  <1>1. ASSUME NEW d \in Clients, NEW i \in Instances, NEW op \in OfferedEdits, Submit(d, i, op)
        PROVE  Goal
    <2>1. PICK base \in CASE op = "update"  -> {last[d].got} \ {Unread}
                          [] op = "restore" -> {[Unread EXCEPT !.text = t] : t \in revisions}
                          [] OTHER          -> {Unread} :
            edit' = [edit EXCEPT ![d] =
                [phase |-> "commit", at |-> i, op |-> op, base |-> base, edition |-> 0]]
      BY <1>1 DEF Submit
    <2>2. CASE d = c
      <3>1. edit'[c] = [phase |-> "commit", at |-> i, op |-> op, base |-> base, edition |-> 0]
        BY <2>1, <2>2 DEF TypeOK
      <3>2. op = "update"
        BY <3>1 DEF Updating
      <3>3. base = last[c].got
        BY <2>1, <2>2, <3>2
      <3> QED
        BY <3>1, <3>3 DEF Seen
    <2>3. CASE d # c
      BY <1>0, <2>1, <2>3 DEF TypeOK
    <2> QED
      BY <2>2, <2>3
  <1>2. ASSUME NEW d \in Clients, Commits(d)
        PROVE  Goal
    <2>1. edit[d] \in Edit
      BY <1>2, Busy DEF Commits, CommitUpdate, CommitAnnotate, CommitRestore,
         CommitTransition, CommitDelete, CommitFails, Edits
    <2>2. article'.edition \in Nat
      BY <1>2, CommitsTyping DEF TypeOK, Article
    <2>3. \/ edit' = [edit EXCEPT ![d] = Idle]
          \/ \E p \in {"reload", "bump"} : Committed(d, p)
      BY <1>2 DEF Commits, CommitUpdate, CommitAnnotate, CommitRestore, CommitTransition,
                  CommitDelete, CommitFails
    <2>4. CASE d # c
      <3>1. edit'[c] = edit[c]
        BY <2>3, <2>4 DEF Committed, TypeOK
      <3> QED
        BY <1>0, <3>1
    <2>5. CASE d = c
      <3>1. \/ edit'[c] = Idle
            \/ \E p \in {"reload", "bump"} :
                  edit'[c] = [edit[c] EXCEPT !.phase = p, !.edition = article'.edition]
        BY <2>3, <2>5 DEF Committed, TypeOK
      <3> QED
        BY <1>0, <2>1, <2>2, <2>5, <3>1
    <2> QED
      BY <2>4, <2>5
  <1>3. ASSUME NEW d \in Clients, AfterCommit(d)
        PROVE  Goal
    <2>1. edit[d] \in Edit
      BY <1>3, Busy DEF AfterCommit, Reload, ReloadFails, Bump, Invalidate, Edits
    <2>2. \/ edit'[c] \in {edit[c], Idle}
          \/ d = c /\ \E p \in {"bump", "invalidate"} : edit'[c] = [edit[c] EXCEPT !.phase = p]
      BY <1>3 DEF AfterCommit, Reload, ReloadFails, Bump, Invalidate, TypeOK
    <2> QED
      BY <1>0, <2>1, <2>2
  <1>4. ASSUME NEW i \in Instances, Restart(i)
        PROVE  Goal
    <2>1. edit'[c] \in {edit[c], Idle}
      BY <1>4 DEF Restart
    <2> QED
      BY <1>0, <2>1
  <1>5. ASSUME NEW d \in Clients,
               \/ \E i \in Instances : Ask(d, i)
               \/ Fly(d) \/ Load(d) \/ LoadFails(d) \/ Fill(d)
        PROVE  Goal
    BY <1>0, <1>5 DEF Ask, Fly, Load, LoadFails, Fill
  <1>6. CASE SweepPublishes \/ (\E k \in Stores : Expire(k)) \/ UNCHANGED vars
    BY <1>0, <1>6 DEF SweepPublishes, Expire, vars
  <1> HIDE DEF Goal
  <1> QED
    BY Steps, <1>1, <1>2, <1>3, <1>4, <1>5, <1>6

Recounted == article'.edition = article.edition + 1

(* What a step can do to the row: nothing, an update, a restore, or a change *)
(* that is not of the content.                                               *)
LEMMA ArticleSteps ==
    ASSUME TypeOK, [Next]_vars
    PROVE  \/ article' = article /\ restoredAt' = restoredAt
           \/ Recounted /\ article'.version = article.version + 1
           \/ Recounted /\ article'.version = article.version
              /\ restoredAt' = article.edition + 1
           \/ Recounted /\ article'.version = article.version
              /\ article'.text = article.text /\ restoredAt' = restoredAt
  <1> DEFINE Same    == article' = article /\ restoredAt' = restoredAt
             Update  == Recounted /\ article'.version = article.version + 1
             Restore == Recounted /\ article'.version = article.version
                        /\ restoredAt' = article.edition + 1
             Other   == Recounted /\ article'.version = article.version
                        /\ article'.text = article.text /\ restoredAt' = restoredAt
  <1>1. article \in Article
    BY DEF TypeOK
  <1>2. ASSUME NEW c \in Clients, Commits(c)
        PROVE  Same \/ Update \/ Restore \/ Other
    <2>1. CommitUpdate(c) => Same \/ Update
      BY <1>1 DEF CommitUpdate, Article, Recounted
    <2>2. CommitAnnotate(c) \/ CommitFails(c) => Same
      BY DEF CommitAnnotate, CommitFails
    <2>3. CommitRestore(c) => Same \/ Restore
      BY <1>1 DEF CommitRestore, Article, Recounted
    <2>4. CommitTransition(c) \/ CommitDelete(c) => Same \/ Other
      BY <1>1 DEF CommitTransition, CommitDelete, Article, Recounted
    <2> QED
      BY <1>2, <2>1, <2>2, <2>3, <2>4 DEF Commits
  <1>3. ASSUME NEW c \in Clients,
               \/ \E i \in Instances : Ask(c, i)
               \/ Fly(c) \/ Load(c) \/ LoadFails(c) \/ Fill(c) \/ AfterCommit(c)
               \/ \E i \in Instances, op \in OfferedEdits : Submit(c, i, op)
        PROVE  Same
    BY <1>3 DEF Ask, Fly, Load, LoadFails, Fill, AfterCommit, Reload, ReloadFails, Bump,
                Invalidate, Submit
  <1>4. CASE SweepPublishes
    BY <1>1, <1>4 DEF SweepPublishes, Article, Recounted
  <1>5. ASSUME \/ \E k \in Stores : Expire(k)
               \/ \E i \in Instances : Restart(i)
               \/ UNCHANGED vars
        PROVE  Same
    BY <1>5 DEF Expire, Restart, vars
  <1> QED
    BY Steps, <1>2, <1>3, <1>4, <1>5

(* s is no newer than the row, and of the row's version only with its text,  *)
(* unless a revision was restored later.                                     *)
Snapshot(s) ==
    /\ s.edition <= article.edition
    /\ s.version <= article.version
    /\ s.version = article.version /\ restoredAt <= s.edition => s.text = article.text

SnapshotInv ==
    /\ TypeOK
    /\ article.version >= 1
    /\ \A s \in Article : Seen(s) => Snapshot(s)

LEMMA SnapshotKept ==
    ASSUME TypeOK, [Next]_vars, NEW s \in Article, Snapshot(s)
    PROVE  Snapshot(s)'
  <1>1. article \in Article /\ article' \in Article
    BY TypeNext DEF TypeOK
  <1> QED
    BY <1>1, ArticleSteps DEF Snapshot, Recounted, Article

LEMMA SnapshotNext == SnapshotInv /\ [Next]_vars => SnapshotInv'
  <1> SUFFICES ASSUME SnapshotInv, [Next]_vars
               PROVE  SnapshotInv'
    OBVIOUS
  <1>1. TypeOK /\ TypeOK'
    BY TypeNext DEF SnapshotInv
  <1>2. article'.version >= 1
    <2>1. article \in Article
      BY <1>1 DEF TypeOK
    <2> QED
      BY <1>1, <2>1, ArticleSteps DEF SnapshotInv, Article
  <1>3. ASSUME NEW s \in Article, Seen(s)'
        PROVE  Snapshot(s)'
    <2>1. Seen(s) \/ s = article'
      BY <1>1, <1>3, ReadOrigin, StoreOrigin, EditOrigin DEF Seen
    <2>2. CASE Seen(s)
      BY <1>1, <2>2, SnapshotKept DEF SnapshotInv
    <2>3. CASE s = article'
      BY <1>1, <2>3 DEF Snapshot, TypeOK, Article
    <2> QED
      BY <2>1, <2>2, <2>3
  <1> QED
    BY <1>1, <1>2, <1>3 DEF SnapshotInv

LEMMA SnapshotInit == Init => SnapshotInv
  <1> SUFFICES ASSUME Init
               PROVE  SnapshotInv
    OBVIOUS
  <1>1. ASSUME NEW s \in Article, Seen(s)
        PROVE  s = Unread \/ s = article
    BY <1>1 DEF Init, Seen, Updating, Idle
  <1>2. Snapshot(Unread) /\ Snapshot(article)
    BY DEF Init, Snapshot, Unread
  <1> QED
    BY TypeInit, <1>1, <1>2 DEF SnapshotInv, Init

(* An update that is accepted in this step was based on the row's version.   *)
LEMMA AcceptedWhenEqual ==
    ASSUME TypeOK, [Next]_vars, NEW c \in Clients, AcceptsUpdate(c)
    PROVE  edit[c].base.version = article.version
  <1>1. edit[c] \in Edit /\ edit[c].phase = "commit" /\ edit[c].op = "update"
    BY Busy DEF AcceptsUpdate, Edits
  <1>2. edit'[c] # edit[c] /\ edit'[c] # Idle
    BY <1>1 DEF AcceptsUpdate, Idle
  <1>3. ASSUME NEW d \in Clients, Commits(d)
        PROVE  edit[c].base.version = article.version
    <2>1. d = c
      BY <1>2, <1>3 DEF Commits, CommitUpdate, CommitAnnotate, CommitRestore,
         CommitTransition, CommitDelete, CommitFails, Committed, TypeOK
    <2>2. CommitUpdate(c)
      BY <1>1, <1>2, <1>3, <2>1 DEF Commits, CommitAnnotate, CommitRestore, CommitTransition,
         CommitDelete, CommitFails, TypeOK
    <2> QED
      BY <1>2, <2>2 DEF CommitUpdate, Accepted, TypeOK
  <1>4. ASSUME NEW d \in Clients, AfterCommit(d)
        PROVE  FALSE
    <2>1. d = c
      BY <1>2, <1>4 DEF AfterCommit, Reload, ReloadFails, Bump, Invalidate, TypeOK
    <2> QED
      BY <1>1, <1>4, <2>1 DEF AfterCommit, Reload, ReloadFails, Bump, Invalidate, Edits
  <1>5. ASSUME NEW d \in Clients, NEW i \in Instances, NEW op \in OfferedEdits, Submit(d, i, op)
        PROVE  FALSE
    <2>1. d = c
      BY <1>2, <1>5 DEF Submit, TypeOK
    <2> QED
      BY <1>1, <1>5, <2>1 DEF Submit, Edits
  <1>6. ASSUME \/ \E d \in Clients : \/ \E i \in Instances : Ask(d, i)
                                     \/ Fly(d) \/ Load(d) \/ LoadFails(d) \/ Fill(d)
               \/ SweepPublishes \/ (\E k \in Stores : Expire(k)) \/ UNCHANGED vars
               \/ \E i \in Instances : Restart(i)
        PROVE  edit'[c] \in {edit[c], Idle}
    BY <1>6 DEF Ask, Fly, Load, LoadFails, Fill, SweepPublishes, Expire, vars, Restart
  <1> QED
    BY Steps, <1>2, <1>3, <1>4, <1>5, <1>6

(* No lost update but by a restore (repository Update, "If the row was       *)
(* modified by another writer ... we return ErrConcurrentModification"): an  *)
(* accepted update was written by a client that had read the text it         *)
(* replaces, for any number of clients, processes and stale caches.          *)
THEOREM UpdatesAlwaysSawLatest == Spec => UpdatesSawLatest
  <1>1. SnapshotInv /\ [Next]_vars
        => [\A c \in Clients :
              AcceptsUpdate(c) /\ restoredAt <= edit[c].base.edition
              => edit[c].base.text = article.text]_vars
    <2> SUFFICES ASSUME SnapshotInv, [Next]_vars, NEW c \in Clients, AcceptsUpdate(c),
                        restoredAt <= edit[c].base.edition
                 PROVE  edit[c].base.text = article.text
      OBVIOUS
    <2>1. Seen(edit[c].base)
      BY DEF AcceptsUpdate, Edits, Updating, Seen
    <2>2. Snapshot(edit[c].base)
      BY <2>1, SeenIsArticle DEF SnapshotInv
    <2>3. edit[c].base.version = article.version
      BY AcceptedWhenEqual DEF SnapshotInv
    <2> QED
      BY <2>2, <2>3 DEF Snapshot
  <1> QED
    BY <1>1, SnapshotInit, SnapshotNext, PTL DEF Spec, UpdatesSawLatest

---------------------------------------------------------------------------------
(* Lists, when every process has a cache of its own.                         *)

(* Nobody has counted up for an edit that is not yet in the row.             *)
BumpsKnown == \A i \in Instances : bumped[i] <= article.edition
EditsKnown == \A c \in Clients : edit[c].phase # "idle" => edit[c].edition <= article.edition
CountInv   == BumpsKnown /\ EditsKnown

LEMMA EditionGrows ==
    ASSUME TypeOK, [Next]_vars
    PROVE  article.edition \in Nat /\ article'.edition \in Nat
           /\ article.edition <= article'.edition
  <1>1. article \in Article /\ article' \in Article
    BY TypeNext DEF TypeOK
  <1> QED
    BY <1>1, ArticleSteps DEF Recounted, Article

LEMMA CountNext == TypeOK /\ CountInv /\ [Next]_vars => CountInv'
  <1> SUFFICES ASSUME TypeOK, CountInv, [Next]_vars
               PROVE  CountInv'
    OBVIOUS
  <1>0. TypeOK' /\ article.edition \in Nat /\ article'.edition \in Nat
        /\ article.edition <= article'.edition
    BY TypeNext, EditionGrows
  <1>1. ASSUME bumped' = bumped
        PROVE  BumpsKnown'
    BY <1>0, <1>1 DEF CountInv, BumpsKnown, TypeOK
  <1>2. ASSUME NEW d \in Clients,
               \/ edit'[d] \in {edit[d], Idle}
               \/ edit'[d].edition \in {0, article'.edition}
               \/ edit[d].phase # "idle" /\ edit'[d].edition = edit[d].edition
        PROVE  edit'[d].phase # "idle" => edit'[d].edition <= article'.edition
    <2>1. edit[d].phase # "idle"
          => edit[d].edition \in Nat /\ edit[d].edition <= article.edition
      BY Busy DEF CountInv, EditsKnown, Edit
    <2> QED
      BY <1>0, <1>2, <2>1 DEF Idle
  <1>3. ASSUME NEW c \in Clients, Commits(c)
        PROVE  CountInv'
    <2>1. edit[c] \in Edit
      BY <1>3, Busy DEF Commits, CommitUpdate, CommitAnnotate, CommitRestore,
         CommitTransition, CommitDelete, CommitFails, Edits
    <2>2. \/ edit' = [edit EXCEPT ![c] = Idle]
          \/ \E p \in {"reload", "bump"} : Committed(c, p)
      BY <1>3 DEF Commits, CommitUpdate, CommitAnnotate, CommitRestore, CommitTransition,
                  CommitDelete, CommitFails
    <2>3. ASSUME NEW d \in Clients
          PROVE  edit'[d] \in {edit[d], Idle} \/ edit'[d].edition = article'.edition
      BY <2>1, <2>2 DEF Committed, TypeOK, Edit
    <2>4. bumped' = bumped
      BY <1>3 DEF Commits, CommitUpdate, CommitAnnotate, CommitRestore, CommitTransition,
                  CommitDelete, CommitFails, caching
    <2> QED
      BY <1>1, <1>2, <2>3, <2>4 DEF CountInv, EditsKnown
  <1>4. ASSUME NEW c \in Clients, Bump(c)
        PROVE  CountInv'
    <2>1. edit[c] \in Edit /\ edit[c].phase # "idle"
      BY <1>4, Busy DEF Bump, Edits
    <2>2. edit[c].edition \in Nat /\ edit[c].edition <= article.edition
      BY <2>1 DEF CountInv, EditsKnown, Edit
    <2>3. ASSUME NEW i \in Instances
          PROVE  bumped'[i] <= article'.edition
      <3>1. bumped[i] \in Nat /\ bumped[i] <= article.edition
        BY DEF CountInv, BumpsKnown, TypeOK
      <3>2. bumped'[i] \in {bumped[i], edit[c].edition}
        BY <1>4 DEF Bump, Later, TypeOK
      <3> QED
        BY <1>0, <2>2, <3>1, <3>2
    <2>4. \A d \in Clients : \/ edit'[d] = edit[d]
                             \/ edit[d].phase # "idle" /\ edit'[d].edition = edit[d].edition
      BY <1>4, <2>1 DEF Bump, TypeOK, Edit
    <2> QED
      BY <1>2, <2>3, <2>4 DEF CountInv, BumpsKnown, EditsKnown
  <1>5. ASSUME NEW c \in Clients, Reload(c) \/ ReloadFails(c) \/ Invalidate(c)
        PROVE  CountInv'
    <2>1. edit[c] \in Edit /\ edit[c].phase # "idle"
      BY <1>5, Busy DEF Reload, ReloadFails, Invalidate, Edits
    <2>2. \A d \in Clients : \/ edit'[d] \in {edit[d], Idle}
                             \/ edit[d].phase # "idle" /\ edit'[d].edition = edit[d].edition
      BY <1>5, <2>1 DEF Reload, ReloadFails, Invalidate, TypeOK, Edit
    <2>3. bumped' = bumped
      BY <1>5 DEF Reload, ReloadFails, Invalidate, caching
    <2> QED
      BY <1>1, <1>2, <2>2, <2>3 DEF CountInv, EditsKnown
  <1>6. ASSUME NEW c \in Clients, NEW i \in Instances, NEW op \in OfferedEdits, Submit(c, i, op)
        PROVE  CountInv'
    <2>1. \A d \in Clients : edit'[d] = edit[d] \/ edit'[d].edition = 0
      BY <1>6 DEF Submit, TypeOK
    <2>2. bumped' = bumped
      BY <1>6 DEF Submit, caching
    <2> QED
      BY <1>1, <1>2, <2>1, <2>2 DEF CountInv, EditsKnown
  <1>7. ASSUME \/ \E d \in Clients : \/ \E i \in Instances : Ask(d, i)
                                     \/ Fly(d) \/ Load(d) \/ LoadFails(d) \/ Fill(d)
               \/ SweepPublishes \/ (\E k \in Stores : Expire(k)) \/ UNCHANGED vars
               \/ \E i \in Instances : Restart(i)
        PROVE  CountInv'
    <2>1. bumped' = bumped /\ \A d \in Clients : edit'[d] \in {edit[d], Idle}
      BY <1>7 DEF Ask, Fly, Load, LoadFails, Fill, SweepPublishes, Expire, vars, Restart, caching
    <2> QED
      BY <1>1, <1>2, <2>1 DEF CountInv, EditsKnown
  <1> QED
    BY Steps, <1>3, <1>4, <1>5, <1>6, <1>7 DEF AfterCommit

ListKeys == {key \in Key : key.kind = "list"}

Waits(c, i, key) == read[c].phase # "idle" /\ read[c].at = i /\ read[c].key = key

(* What process i can answer for key: from its cache, or from a load.        *)
Offers(i, key) ==
    {e.got : e \in Cached(i, key)}
    \cup {read[c].got : c \in {d \in Clients : Reads(d, "fill") /\ Waits(d, i, key)}}

(* A request waits for a key of its process's past, and asked after nothing  *)
(* that is still to come.                                                    *)
WaitInv ==
    \A c \in Clients, i \in Instances, key \in ListKeys :
        Waits(c, i, key) => key.gen <= cacheGen[i] /\ read[c].since <= bumped[i]

(* An answer under the current key is as new as what was counted up for, and *)
(* under any key as new as what those who wait for it expect.                *)
OfferInv ==
    \A i \in Instances, key \in ListKeys : \A g \in Offers(i, key) :
        /\ key.gen <= cacheGen[i]
        /\ key.gen = cacheGen[i] => bumped[i] <= g.edition
        /\ \A c \in Clients : Waits(c, i, key) => read[c].since <= g.edition

ListInv == TypeOK /\ CountInv /\ WaitInv /\ OfferInv /\ ListsAreCurrent

LEMMA OwnStore == ~Shared => /\ \A i \in Instances : StoreOf(i) = i
                             /\ Stores = Instances
  BY DEF StoreOf, Stores

LEMMA WaitsTyping ==
    ASSUME TypeOK, NEW c \in Clients, read[c].phase # "idle"
    PROVE  /\ read[c].at \in Instances /\ read[c].key \in Key /\ read[c].since \in Nat
           /\ read[c].got \in Article /\ read[c].got.edition \in Nat
           /\ Waits(c, read[c].at, read[c].key)
  BY Pending DEF Read, Article, Waits

LEMMA OffersTyping ==
    ASSUME TypeOK, NEW i \in Instances, NEW key, NEW g \in Offers(i, key)
    PROVE  g \in Article /\ g.edition \in Nat
  <1>1. \A e \in Cached(i, key) : e.got \in Article
    BY CachedIsEntry
  <1>2. \A c \in Clients : Reads(c, "fill") => read[c].got \in Article
    BY WaitsTyping DEF Reads
  <1> QED
    BY <1>1, <1>2 DEF Offers, Article

(* A step after which nobody waits or answers who did not before.            *)
Quiet ==
    /\ cacheGen' = cacheGen /\ bumped' = bumped
    /\ \A c \in Clients, i \in Instances, key \in ListKeys :
          Waits(c, i, key)' => Waits(c, i, key) /\ read'[c].since = read[c].since
    /\ \A i \in Instances, key \in ListKeys : Offers(i, key)' \subseteq Offers(i, key)

LEMMA QuietSteps == WaitInv /\ OfferInv /\ Quiet => WaitInv' /\ OfferInv'
  <1> SUFFICES ASSUME WaitInv, OfferInv, Quiet
               PROVE  WaitInv' /\ OfferInv'
    OBVIOUS
  <1>1. WaitInv'
    BY DEF Quiet, WaitInv
  <1>2. OfferInv'
    BY DEF Quiet, OfferInv
  <1> QED
    BY <1>1, <1>2

(* Steps that leave the caches, and all reads but those that end, alone.     *)
LEMMA CalmIsQuiet ==
    ASSUME cacheGen' = cacheGen, bumped' = bumped,
           \A i \in Instances : store'[StoreOf(i)] \subseteq store[StoreOf(i)],
           \A c \in Clients :
               \/ read'[c] \in {read[c], Idle}
               \/ /\ read[c].phase # "idle" /\ read'[c].phase \in {"join", "load"}
                  /\ read'[c].at = read[c].at /\ read'[c].key = read[c].key
                  /\ read'[c].since = read[c].since
               \/ /\ read[c].phase = "fill"
                  /\ read'[c].at = read[c].at /\ read'[c].key = read[c].key
                  /\ read'[c].since = read[c].since /\ read'[c].got = read[c].got
    PROVE  Quiet
  <1>1. ASSUME NEW c \in Clients, NEW i \in Instances, NEW key, Waits(c, i, key)'
        PROVE  Waits(c, i, key) /\ read'[c].since = read[c].since
    BY <1>1 DEF Waits, Idle
  <1>2. ASSUME NEW i \in Instances, NEW key, NEW g \in Offers(i, key)'
        PROVE  g \in Offers(i, key)
    <2>1. ASSUME NEW e \in Cached(i, key)', g = e.got
          PROVE  g \in Offers(i, key)
      BY <2>1 DEF Cached, Offers
    <2>2. ASSUME NEW c \in Clients, Reads(c, "fill")', Waits(c, i, key)', g = read'[c].got
          PROVE  g \in Offers(i, key)
      <3>1. Reads(c, "fill") /\ Waits(c, i, key) /\ g = read[c].got
        BY <2>2 DEF Reads, Waits, Idle
      <3> QED
        BY <3>1 DEF Offers
    <2> QED
      BY <2>1, <2>2 DEF Offers
  <1> QED
    BY <1>1, <1>2 DEF Quiet

LEMMA ReceiveCurrent ==
    ASSUME TypeOK, OfferInv, ListsAreCurrent, NEW C \in SUBSET Clients, NEW got, Receive(C, got),
           \A d \in C : read[d].phase # "idle" /\ got \in Offers(read[d].at, read[d].key)
    PROVE  ListsAreCurrent'
  <1> SUFFICES ASSUME NEW d \in Clients
               PROVE  ~last'[d].behind
    BY DEF ListsAreCurrent
  <1>1. CASE d \in C
    <2>1. /\ read[d].at \in Instances /\ read[d].key \in Key /\ read[d].since \in Nat
          /\ Waits(d, read[d].at, read[d].key)
      BY <1>1, WaitsTyping
    <2>2. got.edition \in Nat
      BY <1>1, <2>1, OffersTyping
    <2>3. read[d].key.kind = "list" => read[d].since <= got.edition
      BY <1>1, <2>1 DEF OfferInv, ListKeys
    <2>4. ~Outdated(read[d].key, got, read[d].since)
      BY <2>1, <2>2, <2>3 DEF Outdated
    <2> QED
      BY <1>1, <2>4 DEF Receive
  <1>2. CASE d \notin C
    BY <1>2 DEF Receive, ListsAreCurrent
  <1> QED
    BY <1>1, <1>2

LEMMA AskLists ==
    ASSUME ~Shared, ListInv, NEW c \in Clients, NEW i \in Instances, Ask(c, i)
    PROVE  WaitInv' /\ OfferInv' /\ ListsAreCurrent'
  <1>0. TypeOK /\ bumped[i] \in Nat /\ cacheGen[i] \in Nat /\ read[c].phase = "idle"
        /\ store' = store /\ cacheGen' = cacheGen /\ bumped' = bumped
    BY DEF ListInv, TypeOK, Ask, Reads, caching
  <1>1. PICK key \in {DetailKey, ListKey(i)} :
          \/ \E e \in Cached(i, key) :
                /\ last' = [last EXCEPT ![c] =
                      [got |-> e.got, behind |-> Outdated(key, e.got, bumped[i])]]
                /\ UNCHANGED read
          \/ /\ Misses(i, key)
             /\ read' = [read EXCEPT ![c] =
                   [phase |-> "miss", at |-> i, key |-> key, since |-> bumped[i],
                    got |-> Unread, overtaken |-> FALSE]]
             /\ UNCHANGED last
    BY DEF Ask
  <1>2. key \in ListKeys => key.gen = cacheGen[i]
    BY DEF ListKeys, DetailKey, ListKey
  <1>3. ASSUME NEW e \in Cached(i, key),
               last' = [last EXCEPT ![c] =
                   [got |-> e.got, behind |-> Outdated(key, e.got, bumped[i])]],
               UNCHANGED read
        PROVE  WaitInv' /\ OfferInv' /\ ListsAreCurrent'
    <2>1. e.got \in Offers(i, key) /\ e.got.edition \in Nat
      BY <1>0, OffersTyping DEF Offers
    <2>2. key \in Key
      BY <1>0, KeysAreKeys
    <2>3. key.kind = "list" => bumped[i] <= e.got.edition
      BY <1>2, <2>1, <2>2 DEF ListInv, OfferInv, ListKeys
    <2>4. ~Outdated(key, e.got, bumped[i])
      BY <1>0, <2>1, <2>3 DEF Outdated
    <2>5. ListsAreCurrent'
      BY <1>0, <1>3, <2>4 DEF ListInv, ListsAreCurrent, TypeOK
    <2>6. Quiet
      BY <1>0, <1>3, CalmIsQuiet
    <2> QED
      BY <2>5, <2>6, QuietSteps DEF ListInv
  <1>4. ASSUME read' = [read EXCEPT ![c] =
                   [phase |-> "miss", at |-> i, key |-> key, since |-> bumped[i],
                    got |-> Unread, overtaken |-> FALSE]],
               UNCHANGED last
        PROVE  WaitInv' /\ OfferInv' /\ ListsAreCurrent'
    <2>1. read'[c] = [phase |-> "miss", at |-> i, key |-> key, since |-> bumped[i],
                      got |-> Unread, overtaken |-> FALSE]
          /\ \A d \in Clients \ {c} : read'[d] = read[d]
      BY <1>0, <1>4 DEF TypeOK
    <2>2. ASSUME NEW d \in Clients, NEW j \in Instances, NEW k \in ListKeys, Waits(d, j, k)'
          PROVE  \/ Waits(d, j, k) /\ read'[d].since = read[d].since
                 \/ j = i /\ k.gen = cacheGen[i] /\ read'[d].since = bumped[i]
      BY <1>2, <2>1, <2>2 DEF Waits
    <2>3. ASSUME NEW j \in Instances, NEW k \in ListKeys
          PROVE  Offers(j, k)' \subseteq Offers(j, k)
      <3>1. \A d \in Clients : Reads(d, "fill")' /\ Waits(d, j, k)'
                               => Reads(d, "fill") /\ Waits(d, j, k) /\ read'[d].got = read[d].got
        BY <2>1 DEF Reads, Waits
      <3>2. Cached(j, k)' = Cached(j, k)
        BY <1>0 DEF Cached
      <3> QED
        BY <3>1, <3>2 DEF Offers
    <2>4. WaitInv'
      BY <1>0, <2>2 DEF WaitInv, ListInv
    <2>5. OfferInv'
      BY <1>0, <2>2, <2>3 DEF OfferInv, ListInv
    <2>6. ListsAreCurrent'
      BY <1>4 DEF ListInv, ListsAreCurrent
    <2> QED
      BY <2>4, <2>5, <2>6
  <1> QED
    BY <1>1, <1>3, <1>4

LEMMA FlyLists ==
    ASSUME ~Shared, ListInv, NEW c \in Clients, Fly(c)
    PROVE  WaitInv' /\ OfferInv' /\ ListsAreCurrent'
  <1>0. TypeOK /\ read[c] \in Read /\ read[c].phase = "miss" /\ store' = store
        /\ cacheGen' = cacheGen /\ bumped' = bumped
    BY Pending DEF ListInv, Fly, Reads, caching
  <1>1. ASSUME NEW e \in Cached(read[c].at, read[c].key), Receive({c}, e.got)
        PROVE  WaitInv' /\ OfferInv' /\ ListsAreCurrent'
    <2>1. e.got \in Offers(read[c].at, read[c].key)
      BY DEF Offers
    <2>2. ListsAreCurrent'
      BY <1>0, <1>1, <2>1, ReceiveCurrent DEF ListInv
    <2>3. \A d \in Clients : read'[d] \in {read[d], Idle}
      BY <1>1 DEF Receive
    <2>4. Quiet
      BY <1>0, <2>3, CalmIsQuiet
    <2> QED
      BY <2>2, <2>4, QuietSteps DEF ListInv
  <1>2. ASSUME NEW p \in {"join", "load"}, read' = [read EXCEPT ![c] = [read[c] EXCEPT !.phase = p]],
               UNCHANGED last
        PROVE  WaitInv' /\ OfferInv' /\ ListsAreCurrent'
    <2>1. \A d \in Clients \ {c} : read'[d] = read[d]
      BY <1>0, <1>2 DEF TypeOK
    <2>2. /\ read[c].phase # "idle" /\ read'[c].phase \in {"join", "load"}
          /\ read'[c].at = read[c].at /\ read'[c].key = read[c].key
          /\ read'[c].since = read[c].since
      BY <1>0, <1>2 DEF TypeOK, Read
    <2>3. Quiet
      BY <1>0, <2>1, <2>2, CalmIsQuiet
    <2>4. ListsAreCurrent'
      BY <1>2 DEF ListInv, ListsAreCurrent
    <2> QED
      BY <2>3, <2>4, QuietSteps DEF ListInv
  <1> QED
    BY <1>1, <1>2 DEF Fly

LEMMA LoadLists ==
    ASSUME ~Shared, ListInv, NEW c \in Clients, Load(c)
    PROVE  WaitInv' /\ OfferInv' /\ ListsAreCurrent'
  <1>0. TypeOK /\ read[c] \in Read /\ read[c].phase = "load" /\ store' = store
        /\ cacheGen' = cacheGen /\ bumped' = bumped /\ last' = last
    BY Pending DEF ListInv, Load, Reads, caching
  <1>1. /\ read'[c] = [read[c] EXCEPT !.phase = "fill", !.got = article]
        /\ \A d \in Clients \ {c} : read'[d] = read[d]
    BY <1>0 DEF Load, TypeOK
  <1>2. /\ read'[c].at = read[c].at /\ read'[c].key = read[c].key
        /\ read'[c].since = read[c].since /\ read'[c].got = article
        /\ read'[c].phase = "fill"
    BY <1>0, <1>1 DEF Read
  <1>3. ASSUME NEW d \in Clients, NEW j \in Instances, NEW k \in ListKeys, Waits(d, j, k)'
        PROVE  Waits(d, j, k) /\ read'[d].since = read[d].since
    BY <1>0, <1>1, <1>2, <1>3 DEF Waits
  <1>4. ASSUME NEW j \in Instances, NEW k \in ListKeys, NEW g \in Offers(j, k)'
        PROVE  g \in Offers(j, k) \/ (g = article /\ Waits(c, j, k))
    <2>1. ASSUME NEW d \in Clients, Reads(d, "fill")', Waits(d, j, k)', g = read'[d].got
          PROVE  g \in Offers(j, k) \/ (g = article /\ Waits(c, j, k))
      <3>1. CASE d = c
        BY <1>0, <1>2, <1>3, <2>1, <3>1
      <3>2. CASE d # c
        BY <1>1, <2>1, <3>2 DEF Offers, Reads, Waits
      <3> QED
        BY <3>1, <3>2
    <2>2. Cached(j, k)' = Cached(j, k)
      BY <1>0 DEF Cached
    <2> QED
      BY <2>1, <2>2 DEF Offers
  <1>5. WaitInv'
    BY <1>0, <1>3 DEF WaitInv, ListInv
  <1>6. OfferInv'
    <2> SUFFICES ASSUME NEW j \in Instances, NEW k \in ListKeys, NEW g \in Offers(j, k)'
                 PROVE  /\ k.gen <= cacheGen[j]
                        /\ k.gen = cacheGen[j] => bumped[j] <= g.edition
                        /\ \A d \in Clients : Waits(d, j, k)' => read'[d].since <= g.edition
      BY <1>0 DEF OfferInv
    <2>1. CASE g \in Offers(j, k)
      BY <1>3, <2>1 DEF OfferInv, ListInv
    <2>2. CASE g = article /\ Waits(c, j, k)
      <3>1. bumped[j] \in Nat /\ article.edition \in Nat /\ bumped[j] <= article.edition
        BY <1>0 DEF ListInv, CountInv, BumpsKnown, TypeOK, Article
      <3>2. \A d \in Clients : Waits(d, j, k) => read[d].since \in Nat /\ read[d].since <= bumped[j]
        BY <1>0, WaitsTyping DEF WaitInv, ListInv, Waits
      <3>3. k.gen <= cacheGen[j]
        BY <2>2 DEF WaitInv, ListInv
      <3> QED
        BY <1>3, <2>2, <3>1, <3>2, <3>3
    <2> QED
      BY <1>4, <2>1, <2>2
  <1>7. ListsAreCurrent'
    BY <1>0 DEF ListInv, ListsAreCurrent
  <1> QED
    BY <1>5, <1>6, <1>7

LEMMA FillLists ==
    ASSUME ~Shared, ListInv, NEW c \in Clients, Fill(c)
    PROVE  WaitInv' /\ OfferInv' /\ ListsAreCurrent'
  <1> DEFINE i == read[c].at
             key == read[c].key
             got == read[c].got
             C == {c} \cup Sharing(c, {"join"})
  <1>0. TypeOK /\ read[c] \in Read /\ read[c].phase = "fill" /\ i \in Instances
        /\ cacheGen' = cacheGen /\ bumped' = bumped /\ Receive(C, got)
        /\ store' = [store EXCEPT ![i] = Filled(c)]
    BY Pending, OwnStore DEF ListInv, Fill, Reads, Read
  <1>1. got \in Offers(i, key) /\ Waits(c, i, key)
    BY <1>0 DEF Offers, Reads, Waits
  <1>2. \A d \in C : read[d].phase # "idle" /\ read[d].at = i /\ read[d].key = key
    BY <1>0 DEF Sharing
  <1>3. ListsAreCurrent'
    <2>1. C \in SUBSET Clients
      BY DEF Sharing
    <2> QED
      BY <1>0, <1>1, <1>2, <2>1, ReceiveCurrent DEF ListInv
  <1>4. \A d \in Clients : read'[d] \in {read[d], Idle}
    BY <1>0 DEF Receive
  <1>5. ASSUME NEW j \in Instances, NEW k \in ListKeys, NEW g \in Offers(j, k)'
        PROVE  g \in Offers(j, k)
    <2>1. ASSUME NEW d \in Clients, Reads(d, "fill")', Waits(d, j, k)', g = read'[d].got
          PROVE  g \in Offers(j, k)
      BY <1>4, <2>1 DEF Offers, Reads, Waits, Idle
    <2>2. ASSUME NEW e \in Cached(j, k)', g = e.got
          PROVE  g \in Offers(j, k)
      <3>1. \/ e \in Cached(j, k)
            \/ j = i /\ k = key /\ g = got
        BY <1>0, <2>2, OwnStore DEF Cached, Filled, FilledKey, TypeOK
      <3> QED
        BY <1>1, <2>2, <3>1 DEF Offers
    <2> QED
      BY <2>1, <2>2 DEF Offers
  <1>6. Quiet
    BY <1>0, <1>4, <1>5 DEF Quiet, Waits, Idle
  <1> QED
    BY <1>3, <1>6, QuietSteps DEF ListInv

LEMMA BumpLists ==
    ASSUME ~Shared, ListInv, NEW c \in Clients, Bump(c)
    PROVE  WaitInv' /\ OfferInv' /\ ListsAreCurrent'
  <1> DEFINE i == edit[c].at
  <1>0. TypeOK /\ edit[c] \in Edit /\ i \in Instances
        /\ read' = read /\ store' = store /\ last' = last
    BY Busy DEF ListInv, Bump, Edits, Edit
  <1>1. ASSUME NEW j \in Instances
        PROVE  /\ cacheGen[j] \in Nat /\ bumped[j] \in Nat /\ bumped'[j] \in Nat
               /\ bumped[j] <= bumped'[j]
               /\ \/ cacheGen'[j] = cacheGen[j] /\ bumped'[j] = bumped[j]
                  \/ cacheGen'[j] = cacheGen[j] + 1
    BY <1>0 DEF Bump, Later, TypeOK, Edit
  <1>2. \A k \in ListKeys : k.gen \in Nat
    BY DEF ListKeys, Key
  <1>3. \A d \in Clients : read[d].phase # "idle" => read[d].since \in Nat
    BY <1>0, WaitsTyping
  <1>4. \A d \in Clients, j \in Instances, k \in ListKeys : Waits(d, j, k)' <=> Waits(d, j, k)
    BY <1>0 DEF Waits
  <1>5. \A j \in Instances, k \in ListKeys : Offers(j, k)' = Offers(j, k)
    BY <1>0 DEF Offers, Cached, Reads, Waits
  <1>6. WaitInv'
    <2> SUFFICES ASSUME NEW d \in Clients, NEW j \in Instances, NEW k \in ListKeys,
                        Waits(d, j, k)
                 PROVE  k.gen <= cacheGen'[j] /\ read[d].since <= bumped'[j]
      BY <1>0, <1>4 DEF WaitInv
    <2>1. k.gen <= cacheGen[j] /\ read[d].since <= bumped[j] /\ read[d].phase # "idle"
      BY DEF WaitInv, ListInv, Waits
    <2> QED
      BY <1>1, <1>2, <1>3, <2>1
  <1>7. OfferInv'
    <2> SUFFICES ASSUME NEW j \in Instances, NEW k \in ListKeys, NEW g \in Offers(j, k)
                 PROVE  /\ k.gen <= cacheGen'[j]
                        /\ k.gen = cacheGen'[j] => bumped'[j] <= g.edition
                        /\ \A d \in Clients : Waits(d, j, k) => read[d].since <= g.edition
      BY <1>0, <1>4, <1>5 DEF OfferInv
    <2>1. /\ k.gen <= cacheGen[j]
          /\ k.gen = cacheGen[j] => bumped[j] <= g.edition
          /\ \A d \in Clients : Waits(d, j, k) => read[d].since <= g.edition
      BY DEF OfferInv, ListInv
    <2> QED
      BY <1>1, <1>2, <2>1
  <1>8. ListsAreCurrent'
    BY <1>0 DEF ListInv, ListsAreCurrent
  <1> QED
    BY <1>6, <1>7, <1>8

LEMMA RestartLists ==
    ASSUME ~Shared, ListInv, NEW i \in Instances, Restart(i)
    PROVE  WaitInv' /\ OfferInv' /\ ListsAreCurrent'
  <1>0. /\ TypeOK /\ last' = last /\ bumped' = bumped
        /\ store' = [store EXCEPT ![i] = {}] /\ cacheGen' = [cacheGen EXCEPT ![i] = 0]
    BY DEF ListInv, Restart
  <1>1. ASSUME NEW d \in Clients, NEW j \in Instances, NEW k, Waits(d, j, k)'
        PROVE  j # i /\ Waits(d, j, k) /\ read'[d] = read[d]
    <2>1. read'[d] # Idle
      BY <1>1 DEF Waits, Idle
    <2>2. read'[d] = read[d] /\ ~Of(read[d], i)
      BY <2>1 DEF Restart
    <2> QED
      BY <1>1, <2>1, <2>2 DEF Of, Waits
  <1>2. \A k : Cached(i, k)' = {}
    BY <1>0, OwnStore DEF Cached, TypeOK
  <1>3. \A j \in Instances \ {i} : \A k : Cached(j, k)' = Cached(j, k)
    BY <1>0, OwnStore DEF Cached, TypeOK
  <1>4. ASSUME NEW j \in Instances, NEW k, NEW g \in Offers(j, k)'
        PROVE  j # i /\ g \in Offers(j, k)
    BY <1>1, <1>2, <1>3 DEF Offers, Reads
  <1>5. \A j \in Instances \ {i} : cacheGen'[j] = cacheGen[j]
    BY <1>0 DEF TypeOK
  <1>6. WaitInv'
    BY <1>0, <1>1, <1>5 DEF WaitInv, ListInv
  <1>7. OfferInv'
    <2> SUFFICES ASSUME NEW j \in Instances, NEW k \in ListKeys, NEW g \in Offers(j, k)'
                 PROVE  /\ k.gen <= cacheGen'[j]
                        /\ k.gen = cacheGen'[j] => bumped[j] <= g.edition
                        /\ \A d \in Clients : Waits(d, j, k)' => read'[d].since <= g.edition
      BY <1>0 DEF OfferInv
    <2>1. j # i /\ g \in Offers(j, k)
      BY <1>4
    <2> QED
      BY <1>1, <1>5, <2>1 DEF OfferInv, ListInv
  <1>8. ListsAreCurrent'
    BY <1>0 DEF ListInv, ListsAreCurrent
  <1> QED
    BY <1>6, <1>7, <1>8

LEMMA InvalidateLists ==
    ASSUME ~Shared, ListInv, NEW c \in Clients, Invalidate(c)
    PROVE  Quiet /\ last' = last
  <1>0. /\ TypeOK /\ cacheGen' = cacheGen /\ bumped' = bumped /\ last' = last
    BY DEF ListInv, Invalidate
  <1>1. \A i \in Instances : store'[StoreOf(i)] \subseteq store[StoreOf(i)]
    BY <1>0, StoreOfIsStore DEF Invalidate, Invalidated, TypeOK
  <1>2. ASSUME NEW d \in Clients
        PROVE  \/ read'[d] \in {read[d], Idle}
               \/ /\ read[d].phase = "fill"
                  /\ read'[d].at = read[d].at /\ read'[d].key = read[d].key
                  /\ read'[d].since = read[d].since /\ read'[d].got = read[d].got
    <2>1. ASSUME Reads(d, "fill"), read'[d] = [read[d] EXCEPT !.overtaken = TRUE]
          PROVE  /\ read'[d].at = read[d].at /\ read'[d].key = read[d].key
                 /\ read'[d].since = read[d].since /\ read'[d].got = read[d].got
      BY <1>0, <2>1, Pending DEF Reads, Read
    <2>2. \/ read'[d] = read[d]
          \/ Reads(d, "fill") /\ read'[d] = [read[d] EXCEPT !.overtaken = TRUE]
      BY DEF Invalidate
    <2> QED
      BY <2>1, <2>2 DEF Reads
  <1>3. Quiet
    BY <1>0, <1>1, <1>2, CalmIsQuiet
  <1> QED
    BY <1>0, <1>3

LEMMA ListNext == ~Shared /\ ListInv /\ [Next]_vars => ListInv'
  <1> SUFFICES ASSUME ~Shared, ListInv, [Next]_vars
               PROVE  ListInv'
    OBVIOUS
  <1>1. TypeOK /\ TypeOK' /\ CountInv'
    BY TypeNext, CountNext DEF ListInv
  <1>2. ASSUME \/ \E c \in Clients, i \in Instances, op \in OfferedEdits : Submit(c, i, op)
               \/ \E c \in Clients : LoadFails(c) \/ Commits(c) \/ Reload(c) \/ ReloadFails(c)
               \/ SweepPublishes \/ (\E k \in Stores : Expire(k)) \/ UNCHANGED vars
        PROVE  Quiet /\ last' = last
    <2>1. /\ cacheGen' = cacheGen /\ bumped' = bumped /\ last' = last
          /\ \A d \in Clients : read'[d] \in {read[d], Idle}
      BY <1>2 DEF Submit, LoadFails, Commits, CommitUpdate, CommitAnnotate, CommitRestore,
         CommitTransition, CommitDelete, CommitFails, Reload, ReloadFails, SweepPublishes,
         Expire, vars, caching
    <2>2. \A i \in Instances : store'[StoreOf(i)] \subseteq store[StoreOf(i)]
      <3>1. CASE \E k \in Stores : Expire(k)
        BY <1>1, <3>1, StoreOfIsStore DEF Expire, TypeOK
      <3>2. CASE store' = store
        BY <3>2
      <3> QED
        BY <1>2, <3>1, <3>2 DEF Submit, LoadFails, Commits, CommitUpdate, CommitAnnotate,
           CommitRestore, CommitTransition, CommitDelete, CommitFails, Reload, ReloadFails,
           SweepPublishes, vars, caching
    <2> QED
      BY <2>1, <2>2, CalmIsQuiet
  <1>3. ASSUME Quiet, last' = last
        PROVE  WaitInv' /\ OfferInv' /\ ListsAreCurrent'
    BY <1>3, QuietSteps DEF ListInv, ListsAreCurrent
  <1>4. WaitInv' /\ OfferInv' /\ ListsAreCurrent'
    BY Steps, <1>2, <1>3, AskLists, FlyLists, LoadLists, FillLists, BumpLists, RestartLists,
       InvalidateLists DEF AfterCommit
  <1> QED
    BY <1>1, <1>4 DEF ListInv

LEMMA ListInit == Init => ListInv
  <1> SUFFICES ASSUME Init
               PROVE  ListInv
    OBVIOUS
  <1>1. CountInv /\ ListsAreCurrent
    BY DEF Init, CountInv, BumpsKnown, EditsKnown, ListsAreCurrent, Idle
  <1>2. \A c \in Clients : read[c].phase = "idle"
    BY DEF Init, Idle
  <1>3. WaitInv
    BY <1>2 DEF WaitInv, Waits
  <1>4. \A i \in Instances : \A key : Offers(i, key) = {}
    BY <1>2, StoreOfIsStore DEF Init, Offers, Cached, Reads
  <1> QED
    BY TypeInit, <1>1, <1>3, <1>4 DEF ListInv, OfferInv

(* Read your writes for lists (listCacheKey, "all prior list keys become     *)
(* unreachable"): with a cache in every process, a list shows every edit its *)
(* process had counted up for, for any number of clients and processes.      *)
THEOREM OwnListsCurrent ==
    ASSUME ~Shared
    PROVE  Spec => []ListsAreCurrent
  <1>1. ListInv /\ [Next]_vars => ListInv'
    BY ListNext
  <1>2. ListInv => ListsAreCurrent
    BY DEF ListInv
  <1> QED
    BY <1>1, <1>2, ListInit, PTL DEF Spec

---------------------------------------------------------------------------------
(* Cached articles, when there is a single cache.                            *)

UnsettledPhases == {"reload", "bump", "invalidate"}

(* An edit is on its way to the invalidation, or never got there.            *)
Unsettled == skipped \/ \E c \in Clients : edit[c].phase \in UnsettledPhases

StaleInv ==
    /\ TypeOK
    /\ \A k \in Stores : \A e \in store[k] :
          e.key = DetailKey /\ e.got.edition # article.edition => e.overtaken \/ Unsettled
    /\ \A c \in Clients :
          Reads(c, "fill") /\ read[c].key = DetailKey /\ read[c].got.edition # article.edition
          => read[c].overtaken \/ Unsettled

LEMMA ChangeUnsettles ==
    ASSUME TypeOK, [Next]_vars, article' # article
    PROVE  Unsettled'
  <1>1. ASSUME NEW c \in Clients, Commits(c)
        PROVE  Unsettled'
    <2>1. edit[c] \in Edit
      BY <1>1, Busy DEF Commits, CommitUpdate, CommitAnnotate, CommitRestore,
         CommitTransition, CommitDelete, CommitFails, Edits
    <2>2. \E p \in {"reload", "bump"} : Committed(c, p)
      BY <1>1 DEF Commits, CommitUpdate, CommitAnnotate, CommitRestore, CommitTransition,
                  CommitDelete, CommitFails
    <2>3. edit'[c].phase \in UnsettledPhases
      BY <2>1, <2>2 DEF Committed, UnsettledPhases, TypeOK, Edit
    <2> QED
      BY <2>3 DEF Unsettled
  <1>2. CASE SweepPublishes
    BY <1>2 DEF SweepPublishes, Unsettled
  <1> QED
    BY Steps, <1>1, <1>2 DEF Ask, Fly, Load, LoadFails, Fill, AfterCommit, Reload, ReloadFails,
       Bump, Invalidate, Submit, Expire, Restart, vars

LEMMA UnsettledStays ==
    ASSUME TypeOK, [Next]_vars, Unsettled, \A c \in Clients : ~Invalidate(c)
    PROVE  Unsettled'
  <1>1. CASE skipped
    <2>1. skipped'
      BY Steps, <1>1 DEF Ask, Fly, Load, LoadFails, Fill, Commits, CommitUpdate, CommitAnnotate,
         CommitRestore, CommitTransition, CommitDelete, CommitFails, AfterCommit, Reload,
         ReloadFails, Bump, Submit, SweepPublishes, Expire, Restart, vars, caching
    <2> QED
      BY <2>1 DEF Unsettled
  <1>2. ASSUME NEW c \in Clients, edit[c].phase \in UnsettledPhases
        PROVE  Unsettled'
    <2>1. edit[c] \in Edit
      BY <1>2, Busy DEF UnsettledPhases
    <2>2. ASSUME edit'[c] = edit[c] \/ edit'[c].phase \in UnsettledPhases
          PROVE  Unsettled'
      BY <1>2, <2>2 DEF Unsettled
    <2>3. ASSUME NEW d \in Clients, Commits(d)
          PROVE  edit'[c] = edit[c]
      <3>1. edit[d].phase = "commit"
        BY <2>3 DEF Commits, CommitUpdate, CommitAnnotate, CommitRestore, CommitTransition,
                    CommitDelete, CommitFails, Edits
      <3>2. d # c
        BY <1>2, <3>1 DEF UnsettledPhases
      <3> QED
        BY <2>3, <3>2 DEF Commits, CommitUpdate, CommitAnnotate, CommitRestore,
           CommitTransition, CommitDelete, CommitFails, Committed, TypeOK
    <2>4. ASSUME NEW d \in Clients, AfterCommit(d)
          PROVE  Unsettled'
      <3>1. CASE ReloadFails(d)
        BY <3>1 DEF ReloadFails, Unsettled
      <3>2. CASE Reload(d) \/ Bump(d)
        <4>1. edit'[c] = edit[c] \/ edit'[c].phase \in UnsettledPhases
          BY <2>1, <3>2 DEF Reload, Bump, UnsettledPhases, TypeOK, Edit
        <4> QED
          BY <2>2, <4>1
      <3> QED
        BY <2>4, <3>1, <3>2 DEF AfterCommit
    <2>5. ASSUME NEW d \in Clients, NEW i \in Instances, NEW op \in OfferedEdits, Submit(d, i, op)
          PROVE  edit'[c] = edit[c]
      <3>1. d # c
        BY <1>2, <2>5 DEF Submit, Edits, UnsettledPhases
      <3> QED
        BY <2>5, <3>1 DEF Submit, TypeOK
    <2>6. ASSUME NEW i \in Instances, Restart(i)
          PROVE  Unsettled'
      <3>1. CASE Of(edit[c], i)
        <4>1. edit[c].phase # "commit"
          BY <1>2 DEF UnsettledPhases
        <4>2. skipped'
          BY <2>6, <3>1, <4>1 DEF Restart
        <4> QED
          BY <4>2 DEF Unsettled
      <3>2. CASE ~Of(edit[c], i)
        BY <2>2, <2>6, <3>2 DEF Restart
      <3> QED
        BY <3>1, <3>2
    <2>7. ASSUME \/ \E d \in Clients : \/ \E i \in Instances : Ask(d, i)
                                       \/ Fly(d) \/ Load(d) \/ LoadFails(d) \/ Fill(d)
                 \/ SweepPublishes \/ (\E k \in Stores : Expire(k)) \/ UNCHANGED vars
          PROVE  edit'[c] = edit[c]
      BY <2>7 DEF Ask, Fly, Load, LoadFails, Fill, SweepPublishes, Expire, vars
    <2> QED
      BY Steps, <2>2, <2>3, <2>4, <2>5, <2>6, <2>7
  <1> QED
    BY <1>1, <1>2 DEF Unsettled

Filling(c, key, got, overtaken) ==
    /\ Reads(c, "fill") /\ read[c].key = key
    /\ read[c].got = got /\ read[c].overtaken = overtaken

(* What a cache holds, or a load is about to fill in, comes from one of      *)
(* before or is the row, unless the step is an invalidation.                 *)
LEMMA EntryOrigin ==
    ASSUME TypeOK, [Next]_vars, \A c \in Clients : ~Invalidate(c),
           NEW k \in Stores, NEW e \in store'[k], e \notin store[k]
    PROVE  \E c \in Clients : Filling(c, e.key, e.got, e.overtaken)
  <1>1. ASSUME NEW c \in Clients, Fill(c)
        PROVE  Filling(c, e.key, e.got, e.overtaken)
    <2>1. StoreOf(read[c].at) \in Stores
      BY <1>1, WaitsTyping, StoreOfIsStore DEF Fill, Reads
    <2>2. e \in Filled(c) /\ k = StoreOf(read[c].at)
      BY <1>1, <2>1 DEF Fill, TypeOK
    <2>3. e = [key |-> FilledKey(c), got |-> read[c].got, overtaken |-> read[c].overtaken]
      BY <2>2 DEF Filled
    <2> QED
      BY <1>1, <2>3 DEF Fill, Filling, FilledKey
  <1>2. ASSUME \/ \E i \in Instances : Restart(i)
               \/ \E j \in Stores : Expire(j)
        PROVE  FALSE
    BY <1>2 DEF Restart, Expire, TypeOK
  <1>3. ASSUME \/ \E c \in Clients : \/ \E i \in Instances : Ask(c, i)
                                     \/ Fly(c) \/ Load(c) \/ LoadFails(c)
               \/ \E c \in Clients : Commits(c) \/ Reload(c) \/ ReloadFails(c) \/ Bump(c)
               \/ \E c \in Clients, i \in Instances, op \in OfferedEdits : Submit(c, i, op)
               \/ SweepPublishes \/ UNCHANGED vars
        PROVE  FALSE
    BY <1>3 DEF Ask, Fly, Load, LoadFails, Commits, CommitUpdate, CommitAnnotate, CommitRestore,
       CommitTransition, CommitDelete, CommitFails, Reload, ReloadFails, Bump, Submit,
       SweepPublishes, vars, caching
  <1> QED
    BY Steps, <1>1, <1>2, <1>3 DEF AfterCommit

LEMMA FillOrigin ==
    ASSUME TypeOK, [Next]_vars, \A c \in Clients : ~Invalidate(c),
           NEW d \in Clients, Reads(d, "fill")'
    PROVE  read'[d] = read[d] \/ read'[d].got = article
  <1>1. ASSUME NEW c \in Clients, Load(c)
        PROVE  read'[d] = read[d] \/ read'[d].got = article
    <2>1. read[c] \in Read
      BY <1>1, Pending DEF Load, Reads
    <2>2. read' = [read EXCEPT ![c] = [read[c] EXCEPT !.phase = "fill", !.got = article]]
      BY <1>1 DEF Load, TypeOK
    <2> QED
      BY <2>1, <2>2 DEF TypeOK, Read
  <1>2. ASSUME NEW c \in Clients, NEW i \in Instances, Ask(c, i)
        PROVE  read'[d] = read[d]
    BY <1>2 DEF Ask, Reads, TypeOK
  <1>3. ASSUME NEW c \in Clients, Fly(c)
        PROVE  read'[d] = read[d]
    <2>1. read[c] \in Read
      BY <1>3, Pending DEF Fly, Reads
    <2> QED
      BY <1>3, <2>1 DEF Fly, Receive, Reads, Idle, TypeOK, Read
  <1>4. ASSUME \/ \E c \in Clients : LoadFails(c) \/ Fill(c) \/ Commits(c)
               \/ \E c \in Clients : Reload(c) \/ ReloadFails(c) \/ Bump(c)
               \/ \E c \in Clients, i \in Instances, op \in OfferedEdits : Submit(c, i, op)
               \/ SweepPublishes \/ (\E k \in Stores : Expire(k)) \/ UNCHANGED vars
               \/ \E i \in Instances : Restart(i)
        PROVE  read'[d] \in {read[d], Idle}
    BY <1>4 DEF LoadFails, Fill, Receive, Commits, CommitUpdate, CommitAnnotate, CommitRestore,
       CommitTransition, CommitDelete, CommitFails, Reload, ReloadFails, Bump, Submit,
       SweepPublishes, Expire, Restart, vars
  <1> QED
    BY Steps, <1>1, <1>2, <1>3, <1>4 DEF AfterCommit, Reads, Idle

LEMMA InvalidateSettles ==
    ASSUME StaleInv, NEW k, Stores = {k}, NEW c \in Clients, Invalidate(c)
    PROVE  \/ Unsettled'
           \/ /\ \A e \in store'[k] : e.key # DetailKey
              /\ \A d \in Clients : Reads(d, "fill")' /\ read'[d].key = DetailKey
                                    => read'[d].overtaken
  <1>0. TypeOK /\ edit[c] \in Edit /\ edit[c].at \in Instances
    BY Busy DEF StaleInv, Invalidate, Edits, Edit
  <1>1. StoreOf(edit[c].at) = k /\ \A i \in Instances : StoreOf(i) = k
    BY <1>0, StoreOfIsStore
  <1>2. CASE skipped'
    BY <1>2 DEF Unsettled
  <1>3. CASE /\ store' = [store EXCEPT ![k] = Invalidated(@)]
             /\ read' = [d \in Clients |->
                   IF Reads(d, "fill") /\ StoreOf(read[d].at) = k /\ read[d].key = DetailKey
                   THEN [read[d] EXCEPT !.overtaken = TRUE]
                   ELSE read[d]]
    <2>1. \A e \in store'[k] : e.key # DetailKey
      BY <1>0, <1>3 DEF Invalidated, TypeOK
    <2>2. ASSUME NEW d \in Clients, Reads(d, "fill")', read'[d].key = DetailKey
          PROVE  read'[d].overtaken
      <3>1. CASE Reads(d, "fill")
        <4>1. read[d] \in Read /\ StoreOf(read[d].at) = k
          BY <1>0, <1>1, <3>1, Pending, WaitsTyping DEF Reads
        <4>2. read[d].key = DetailKey
          BY <1>3, <2>2, <4>1 DEF Read
        <4> QED
          BY <1>3, <3>1, <4>1, <4>2 DEF Read
      <3>2. CASE ~Reads(d, "fill")
        BY <1>3, <2>2, <3>2 DEF Reads
      <3> QED
        BY <3>1, <3>2
    <2> QED
      BY <2>1, <2>2
  <1> QED
    BY <1>1, <1>2, <1>3 DEF Invalidate

LEMMA StaleNext ==
    ASSUME NEW k, Stores = {k}
    PROVE  StaleInv /\ [Next]_vars => StaleInv'
  <1> SUFFICES ASSUME StaleInv, [Next]_vars
               PROVE  StaleInv'
    OBVIOUS
  <1>0. TypeOK /\ TypeOK'
    BY TypeNext DEF StaleInv
  <1>1. CASE Unsettled'
    BY <1>0, <1>1 DEF StaleInv
  <1>2. CASE \E c \in Clients : Invalidate(c)
    BY <1>0, <1>1, <1>2, InvalidateSettles DEF StaleInv
  <1>3. CASE ~Unsettled' /\ \A c \in Clients : ~Invalidate(c)
    <2>1. article' = article /\ ~Unsettled
      BY <1>0, <1>3, ChangeUnsettles, UnsettledStays
    <2>2. ASSUME NEW e \in store'[k], e.key = DetailKey, e.got.edition # article.edition
          PROVE  e.overtaken
      <3>1. CASE e \in store[k]
        BY <2>1, <2>2, <3>1 DEF StaleInv
      <3>2. CASE e \notin store[k]
        <4>1. PICK c \in Clients : Filling(c, e.key, e.got, e.overtaken)
          BY <1>0, <1>3, <2>2, <3>2, EntryOrigin
        <4> QED
          BY <2>1, <2>2, <4>1 DEF StaleInv, Filling
      <3> QED
        BY <3>1, <3>2
    <2>3. ASSUME NEW d \in Clients, Reads(d, "fill")', read'[d].key = DetailKey,
                 read'[d].got.edition # article.edition
          PROVE  read'[d].overtaken
      <3>1. read'[d] = read[d]
        BY <1>0, <1>3, <2>3, FillOrigin
      <3> QED
        BY <2>1, <2>3, <3>1 DEF StaleInv, Reads
    <2> QED
      BY <1>0, <2>1, <2>2, <2>3 DEF StaleInv
  <1> QED
    BY <1>1, <1>2, <1>3

LEMMA StaleInit == Init => StaleInv
  <1> SUFFICES ASSUME Init
               PROVE  StaleInv
    OBVIOUS
  <1>1. /\ \A c \in Clients : ~Reads(c, "fill")
        /\ \A k \in Stores : store[k] = {}
    BY DEF Init, Reads, Idle
  <1> QED
    BY TypeInit, <1>1 DEF StaleInv

(* With a single cache, Redis or that of the only process, an article in it  *)
(* is out of date only while an edit is on its way to invalidateArticle,     *)
(* after a load that was overtaken by one, or after an edit that ended       *)
(* without it, for any number of clients and processes.                      *)
THEOREM StaleDetailsExplained ==
    ASSUME NEW k, Stores = {k}
    PROVE  Spec => []StaleDetailIsExplained
  <1>1. StaleInv /\ [Next]_vars => StaleInv'
    BY StaleNext
  <1>2. StaleInv => StaleDetailIsExplained
    BY DEF StaleInv, StaleDetailIsExplained, StaleDetails, Unsettled, UnsettledPhases
  <1> QED
    BY <1>1, <1>2, StaleInit, PTL DEF Spec
=================================================================================
