-------------------------- MODULE ArticleWorkflowProofs --------------------------
(***************************************************************************)
(* Theorems about ArticleWorkflow for every set of articles and requests    *)
(* and every choice of offered operations.                                  *)
(***************************************************************************)
EXTENDS ArticleWorkflow, TLAPS

Rest == <<trail, indexed, unaudited, issued, errors>>

LEMMA TargetIsStatus ==
    /\ \A op \in DOMAIN Target : Target[op] \in ArticleStatus
    /\ \A op \in DOMAIN BulkTarget : BulkTarget[op] \in ArticleStatus
  BY DEF Target, BulkTarget, ArticleStatus

LEMMA OpsAreOps ==
    /\ DOMAIN Target \subseteq Ops /\ DOMAIN BulkTarget \subseteq Ops
    /\ {"create", "update", "delete", "bulkDelete", "publish"} \subseteq Ops
  BY DEF Ops, Target

LEMMA WorkIsWorking ==
    ASSUME NEW op \in Ops, NEW a \in Articles, NEW phase \in Phases, NEW stamp \in BOOLEAN,
           NEW seen \in ArticleStatus \cup {"none"}
    PROVE  Work(op, a, phase, stamp, seen) \in Working
  BY DEF Work, Working

LEMMA IdleIsNotWorking == Idle \notin Working
  <1>1. ASSUME Idle \in Working
        PROVE  FALSE
    <2>1. Idle.op \in Ops
      BY <1>1 DEF Working
    <2>2. "idle" \notin Ops
      BY DEF Ops, Target, BulkTarget
    <2> QED
      BY <2>1, <2>2 DEF Idle
  <1> QED
    BY <1>1

LEMMA Engaged ==
    ASSUME TypeOK, NEW q \in Requests, request[q] # Idle
    PROVE  request[q] \in Working /\ request[q].on \in Articles
  BY DEF TypeOK, Working

(* What an action may make of one request.                                  *)
LEMMA RequestTyping ==
    ASSUME TypeOK, NEW q \in Requests, NEW w \in Working \cup {Idle},
           request' = [request EXCEPT ![q] = w]
    PROVE  request' \in [Requests -> Working \cup {Idle}]
  BY DEF TypeOK

LEMMA GotoTyping ==
    ASSUME TypeOK, NEW q \in Requests, request[q] # Idle, NEW phase \in Phases
    PROVE  /\ [request[q] EXCEPT !.phase = phase] \in Working
           /\ \A s \in ArticleStatus :
                 [request[q] EXCEPT !.phase = phase, !.seen = s] \in Working
  BY Engaged DEF Working

LEMMA DoneTyping ==
    ASSUME TypeOK, NEW q \in Requests, Done(q)
    PROVE  request' \in [Requests -> Working \cup {Idle}]
  BY RequestTyping DEF Done

LEMMA GotoTypeOK ==
    ASSUME TypeOK, NEW q \in Requests, request[q] # Idle, NEW phase \in Phases, Goto(q, phase)
    PROVE  request' \in [Requests -> Working \cup {Idle}]
  BY GotoTyping, RequestTyping DEF Goto

LEMMA WriteTyping ==
    ASSUME TypeOK, NEW a \in Articles, NEW r \in Row, Write(a, r)
    PROVE  article' \in [Articles -> Row]
  BY DEF TypeOK, Write

LEMMA RowUpdates ==
    ASSUME TypeOK, NEW a \in Articles
    PROVE  /\ \A life \in {"live", "deleted"} : [article[a] EXCEPT !.life = life] \in Row
           /\ [article[a] EXCEPT !.at = "past"] \in Row
           /\ \A op \in DOMAIN BulkTarget :
                 [article[a] EXCEPT !.status = BulkTarget[op],
                                    !.dated = @ \/ BulkTarget[op] = "published"] \in Row
  <1>1. article[a] \in Row
    BY DEF TypeOK
  <1> QED
    BY <1>1, TargetIsStatus DEF Row

LEMMA TransitionedIsRow ==
    ASSUME TypeOK, NEW q \in Requests, request[q] # Idle, request[q].op \in DOMAIN Target,
           NEW at \in {"future", "past"}
    PROVE  Transitioned(request[q], article[request[q].on], at) \in Row
  <1> DEFINE r == request[q]
             row == article[r.on]
  <1>1. row \in Row /\ r.stamp \in BOOLEAN
    BY Engaged DEF TypeOK, Working
  <1>2. Target[r.op] \in ArticleStatus
    BY TargetIsStatus
  <1>3. (IF r.op = "schedule" THEN at ELSE row.at) \in {"none", "future", "past"}
    BY <1>1 DEF Row
  <1> HIDE DEF r, row
  <1>4. (row.dated \/ r.stamp) \in BOOLEAN
    BY <1>1 DEF Row
  <1>5. Transitioned(r, row, at) \in Row
    BY <1>1, <1>2, <1>3, <1>4 DEF Transitioned, Row
  <1> QED
    BY <1>5 DEF r, row

(* A transition about to be committed knows the status it was checked for.   *)
SeenInv ==
    \A q \in Requests :
        request[q] # Idle /\ request[q].phase = "commit" /\ request[q].op \in DOMAIN Target
            => request[q].seen \in ArticleStatus

LEMMA BeginTyping ==
    ASSUME TypeOK, NEW q \in Requests, NEW op, Begin(q, op)
    PROVE  issued' \in 0 .. MaxIssued /\ op \in Ops /\ errors' = errors
  BY BoundsAssumption, OfferedAssumption DEF TypeOK, Begin

LEMMA StartsTypeOK ==
    ASSUME TypeOK, NEW q \in Requests, NEW a \in Articles, Starts(q, a)
    PROVE  TypeOK'
  <1>0. "check" \in Phases /\ "commit" \in Phases /\ "index" \in Phases
        /\ "reindex" \in Phases /\ "unindex" \in Phases
    BY DEF Phases
  <1>1. ASSUME NEW op, Begin(q, op), NEW w \in Working, NEW r \in Row,
               request' = [request EXCEPT ![q] = w],
               \/ UNCHANGED article \/ article' = [article EXCEPT ![a] = r],
               unaudited' \in SUBSET Articles, UNCHANGED <<trail, indexed>>
        PROVE  TypeOK'
    <2>1. request' \in [Requests -> Working \cup {Idle}]
      BY <1>1, RequestTyping
    <2>2. article' \in [Articles -> Row]
      BY <1>1 DEF TypeOK
    <2>3. issued' \in 0 .. MaxIssued /\ errors' = errors
      BY <1>1, BeginTyping
    <2> QED
      BY <1>1, <2>1, <2>2, <2>3 DEF TypeOK
  <1>2. article[a] \in Row /\ unaudited \in SUBSET Articles
    BY DEF TypeOK
  <1>3. CASE Create(q, a)
    <2>1. Work("create", a, "index", FALSE, "draft") \in Working
      BY <1>0, OpsAreOps, WorkIsWorking DEF ArticleStatus
    <2>2. [article[a] EXCEPT !.life = "live"] \in Row
      BY RowUpdates
    <2> QED
      BY <1>1, <1>2, <1>3, <2>1, <2>2 DEF Create
  <1>4. CASE LoadToPublish(q, a)
    <2>1. NeedsDate(a) \in BOOLEAN
      BY DEF NeedsDate
    <2>2. Work("publish", a, "check", NeedsDate(a), "none") \in Working
      BY <1>0, <2>1, OpsAreOps, WorkIsWorking
    <2> QED
      BY <1>1, <1>2, <1>4, <2>2 DEF LoadToPublish
  <1>5. ASSUME NEW op \in Ops, LoadAndCheck(q, op, a)
        PROVE  TypeOK'
    <2>1. Work(op, a, "commit", FALSE, article[a].status) \in Working
      BY <1>0, <1>2, WorkIsWorking DEF Row
    <2> QED
      BY <1>1, <1>2, <1>5, <2>1 DEF LoadAndCheck
  <1>6. ASSUME NEW op \in Ops, LoadToEdit(q, op, a)
        PROVE  TypeOK'
    <2>1. Work(op, a, "commit", FALSE, "none") \in Working
      BY <1>0, WorkIsWorking
    <2> QED
      BY <1>1, <1>2, <1>6, <2>1 DEF LoadToEdit
  <1>7. ASSUME NEW op \in Ops, BulkStatus(q, op, a)
        PROVE  TypeOK'
    <2>1. Work(op, a, IF op = "bulkPublish" THEN "reindex" ELSE "unindex", FALSE, "none")
             \in Working
      BY <1>0, WorkIsWorking
    <2>2. op \in DOMAIN BulkTarget
      BY <1>7 DEF BulkStatus, BulkTarget
    <2>3. [article[a] EXCEPT !.status = BulkTarget[op],
                             !.dated = @ \/ BulkTarget[op] = "published"] \in Row
      BY <2>2, RowUpdates
    <2>4. unaudited' \in SUBSET Articles
      BY <1>2, <1>7 DEF BulkStatus, BulkWrite
    <2> QED
      BY <1>1, <1>7, <2>1, <2>3, <2>4 DEF BulkStatus, BulkWrite, Write
  <1>8. CASE BulkDelete(q, a)
    <2>1. Work("bulkDelete", a, "unindex", FALSE, "none") \in Working
      BY <1>0, OpsAreOps, WorkIsWorking
    <2>2. [article[a] EXCEPT !.life = "deleted"] \in Row
      BY RowUpdates
    <2> QED
      BY <1>1, <1>2, <1>8, <2>1, <2>2 DEF BulkDelete, Write
  <1>9. CASE SweepList(q, a)
    <2>1. Begin(q, "sweep")
      BY <1>9 DEF SweepList
    <2>2. Work("sweep", a, "commit", FALSE, "none") \in Working
      BY <1>0, <2>1, BeginTyping, WorkIsWorking
    <2> QED
      BY <1>1, <1>2, <1>9, <2>2 DEF SweepList
  <1> QED
    BY <1>3, <1>4, <1>5, <1>6, <1>7, <1>8, <1>9 DEF Starts

LEMMA ContinuesTypeOK ==
    ASSUME TypeOK, SeenInv, NEW q \in Requests, Continues(q)
    PROVE  TypeOK'
  <1>0. Phases = {"check", "commit", "reload", "reindex", "index", "unindex"}
    BY DEF Phases
  <1>1. ASSUME request' \in [Requests -> Working \cup {Idle}], UNCHANGED <<article, Rest>>
        PROVE  TypeOK'
    BY <1>1 DEF TypeOK, Rest
  <1>2. ASSUME NEW s \in ArticleStatus, NEW phase \in Phases, request[q] # Idle,
               request' = [request EXCEPT ![q].phase = phase, ![q].seen = s]
        PROVE  request' \in [Requests -> Working \cup {Idle}]
    <2>1. request' = [request EXCEPT ![q] = [request[q] EXCEPT !.phase = phase, !.seen = s]]
      BY <1>2 DEF TypeOK
    <2> QED
      BY <1>2, <2>1, GotoTyping, RequestTyping
  <1>3. request[q] # Idle => article[request[q].on].status \in ArticleStatus
    BY Engaged DEF TypeOK, Row
  <1>4. CASE CheckPublish(q)
    <2>1. request' \in [Requests -> Working \cup {Idle}]
      BY <1>0, <1>2, <1>3, <1>4, DoneTyping DEF CheckPublish, At
    <2> QED
      BY <1>1, <1>4, <2>1 DEF CheckPublish, Rest
  <1>5. CASE CommitTransition(q)
    <2>1. request[q] # Idle /\ request[q].op \in DOMAIN Target /\ request[q].on \in Articles
      BY <1>5, Engaged DEF CommitTransition, At
    <2>2. PICK at \in {"future", "past"} :
             Write(request[q].on, Transitioned(request[q], article[request[q].on], at))
      BY <1>5 DEF CommitTransition
    <2>3. article' \in [Articles -> Row]
      BY <2>1, <2>2, TransitionedIsRow, WriteTyping
    <2>4. request' \in [Requests -> Working \cup {Idle}]
      BY <1>0, <1>5, <2>1, GotoTypeOK DEF CommitTransition
    <2>5. trail' \in [Articles -> Seq(AuditRow)]
      <3>1. [from |-> request[q].seen, to |-> Target[request[q].op]] \in AuditRow
        BY <1>5, <2>1, TargetIsStatus DEF CommitTransition, At, SeenInv, AuditRow
      <3> QED
        BY <1>5, <2>1, <3>1 DEF CommitTransition, TypeOK
    <2> QED
      BY <1>5, <2>3, <2>4, <2>5 DEF CommitTransition, TypeOK
  <1>6. CASE CommitUpdate(q)
    <2>1. request' \in [Requests -> Working \cup {Idle}]
      BY <1>0, <1>2, <1>3, <1>6, DoneTyping DEF CommitUpdate, At
    <2> QED
      BY <1>1, <1>6, <2>1 DEF CommitUpdate, Rest
  <1>7. CASE CommitDelete(q)
    <2>1. request[q] # Idle /\ request[q].on \in Articles
      BY <1>7, Engaged DEF CommitDelete, At
    <2>2. article' \in [Articles -> Row]
      BY <1>7, <2>1, RowUpdates, WriteTyping DEF CommitDelete
    <2>3. request' \in [Requests -> Working \cup {Idle}]
      BY <1>0, <1>7, <2>1, GotoTypeOK DEF CommitDelete
    <2> QED
      BY <1>7, <2>2, <2>3 DEF CommitDelete, TypeOK
  <1>8. CASE CommitSweep(q)
    <2>1. request[q] # Idle /\ request[q].on \in Articles
      BY <1>8, Engaged DEF CommitSweep, At
    <2>2. "sweep" \in DOMAIN BulkTarget
      BY DEF BulkTarget
    <2>3. article' \in [Articles -> Row]
      BY <1>8, <2>1, <2>2, RowUpdates, WriteTyping DEF CommitSweep, BulkWrite
    <2>4. unaudited' \in SUBSET Articles
      BY <1>8, <2>1 DEF CommitSweep, BulkWrite, TypeOK
    <2> QED
      BY <1>8, <2>3, <2>4, DoneTyping DEF CommitSweep, TypeOK
  <1>9. CASE Reload(q)
    <2>1. request' \in [Requests -> Working \cup {Idle}]
      BY <1>0, <1>9, GotoTypeOK, DoneTyping DEF Reload, At
    <2> QED
      BY <1>1, <1>9, <2>1 DEF Reload, Rest
  <1>10. CASE ReadForIndex(q)
    <2>1. request' \in [Requests -> Working \cup {Idle}]
      BY <1>0, <1>2, <1>3, <1>10, DoneTyping DEF ReadForIndex, At
    <2> QED
      BY <1>1, <1>10, <2>1 DEF ReadForIndex, Rest
  <1>11. CASE WriteIndex(q) \/ Unindex(q)
    <2>1. request[q] # Idle
      BY <1>11 DEF WriteIndex, Unindex, At
    <2>2. indexed' \in [Articles -> ArticleStatus \cup {"none"}]
      BY <1>11, <2>1, Engaged DEF WriteIndex, Unindex, TypeOK, Working
    <2> QED
      BY <1>11, <2>2, DoneTyping DEF WriteIndex, Unindex, TypeOK
  <1>12. CASE Fails(q)
    <2>1. errors' \in 0 .. MaxErrors
      BY <1>12, BoundsAssumption DEF Fails, TypeOK
    <2> QED
      BY <1>12, <2>1, DoneTyping DEF Fails, TypeOK
  <1> QED
    BY <1>4, <1>5, <1>6, <1>7, <1>8, <1>9, <1>10, <1>11, <1>12 DEF Continues

LEMMA TimePassesTypeOK ==
    ASSUME TypeOK, NEW a \in Articles, TimePasses(a)
    PROVE  TypeOK'
  <1>1. article' = [article EXCEPT ![a] = [article[a] EXCEPT !.at = "past"]]
    BY DEF TimePasses
  <1>2. article' \in [Articles -> Row]
    BY <1>1, RowUpdates DEF TypeOK
  <1> QED
    BY <1>2 DEF TimePasses, TypeOK

(* How a step may change the row of article a.                              *)
Created(a) ==
    /\ article[a].life = "unborn"
    /\ article'[a] = [article[a] EXCEPT !.life = "live"]

Removed(a) ==
    /\ article[a].life = "live"
    /\ article'[a] = [article[a] EXCEPT !.life = "deleted"]

BulkWritten(a) ==
    /\ article[a].life = "live"
    /\ a \in unaudited'
    /\ \E op \in DOMAIN BulkTarget :
          article'[a] = [article[a] EXCEPT !.status = BulkTarget[op],
                                           !.dated = @ \/ BulkTarget[op] = "published"]

Moved(a) ==
    /\ article[a].life = "live"
    /\ \E q \in Requests :
          /\ CommitTransition(q)
          /\ request[q].on = a
          /\ \E at \in {"future", "past"} :
                article'[a] = Transitioned(request[q], article[a], at)

Aged(a) ==
    /\ article[a].at = "future"
    /\ article'[a] = [article[a] EXCEPT !.at = "past"]

RowStep(a) ==
    \/ article'[a] = article[a]
    \/ Created(a) \/ Removed(a) \/ BulkWritten(a) \/ Moved(a) \/ Aged(a)

LEMMA WriteEffect ==
    ASSUME TypeOK, NEW a \in Articles, NEW b \in Articles, NEW r, Write(b, r)
    PROVE  \/ article'[a] = article[a]
           \/ a = b /\ article[a].life = "live" /\ article'[a] = r
  BY DEF TypeOK, Write, Stored

LEMMA StartsRow ==
    ASSUME TypeOK, NEW q \in Requests, NEW b \in Articles, Starts(q, b), NEW a \in Articles
    PROVE  RowStep(a)
  <1>1. CASE Create(q, b)
    BY <1>1 DEF Create, TypeOK, RowStep, Created
  <1>2. ASSUME UNCHANGED article
        PROVE  RowStep(a)
    BY <1>2 DEF RowStep
  <1>3. ASSUME NEW op \in Ops, BulkStatus(q, op, b)
        PROVE  RowStep(a)
    <2> DEFINE new == [article[b] EXCEPT !.status = BulkTarget[op],
                                         !.dated = @ \/ BulkTarget[op] = "published"]
    <2>1. op \in DOMAIN BulkTarget
      BY <1>3 DEF BulkStatus, BulkTarget
    <2>2. Write(b, new)
      BY <1>3 DEF BulkStatus, BulkWrite
    <2>3. article'[a] = article[a] \/ (a = b /\ article[a].life = "live" /\ article'[a] = new)
      BY <2>2, WriteEffect
    <2>4. article[b].life = "live" => b \in unaudited'
      BY <1>3 DEF BulkStatus, BulkWrite, Stored
    <2>5. ASSUME a = b, article[a].life = "live", article'[a] = new
          PROVE  BulkWritten(a)
      BY <2>1, <2>4, <2>5 DEF BulkWritten
    <2> QED
      BY <2>3, <2>5 DEF RowStep
  <1>4. CASE BulkDelete(q, b)
    BY <1>4, WriteEffect DEF BulkDelete, RowStep, Removed
  <1> QED
    BY <1>1, <1>2, <1>3, <1>4 DEF Starts, LoadToPublish, LoadAndCheck, LoadToEdit, SweepList

LEMMA ContinuesRow ==
    ASSUME TypeOK, NEW q \in Requests, Continues(q), NEW a \in Articles
    PROVE  RowStep(a)
  <1>1. ASSUME UNCHANGED article
        PROVE  RowStep(a)
    BY <1>1 DEF RowStep
  <1>2. request[q] # Idle => request[q].on \in Articles
    BY Engaged
  <1>3. CASE CommitTransition(q)
    <2>1. PICK at \in {"future", "past"} :
             Write(request[q].on, Transitioned(request[q], article[request[q].on], at))
      BY <1>3 DEF CommitTransition
    <2>2. request[q].on \in Articles
      BY <1>2, <1>3 DEF CommitTransition, At
    <2>3. \/ article'[a] = article[a]
          \/ /\ a = request[q].on
             /\ article[a].life = "live"
             /\ article'[a] = Transitioned(request[q], article[a], at)
      BY <2>1, <2>2, WriteEffect
    <2> QED
      BY <1>3, <2>3 DEF RowStep, Moved
  <1>4. CASE CommitDelete(q)
    BY <1>2, <1>4, WriteEffect DEF CommitDelete, At, RowStep, Removed
  <1>5. CASE CommitSweep(q)
    <2> DEFINE b == request[q].on
               new == [article[b] EXCEPT !.status = BulkTarget["sweep"],
                                         !.dated = @ \/ BulkTarget["sweep"] = "published"]
    <2>1. b \in Articles
      BY <1>2, <1>5 DEF CommitSweep, At
    <2>2. Write(b, new)
      BY <1>5 DEF CommitSweep, BulkWrite
    <2>3. article'[a] = article[a] \/ (a = b /\ article[a].life = "live" /\ article'[a] = new)
      BY <2>1, <2>2, WriteEffect
    <2>4. article[b].life = "live" => b \in unaudited'
      BY <1>5 DEF CommitSweep, BulkWrite, Stored
    <2>5. "sweep" \in DOMAIN BulkTarget
      BY DEF BulkTarget
    <2>6. ASSUME a = b, article[a].life = "live", article'[a] = new
          PROVE  BulkWritten(a)
      BY <2>4, <2>5, <2>6 DEF BulkWritten
    <2> QED
      BY <2>3, <2>6 DEF RowStep
  <1> QED
    BY <1>1, <1>3, <1>4, <1>5
       DEF Continues, CheckPublish, CommitUpdate, Reload, ReadForIndex, WriteIndex, Unindex, Fails

LEMMA RowSteps ==
    ASSUME TypeOK, [Next]_vars, NEW a \in Articles
    PROVE  RowStep(a)
  <1>1. ASSUME NEW b \in Articles, TimePasses(b)
        PROVE  RowStep(a)
    BY <1>1 DEF TimePasses, TypeOK, RowStep, Aged
  <1>2. CASE UNCHANGED vars
    BY <1>2 DEF vars, RowStep
  <1> QED
    BY <1>1, <1>2, StartsRow, ContinuesRow DEF Next

---------------------------------------------------------------------------------
(* Requests: a step starts one request or goes on with one.                 *)

Checked(w, a) ==
    /\ w.op \in DOMAIN Target /\ w.phase = "commit" => w.seen = article[a].status
    /\ w.op = "publish" /\ w.phase \in {"check", "commit"} =>
          w.phase = "check" /\ w.stamp = NeedsDate(a) /\ article'[a] = article[a]

LEMMA StartsRequest ==
    ASSUME TypeOK, NEW q \in Requests, NEW a \in Articles, Starts(q, a)
    PROVE  /\ \A p \in Requests : p # q => request'[p] = request[p]
           /\ request'[q].on = a
           /\ article'[a].life # "unborn"
           /\ Checked(request'[q], a)
           /\ UNCHANGED trail
  <1> USE DEF Checked, Work
  <1>1. CASE Create(q, a)
    BY <1>1 DEF Create, Target, TypeOK
  <1>2. CASE LoadToPublish(q, a)
    BY <1>2 DEF LoadToPublish, Found, TypeOK
  <1>3. ASSUME NEW op \in Ops, LoadAndCheck(q, op, a)
        PROVE  /\ \A p \in Requests : p # q => request'[p] = request[p]
               /\ request'[q].on = a
               /\ article'[a].life # "unborn"
               /\ Checked(request'[q], a)
               /\ UNCHANGED trail
    BY <1>3 DEF LoadAndCheck, Found, TypeOK
  <1>4. ASSUME NEW op \in Ops, LoadToEdit(q, op, a)
        PROVE  /\ \A p \in Requests : p # q => request'[p] = request[p]
               /\ request'[q].on = a
               /\ article'[a].life # "unborn"
               /\ Checked(request'[q], a)
               /\ UNCHANGED trail
    BY <1>4 DEF LoadToEdit, Found, Target, TypeOK
  <1>5. ASSUME NEW op \in Ops, BulkStatus(q, op, a)
        PROVE  /\ \A p \in Requests : p # q => request'[p] = request[p]
               /\ request'[q].on = a
               /\ article'[a].life # "unborn"
               /\ Checked(request'[q], a)
               /\ UNCHANGED trail
    BY <1>5 DEF BulkStatus, BulkWrite, Write, Target, TypeOK, Row
  <1>6. CASE BulkDelete(q, a)
    BY <1>6 DEF BulkDelete, Write, Target, TypeOK, Row
  <1>7. CASE SweepList(q, a)
    BY <1>7 DEF SweepList, Due, Found, Target, TypeOK
  <1> QED
    BY <1>1, <1>2, <1>3, <1>4, <1>5, <1>6, <1>7 DEF Starts

LEMMA ContinuesRequest ==
    ASSUME TypeOK, NEW q \in Requests, Continues(q)
    PROVE  /\ request[q] # Idle
           /\ \A p \in Requests : p # q => request'[p] = request[p]
           /\ \/ request'[q] = Idle
              \/ /\ request'[q].op = request[q].op
                 /\ request'[q].on = request[q].on
                 /\ request'[q].stamp = request[q].stamp
                 /\ \/ request'[q].phase \notin {"check", "commit"}
                    \/ /\ request[q].phase = "check"
                       /\ request'[q].phase = "commit"
                       /\ request'[q].seen \in ArticleStatus
                       /\ UNCHANGED article
           /\ UNCHANGED trail \/ CommitTransition(q)
  <1>1. request[q] # Idle
    BY DEF Continues, CheckPublish, CommitTransition, CommitUpdate, CommitDelete, CommitSweep,
           Reload, ReadForIndex, WriteIndex, Unindex, Fails, At
  <1>2. request[q] \in Working /\ article[request[q].on].status \in ArticleStatus
    BY <1>1, Engaged DEF TypeOK, Row
  <1> QED
    BY <1>1, <1>2 DEF TypeOK, Working, Goto, Done,
           Continues, CheckPublish, CommitTransition, CommitUpdate, CommitDelete, CommitSweep,
           Reload, ReadForIndex, WriteIndex, Unindex, Fails, At

LEMMA StepSeen ==
    ASSUME TypeOK, SeenInv, [Next]_vars
    PROVE  SeenInv'
  <1>1. ASSUME NEW q \in Requests, NEW a \in Articles, Starts(q, a)
        PROVE  SeenInv'
    <2>1. article[a].status \in ArticleStatus
      BY DEF TypeOK, Row
    <2> QED
      BY <1>1, <2>1, StartsRequest DEF SeenInv, Checked
  <1>2. ASSUME NEW q \in Requests, Continues(q)
        PROVE  SeenInv'
    BY <1>2, ContinuesRequest DEF SeenInv
  <1>3. ASSUME UNCHANGED request
        PROVE  SeenInv'
    BY <1>3 DEF SeenInv
  <1> QED
    BY <1>1, <1>2, <1>3 DEF Next, TimePasses, vars

LEMMA StepTypeOK ==
    ASSUME TypeOK, SeenInv, [Next]_vars
    PROVE  TypeOK'
  <1>1. CASE UNCHANGED vars
    BY <1>1 DEF vars, TypeOK
  <1> QED
    BY <1>1, StartsTypeOK, ContinuesTypeOK, TimePassesTypeOK DEF Next

LEMMA InitTypeOK == Init => TypeOK /\ SeenInv
  <1> SUFFICES ASSUME Init PROVE TypeOK /\ SeenInv
    OBVIOUS
  <1>1. NewRow \in Row
    BY DEF NewRow, Row, ArticleStatus
  <1> QED
    BY <1>1, BoundsAssumption DEF Init, TypeOK, SeenInv

LEMMA TypeInvariant == Spec => [](TypeOK /\ SeenInv)
  <1>1. TypeOK /\ SeenInv /\ [Next]_vars => TypeOK' /\ SeenInv'
    BY StepSeen, StepTypeOK
  <1> QED
    BY <1>1, InitTypeOK, PTL DEF Spec

(* Rows, audit trails and requests keep their types.                        *)
THEOREM TypeCorrect == Spec => []TypeOK
  BY TypeInvariant, PTL

---------------------------------------------------------------------------------
(* A deleted article is never changed or revived, whatever was decided       *)
(* about it before.                                                         *)
THEOREM DeletedStaysUntouched == Spec => DeletedIsUntouched
  <1>1. TypeOK /\ [Next]_vars =>
          [\A a \in Articles : article[a].life = "deleted" =>
              /\ article'[a].life = "deleted"
              /\ article'[a].status = article[a].status]_vars
    <2> SUFFICES ASSUME TypeOK, [Next]_vars, NEW a \in Articles, article[a].life = "deleted"
                 PROVE  article'[a].life = "deleted" /\ article'[a].status = article[a].status
      OBVIOUS
    <2>1. article[a] \in Row
      BY DEF TypeOK
    <2> QED
      BY <2>1, RowSteps DEF RowStep, Created, Removed, BulkWritten, Moved, Aged, Row
  <1> QED
    BY <1>1, TypeCorrect, PTL DEF Spec, DeletedIsUntouched

---------------------------------------------------------------------------------
(* A publication date once set stays, so a publish that found one needs not  *)
(* set it; one that found none sets it.                                     *)
RowsDated ==
    \A a \in Articles :
        /\ article[a].status = "published" => article[a].dated
        /\ article[a].status = "scheduled" => article[a].at # "none"

StampsKnown ==
    \A q \in Requests :
        /\ request[q] # Idle
        /\ request[q].op = "publish"
        /\ request[q].phase \in {"check", "commit"}
        /\ ~request[q].stamp
        => article[request[q].on].dated

DateInv == RowsDated /\ StampsKnown

LEMMA DateMonotone ==
    ASSUME TypeOK, [Next]_vars, NEW a \in Articles, article[a].dated
    PROVE  article'[a].dated
  <1>1. article[a] \in Row
    BY DEF TypeOK
  <1> QED
    BY <1>1, RowSteps DEF RowStep, Created, Removed, BulkWritten, Moved, Aged, Row, Transitioned

LEMMA RowDates ==
    ASSUME TypeOK, DateInv, [Next]_vars, NEW a \in Articles
    PROVE  /\ article'[a].status = "published" => article'[a].dated
           /\ article'[a].status = "scheduled" => article'[a].at # "none"
  <1>1. /\ article[a] \in Row
        /\ article[a].status = "published" => article[a].dated
        /\ article[a].status = "scheduled" => article[a].at # "none"
    BY DEF TypeOK, DateInv, RowsDated
  <1>2. CASE article'[a] = article[a] \/ Created(a) \/ Removed(a) \/ Aged(a)
    BY <1>1, <1>2 DEF Created, Removed, Aged, Row
  <1>3. CASE BulkWritten(a)
    <2>1. PICK op \in DOMAIN BulkTarget :
             article'[a] = [article[a] EXCEPT !.status = BulkTarget[op],
                                              !.dated = @ \/ BulkTarget[op] = "published"]
      BY <1>3 DEF BulkWritten
    <2>2. /\ article'[a].status = BulkTarget[op]
          /\ article'[a].dated = (article[a].dated \/ BulkTarget[op] = "published")
      BY <1>1, <2>1 DEF Row
    <2>3. BulkTarget[op] # "scheduled"
      BY DEF BulkTarget
    <2> QED
      BY <2>2, <2>3
  <1>4. CASE Moved(a)
    <2>1. PICK q \in Requests, at \in {"future", "past"} :
             /\ CommitTransition(q)
             /\ request[q].on = a
             /\ article'[a] = Transitioned(request[q], article[a], at)
      BY <1>4 DEF Moved
    <2>2. request[q] # Idle /\ request[q].phase = "commit" /\ request[q].op \in DOMAIN Target
      BY <2>1 DEF CommitTransition, At
    <2>3. /\ article'[a].status = Target[request[q].op]
          /\ article'[a].dated = (article[a].dated \/ request[q].stamp)
          /\ request[q].op = "schedule" => article'[a].at = at
      BY <1>1, <2>1 DEF Transitioned, Row
    <2>4. article'[a].status = "published" => request[q].op = "publish"
      BY <2>2, <2>3 DEF Target
    <2>5. article'[a].status = "scheduled" => request[q].op = "schedule"
      BY <2>2, <2>3 DEF Target
    <2>6. request[q].op = "publish" => article[a].dated \/ request[q].stamp
      BY <2>1, <2>2 DEF DateInv, StampsKnown
    <2> QED
      BY <2>3, <2>4, <2>5, <2>6
  <1> QED
    BY <1>2, <1>3, <1>4, RowSteps DEF RowStep

LEMMA StepDate ==
    ASSUME TypeOK, DateInv, [Next]_vars
    PROVE  DateInv'
  <1>1. RowsDated'
    BY RowDates DEF RowsDated
  <1>2. ASSUME NEW p \in Requests, request'[p] # Idle, request'[p].op = "publish",
               request'[p].phase \in {"check", "commit"}, ~request'[p].stamp
        PROVE  article'[request'[p].on].dated
    <2>1. CASE request'[p] = request[p]
      <3>1. article[request[p].on].dated /\ request[p].on \in Articles
        BY <1>2, <2>1, Engaged DEF DateInv, StampsKnown
      <3> QED
        BY <2>1, <3>1, DateMonotone
    <2>2. ASSUME NEW a \in Articles, Starts(p, a)
          PROVE  article'[request'[p].on].dated
      <3>1. request'[p].on = a /\ ~NeedsDate(a)
        BY <1>2, <2>2, StartsRequest DEF Checked
      <3>2. article[a].dated
        BY <3>1 DEF NeedsDate
      <3> QED
        BY <3>1, <3>2, DateMonotone
    <2>3. CASE Continues(p)
      <3>1. /\ request[p] # Idle
            /\ request[p].op = "publish"
            /\ request[p].phase = "check"
            /\ ~request[p].stamp
            /\ request'[p].on = request[p].on
        BY <1>2, <2>3, ContinuesRequest
      <3>2. article[request[p].on].dated /\ request[p].on \in Articles
        BY <3>1, Engaged DEF DateInv, StampsKnown
      <3> QED
        BY <3>1, <3>2, DateMonotone
    <2> QED
      BY <2>1, <2>2, <2>3, StartsRequest, ContinuesRequest DEF Next, TimePasses, vars
  <1>3. StampsKnown'
    BY <1>2 DEF StampsKnown, Idle
  <1> QED
    BY <1>1, <1>3 DEF DateInv

(* Whatever requests race, bulk actions included, a published article has a  *)
(* date and a scheduled one a time.                                         *)
THEOREM DatesAlwaysFollow == Spec => []DatesFollowStatus
  <1>1. Init => DateInv
    BY DEF Init, NewRow, DateInv, RowsDated, StampsKnown
  <1>2. TypeOK /\ DateInv /\ [Next]_vars => DateInv'
    BY StepDate
  <1>3. DateInv => DatesFollowStatus
    BY DEF DateInv, RowsDated, DatesFollowStatus
  <1> QED
    BY <1>1, <1>2, <1>3, TypeCorrect, PTL DEF Spec

---------------------------------------------------------------------------------
(* Requests are about stored articles, and an article not yet created has    *)
(* no history.                                                              *)
TrailInv ==
    /\ \A q \in Requests : request[q] # Idle => article[request[q].on].life # "unborn"
    /\ \A a \in Articles : article[a].life = "unborn" =>
          article[a].status = "draft" /\ trail[a] = <<>>
    /\ TrailExplainsStatus

LEMMA StaysBorn ==
    ASSUME TypeOK, [Next]_vars, NEW a \in Articles, article[a].life # "unborn"
    PROVE  article'[a].life # "unborn"
  <1>1. article[a] \in Row
    BY DEF TypeOK
  <1> QED
    BY <1>1, RowSteps DEF RowStep, Created, Removed, BulkWritten, Moved, Aged, Row, Transitioned

LEMMA LastAfterAppend ==
    ASSUME NEW s \in Seq(AuditRow), NEW e \in AuditRow
    PROVE  /\ Append(s, e) # <<>>
           /\ Append(s, e)[Len(Append(s, e))] = e
  OBVIOUS

LEMMA UnauditedGrows ==
    ASSUME [Next]_vars
    PROVE  unaudited \subseteq unaudited'
  <1>1. ASSUME NEW q \in Requests, NEW a \in Articles, Starts(q, a)
        PROVE  unaudited \subseteq unaudited'
    BY <1>1 DEF Starts, Create, LoadToPublish, LoadAndCheck, LoadToEdit, SweepList,
                BulkStatus, BulkDelete, BulkWrite
  <1>2. ASSUME NEW q \in Requests, Continues(q)
        PROVE  unaudited \subseteq unaudited'
    <2>1. CASE CommitSweep(q)
      BY <2>1 DEF CommitSweep, BulkWrite
    <2>2. CASE CommitTransition(q)
      BY <2>2 DEF CommitTransition
    <2> QED
      BY <1>2, <2>1, <2>2
         DEF Continues, CheckPublish, CommitUpdate, CommitDelete, Reload, ReadForIndex,
             WriteIndex, Unindex, Fails
  <1> QED
    BY <1>1, <1>2 DEF Next, TimePasses, vars

LEMMA StepTrail ==
    ASSUME TypeOK, SeenInv, TrailInv, [Next]_vars
    PROVE  TrailInv'
  <1>1. ASSUME NEW p \in Requests, request'[p] # Idle
        PROVE  article'[request'[p].on].life # "unborn"
    <2>1. CASE request'[p] = request[p]
      BY <1>1, <2>1, Engaged, StaysBorn DEF TrailInv
    <2>2. ASSUME NEW a \in Articles, Starts(p, a)
          PROVE  article'[request'[p].on].life # "unborn"
      BY <2>2, StartsRequest
    <2>3. CASE Continues(p)
      <3>1. request[p] # Idle /\ request'[p].on = request[p].on
        BY <1>1, <2>3, ContinuesRequest
      <3> QED
        BY <3>1, Engaged, StaysBorn DEF TrailInv
    <2> QED
      BY <2>1, <2>2, <2>3, StartsRequest, ContinuesRequest DEF Next, TimePasses, vars
  <1>2. UNCHANGED trail \/ \E q \in Requests : CommitTransition(q)
    BY StartsRequest, ContinuesRequest DEF Next, TimePasses, vars
  <1>3. unaudited \subseteq unaudited'
    BY UnauditedGrows
  <1>4. ASSUME NEW a \in Articles
        PROVE  /\ article'[a].life = "unborn" => article'[a].status = "draft" /\ trail'[a] = <<>>
               /\ article'[a].life = "live" /\ a \notin unaudited'
                     => article'[a].status = LastStatus(a)'
    <2>1. article[a] \in Row
      BY DEF TypeOK
    <2>2. ASSUME NEW q \in Requests, CommitTransition(q), request[q].on = a
          PROVE  /\ article'[a].life # "unborn"
                 /\ article'[a].life = "live" => article'[a].status = LastStatus(a)'
      <3> DEFINE e == [from |-> request[q].seen, to |-> Target[request[q].op]]
      <3>1. /\ request[q] # Idle
            /\ request[q].phase = "commit"
            /\ request[q].op \in DOMAIN Target
        BY <2>2 DEF CommitTransition, At
      <3>2. e \in AuditRow
        BY <3>1, TargetIsStatus DEF SeenInv, AuditRow
      <3>3. trail[a] \in Seq(AuditRow) /\ trail'[a] = Append(trail[a], e)
        BY <2>2 DEF CommitTransition, TypeOK
      <3>4. LastStatus(a)' = Target[request[q].op]
        BY <3>2, <3>3, LastAfterAppend DEF LastStatus
      <3>5. article[a].life # "unborn"
        BY <2>2, <3>1 DEF TrailInv
      <3>6. PICK at \in {"future", "past"} : Write(a, Transitioned(request[q], article[a], at))
        BY <2>2 DEF CommitTransition
      <3>7. article'[a] = IF article[a].life = "live"
                          THEN Transitioned(request[q], article[a], at) ELSE article[a]
        BY <3>6 DEF Write, Stored, TypeOK
      <3> QED
        BY <2>1, <3>4, <3>5, <3>7 DEF Transitioned, Row
    <2>3. ASSUME NEW q \in Requests, CommitTransition(q), request[q].on # a
          PROVE  trail'[a] = trail[a] /\ article'[a] = article[a]
      <3>1. trail'[a] = trail[a]
        BY <2>3 DEF CommitTransition, TypeOK
      <3>2. request[q].on \in Articles
        BY <2>3, Engaged DEF CommitTransition, At
      <3>3. article'[a] = article[a]
        BY <2>3, <3>2, WriteEffect DEF CommitTransition
      <3> QED
        BY <3>1, <3>3
    <2>4. CASE trail'[a] = trail[a] /\ ~Moved(a)
      <3>1. LastStatus(a)' = LastStatus(a)
        BY <2>4 DEF LastStatus
      <3>2. CASE article'[a] = article[a] \/ Removed(a) \/ BulkWritten(a) \/ Aged(a)
        BY <1>3, <2>1, <2>4, <3>1, <3>2
           DEF TrailInv, TrailExplainsStatus, Removed, BulkWritten, Aged, Row
      <3>3. CASE Created(a)
        BY <1>3, <2>1, <2>4, <3>1, <3>3 DEF TrailInv, Created, Row, LastStatus
      <3> QED
        BY <2>4, <3>2, <3>3, RowSteps DEF RowStep
    <2>5. CASE Moved(a)
      BY <2>2, <2>5 DEF Moved
    <2> QED
      BY <1>2, <2>2, <2>3, <2>4, <2>5
  <1> QED
    BY <1>1, <1>4 DEF TrailInv, TrailExplainsStatus, Idle

LEMMA TrailInvariant == Spec => [](TypeOK /\ SeenInv /\ TrailInv)
  <1>1. Init => TrailInv
    BY DEF Init, NewRow, TrailInv, TrailExplainsStatus, LastStatus
  <1>2. TypeOK /\ SeenInv /\ TrailInv /\ [Next]_vars => TrailInv'
    BY StepTrail
  <1> QED
    BY <1>1, <1>2, TypeInvariant, PTL DEF Spec

(* Unless a bulk action or a sweep changed it, the status of an article is   *)
(* the one its last audit row names, in every interleaving of transitions    *)
(* and after every failed transaction.                                      *)
THEOREM TrailAlwaysExplains == Spec => []TrailExplainsStatus
  <1>1. TrailInv => TrailExplainsStatus
    BY DEF TrailInv
  <1> QED
    BY <1>1, TrailInvariant, PTL

---------------------------------------------------------------------------------
(* Operations one after another.                                            *)

OneAtATime == \A p, q \in Requests : p = q

(* What a transition has seen is still so when it commits.                   *)
SightInv ==
    \A q \in Requests :
        request[q] # Idle /\ request[q].op \in DOMAIN Target /\ request[q].phase = "commit" =>
            /\ article[request[q].on].life = "live"
            /\ request[q].seen = article[request[q].on].status

LEMMA StepSight ==
    ASSUME OneAtATime, TypeOK, SightInv, [Next]_vars
    PROVE  SightInv'
  <1>1. ASSUME NEW q \in Requests, NEW a \in Articles, Starts(q, a)
        PROVE  SightInv'
    <2> SUFFICES ASSUME request'[q].op \in DOMAIN Target, request'[q].phase = "commit"
                 PROVE  /\ article'[request'[q].on].life = "live"
                        /\ request'[q].seen = article'[request'[q].on].status
      BY DEF SightInv, OneAtATime
    <2>1. PICK op \in Ops : LoadAndCheck(q, op, a)
      BY <1>1 DEF Starts, Create, LoadToPublish, LoadToEdit, BulkStatus, BulkDelete, SweepList,
                  Work, Target, TypeOK
    <2> QED
      BY <2>1 DEF LoadAndCheck, Work, Found, TypeOK
  <1>2. ASSUME NEW q \in Requests, Continues(q)
        PROVE  SightInv'
    <2> SUFFICES ASSUME request'[q] # Idle, request'[q].op \in DOMAIN Target,
                        request'[q].phase = "commit"
                 PROVE  /\ article'[request'[q].on].life = "live"
                        /\ request'[q].seen = article'[request'[q].on].status
      BY DEF SightInv, OneAtATime
    <2>1. request[q] \in Working /\ request[q].phase = "check" /\ ~ Fails(q)
      BY <1>2, ContinuesRequest, Engaged DEF Fails, Done, TypeOK
    <2>2. CheckPublish(q)
      BY <1>2, <2>1 DEF Continues, CommitTransition, CommitUpdate, CommitDelete, CommitSweep,
                        Reload, ReadForIndex, WriteIndex, Unindex, At
    <2>3. /\ Found(request[q].on) /\ UNCHANGED article
          /\ request'[q] = [request[q] EXCEPT !.phase = "commit",
                                             !.seen = article[request[q].on].status]
      BY <2>2 DEF CheckPublish, Done, TypeOK
    <2> QED
      BY <2>1, <2>3 DEF Found, Working
  <1>3. ASSUME NEW a \in Articles, TimePasses(a)
        PROVE  SightInv'
    <2>1. \A b \in Articles : article'[b].life = article[b].life
                              /\ article'[b].status = article[b].status
      BY <1>3 DEF TimePasses, TypeOK, Row
    <2> QED
      BY <1>3, <2>1, Engaged DEF SightInv, TimePasses
  <1>4. CASE UNCHANGED vars
    BY <1>4 DEF vars, SightInv
  <1> QED
    BY <1>1, <1>2, <1>3, <1>4 DEF Next

LEMMA StepChain ==
    ASSUME TypeOK, SeenInv, TrailInv, SightInv, TrailIsChained, [Next]_vars
    PROVE  TrailIsChained'
  <1>1. unaudited \subseteq unaudited'
    BY UnauditedGrows
  <1>2. CASE UNCHANGED trail
    BY <1>1, <1>2 DEF TrailIsChained
  <1>3. ASSUME NEW q \in Requests, CommitTransition(q)
        PROVE  TrailIsChained'
    <2> DEFINE b == request[q].on
               e == [from |-> request[q].seen, to |-> Target[request[q].op]]
    <2>1. /\ request[q] # Idle /\ request[q].phase = "commit" /\ request[q].op \in DOMAIN Target
      BY <1>3 DEF CommitTransition, At
    <2>2. b \in Articles /\ e \in AuditRow
      BY <2>1, Engaged, TargetIsStatus DEF SeenInv, AuditRow
    <2>3. /\ \A a \in Articles : trail[a] \in Seq(AuditRow)
          /\ trail'[b] = Append(trail[b], e)
          /\ \A a \in Articles \ {b} : trail'[a] = trail[a]
      BY <1>3, <2>2 DEF CommitTransition, TypeOK
    <2>4. b \notin unaudited => e.from = LastStatus(b)
      BY <2>1, <2>2 DEF SightInv, TrailInv, TrailExplainsStatus
    <2> HIDE DEF b, e
    <2> SUFFICES ASSUME NEW a \in Articles, a \notin unaudited, NEW n \in 1 .. Len(trail'[a])
                 PROVE  trail'[a][n].from = IF n = 1 THEN "draft" ELSE trail'[a][n - 1].to
      BY <1>1 DEF TrailIsChained
    <2>5. CASE a # b
      BY <2>3, <2>5 DEF TrailIsChained
    <2>6. CASE a = b
      <3> DEFINE s == trail[b]
                 z == Len(s)
      <3>1. s \in Seq(AuditRow) /\ z \in Nat /\ trail'[a] = Append(s, e)
        BY <2>2, <2>3, <2>6
      <3>2. \A m \in 1 .. z : s[m].from = IF m = 1 THEN "draft" ELSE s[m - 1].to
        BY <2>2, <2>6 DEF TrailIsChained
      <3>3. e.from = IF s = <<>> THEN "draft" ELSE s[z].to
        BY <2>4, <2>6 DEF LastStatus
      <3> HIDE DEF s
      <3>4. Len(Append(s, e)) = z + 1 /\ Append(s, e)[z + 1] = e
            /\ \A m \in 1 .. z : Append(s, e)[m] = s[m]
        BY <2>2, <3>1
      <3>5. CASE n \in 1 .. z
        <4>1. n - 1 \in 1 .. z \/ n = 1
          BY <3>1, <3>5
        <4> QED
          BY <3>1, <3>2, <3>4, <3>5, <4>1
      <3>6. CASE n = z + 1
        <4>1. CASE z = 0
          <5>1. s = <<>>
            BY <3>1, <4>1
          <5> QED
            BY <3>1, <3>3, <3>4, <3>6, <4>1, <5>1
        <4>2. CASE z # 0
          <5>1. s # <<>> /\ z \in 1 .. z /\ n - 1 = z /\ n # 1
            BY <3>1, <3>6, <4>2
          <5> QED
            BY <3>1, <3>3, <3>4, <3>6, <5>1
        <4> QED
          BY <4>1, <4>2
      <3> QED
        BY <3>1, <3>4, <3>5, <3>6
    <2> QED
      BY <2>5, <2>6
  <1> QED
    BY <1>2, <1>3, StartsRequest, ContinuesRequest DEF Next, TimePasses, vars

(* When operations run one after another, each audit row of an article       *)
(* starts where the one before it ended, whatever failed in between.         *)
THEOREM TrailStaysChained ==
    ASSUME OneAtATime
    PROVE  Spec => []TrailIsChained
  <1>1. Init => SightInv /\ TrailIsChained
    BY DEF Init, SightInv, TrailIsChained
  <1>2. TypeOK /\ SightInv /\ [Next]_vars => SightInv'
    BY StepSight
  <1>3. TypeOK /\ SeenInv /\ TrailInv /\ SightInv /\ TrailIsChained /\ [Next]_vars
            => TrailIsChained'
    BY StepChain
  <1> QED
    BY <1>1, <1>2, <1>3, TrailInvariant, PTL DEF Spec

---------------------------------------------------------------------------------
(* The search index when no sweep runs.                                      *)

Busy(a) == \E q \in Requests : request[q] # Idle /\ request[q].on = a

Public(a) == article[a].life = "live" /\ article[a].status = "published"

(* What the request at work on an article knows of it, by its phase.         *)
Knows(r) ==
    /\ r.op # "sweep"
    /\ r.phase \in {"check", "commit"} => InSync(r.on)
    /\ r.phase \in {"reload", "reindex"} => article[r.on].life = "live" \/ InSync(r.on)
    /\ r.phase = "index" => article[r.on].life = "live" /\ r.seen = article[r.on].status
    /\ r.phase = "unindex" => ~ Public(r.on)

PostInSync(a) ==
    /\ ~ Busy(a) => InSync(a)
    /\ \A q \in Requests : request[q] # Idle /\ request[q].on = a => Knows(request[q])

IndexInv == errors = 0 => \A a \in Articles : PostTypeOf[a] = "post" => PostInSync(a)

LEMMA SyncByRow ==
    ASSUME NEW a \in Articles, article'[a].life = article[a].life,
           article'[a].status = article[a].status, indexed'[a] = indexed[a]
    PROVE  /\ InSync(a)' = InSync(a)
           /\ Public(a)' = Public(a)
  BY DEF InSync, Public

(* A step of the only request about b leaves the other articles alone.       *)
LEMMA OthersInSync ==
    ASSUME OneAtATime, NEW q \in Requests, NEW b \in Articles,
           request[q] = Idle \/ request[q].on = b,
           request'[q] = Idle \/ request'[q].on = b,
           NEW a \in Articles, a # b, PostInSync(a),
           article'[a] = article[a], indexed'[a] = indexed[a]
    PROVE  PostInSync(a)'
  <1>1. ~ Busy(a) /\ ~ Busy(a)'
    BY DEF Busy, OneAtATime
  <1> QED
    BY <1>1, SyncByRow DEF PostInSync, Busy

LEMMA StartsIndex ==
    ASSUME OneAtATime, "sweep" \notin Offered, TypeOK, TrailInv, errors = 0, IndexInv,
           NEW q \in Requests, NEW b \in Articles, Starts(q, b)
    PROVE  IndexInv'
  <1>1. request[q] = Idle /\ UNCHANGED indexed
    BY DEF Starts, Begin, Create, LoadToPublish, LoadAndCheck, LoadToEdit, BulkStatus, BulkDelete,
           SweepList
  <1>2. request'[q].on = b
    BY StartsRequest
  <1>3. \A a \in Articles : a # b => article'[a] = article[a]
    BY DEF Starts, Create, LoadToPublish, LoadAndCheck, LoadToEdit, BulkStatus, BulkDelete,
           BulkWrite, SweepList, Write, TypeOK
  <1>4. article[b] \in Row /\ indexed[b] \in ArticleStatus \cup {"none"}
    BY DEF TypeOK
  <1>5. ASSUME PostTypeOf[b] = "post"
        PROVE  Knows(request[q])'
    <2>1. InSync(b)
      BY <1>1, <1>5 DEF IndexInv, PostInSync, Busy, OneAtATime
    <2> USE DEF Knows, Work, Begin
    <2>2. CASE Create(q, b)
      <3>1. request'[q] = Work("create", b, "index", FALSE, "draft")
        BY <2>2 DEF Create, TypeOK
      <3>2. article'[b].life = "live" /\ article'[b].status = article[b].status
        BY <1>4, <2>2 DEF Create, TypeOK, Row
      <3>3. article[b].status = "draft"
        BY <2>2 DEF Create, TrailInv
      <3> QED
        BY <3>1, <3>2, <3>3
    <2>3. CASE LoadToPublish(q, b)
      BY <1>1, <2>1, <2>3, SyncByRow DEF LoadToPublish, TypeOK
    <2>4. ASSUME NEW op \in Ops, LoadAndCheck(q, op, b)
          PROVE  Knows(request[q])'
      BY <1>1, <2>1, <2>4, SyncByRow DEF LoadAndCheck, TypeOK, Target
    <2>5. ASSUME NEW op \in Ops, LoadToEdit(q, op, b)
          PROVE  Knows(request[q])'
      BY <1>1, <2>1, <2>5, SyncByRow DEF LoadToEdit, TypeOK
    <2>6. ASSUME NEW op \in Ops, BulkStatus(q, op, b)
          PROVE  Knows(request[q])'
      <3>1. article'[b].life = article[b].life
            /\ (article[b].life # "live" => article'[b] = article[b])
            /\ (article[b].life = "live" => article'[b].status = BulkTarget[op])
        BY <1>4, <2>6 DEF BulkStatus, BulkWrite, Write, Stored, TypeOK, Row
      <3>2. article[b].life # "live" => InSync(b)'
        BY <1>1, <2>1, <3>1, SyncByRow
      <3>3. op \in {"bulkDraft", "bulkTrash"} => ~ Public(b)'
        BY <3>1 DEF Public, BulkTarget
      <3> QED
        BY <1>2, <2>6, <3>1, <3>2, <3>3 DEF BulkStatus, TypeOK
    <2>7. CASE BulkDelete(q, b)
      <3>1. ~ Public(b)'
        BY <1>4, <2>7 DEF BulkDelete, Write, Stored, TypeOK, Row, Public
      <3> QED
        BY <2>7, <3>1 DEF BulkDelete, TypeOK
    <2>8. ~ SweepList(q, b)
      BY DEF SweepList
    <2> QED
      BY <2>2, <2>3, <2>4, <2>5, <2>6, <2>7, <2>8 DEF Starts
  <1>6. request'[q] # Idle
    BY DEF Starts, Create, LoadToPublish, LoadAndCheck, LoadToEdit, BulkStatus, BulkDelete,
           SweepList, Work, Idle, TypeOK, Begin, Ops, Target, BulkTarget
  <1>7. ASSUME NEW a \in Articles, PostTypeOf[a] = "post", a # b
        PROVE  PostInSync(a)'
    BY <1>1, <1>2, <1>3, <1>7, OthersInSync DEF IndexInv
  <1>8. ASSUME PostTypeOf[b] = "post"
        PROVE  PostInSync(b)'
    BY <1>2, <1>5, <1>6, <1>8 DEF PostInSync, Busy, OneAtATime
  <1> QED
    BY <1>7, <1>8 DEF IndexInv

(* Where a request goes on, it keeps what it is about.                       *)
LEMMA NotIdle ==
    ASSUME TypeOK, NEW q \in Requests, request[q] # Idle
    PROVE  \A w : w.op = request[q].op => w # Idle
  <1>1. request[q].op \in Ops /\ "idle" \notin Ops
    BY Engaged DEF Working, Ops, Target, BulkTarget
  <1>2. Idle.op = "idle"
    BY DEF Idle
  <1> QED
    BY <1>1, <1>2

LEMMA Goes ==
    ASSUME TypeOK, NEW q \in Requests, request[q] # Idle, NEW phase, Goto(q, phase)
    PROVE  request'[q] # Idle /\ request'[q].phase = phase
  <1>1. request'[q].phase = phase /\ request'[q].op = request[q].op
    BY Engaged DEF Goto, TypeOK, Working
  <1> QED
    BY <1>1, NotIdle

LEMMA Turns ==
    ASSUME TypeOK, NEW q \in Requests, request[q] # Idle, NEW phase, NEW seen,
           request' = [request EXCEPT ![q].phase = phase, ![q].seen = seen]
    PROVE  request'[q] # Idle /\ request'[q].phase = phase /\ request'[q].seen = seen
  <1>1. /\ request'[q].phase = phase /\ request'[q].seen = seen
        /\ request'[q].op = request[q].op
    BY Engaged DEF TypeOK, Working
  <1> QED
    BY <1>1, NotIdle

LEMMA Ends ==
    ASSUME TypeOK, NEW q \in Requests, Done(q)
    PROVE  request'[q] = Idle
  BY DEF Done, TypeOK

LEMMA ContinuesIndex ==
    ASSUME OneAtATime, TypeOK, SightInv, errors = 0, IndexInv,
           NEW q \in Requests, Continues(q)
    PROVE  IndexInv'
  <1> DEFINE r == request[q]
  <1>1. CASE Fails(q)
    BY <1>1, BoundsAssumption DEF Fails, IndexInv
  <1>2. CASE ~ Fails(q)
    <2>0. r # Idle /\ r \in Working
      BY ContinuesRequest, Engaged
    <2>1. PICK b \in Articles : r # Idle /\ r \in Working /\ b = r.on
      BY <2>0, Engaged
    <2>2. request'[q] = Idle \/ (request'[q].on = b /\ request'[q].op = r.op)
      BY <2>1, ContinuesRequest
    <2>3. \A a \in Articles : a # b => article'[a] = article[a] /\ indexed'[a] = indexed[a]
      BY <1>2, <2>1
         DEF Continues, CheckPublish, CommitTransition, CommitUpdate, CommitDelete, CommitSweep,
             Reload, ReadForIndex, WriteIndex, Unindex, Write, BulkWrite, TypeOK
    <2>4. article[b] \in Row /\ indexed[b] \in ArticleStatus \cup {"none"}
      BY <2>1 DEF TypeOK
    <2>5. ASSUME PostTypeOf[b] = "post"
          PROVE  /\ request'[q] = Idle => InSync(b)'
                 /\ request'[q] # Idle => Knows(request[q])'
      <3>0. Knows(r)
        BY <2>1, <2>5 DEF IndexInv, PostInSync
      <3>1. /\ r.op # "sweep"
            /\ r.phase \in {"check", "commit"} => InSync(b)
            /\ r.phase \in {"reload", "reindex"} => article[b].life = "live" \/ InSync(b)
            /\ r.phase = "index" => article[b].life = "live" /\ r.seen = article[b].status
            /\ r.phase = "unindex" => ~ Public(b)
        BY <2>1, <3>0 DEF Knows
      <3>2. /\ InSync(b)' <=> ((indexed'[b] = "published") <=> Public(b)')
            /\ InSync(b) <=> ((indexed[b] = "published") <=> Public(b))
        BY DEF InSync, Public
      <3>3. Public(b)' <=> (article'[b].life = "live" /\ article'[b].status = "published")
        BY DEF Public
      <3>4. ASSUME request'[q] # Idle,
                   request'[q].phase \in {"check", "commit"} => InSync(b)',
                   request'[q].phase \in {"reload", "reindex"} =>
                       article'[b].life = "live" \/ InSync(b)',
                   request'[q].phase = "index" =>
                       article'[b].life = "live" /\ request'[q].seen = article'[b].status,
                   request'[q].phase = "unindex" => ~ Public(b)'
            PROVE  Knows(request[q])'
        <4>1. request'[q].on = b /\ request'[q].op = r.op
          BY <2>2, <3>4
        <4> QED
          BY <3>1, <3>4, <4>1 DEF Knows
      <3>5. UNCHANGED <<article, indexed>> =>
               (InSync(b)' <=> InSync(b)) /\ (Public(b)' <=> Public(b))
        BY DEF InSync, Public
      <3>6. CASE CheckPublish(q)
        BY <2>1, <3>1, <3>4, <3>5, <3>6, Turns, Ends DEF CheckPublish, At
      <3>7. CASE CommitTransition(q)
        <4>1. article[b].life = "live"
          BY <2>1, <3>7 DEF CommitTransition, At, SightInv
        <4>2. article'[b].life = "live"
          BY <2>1, <2>4, <3>7, <4>1 DEF CommitTransition, Write, Transitioned, TypeOK, Row
        <4> QED
          <5>1. request'[q] # Idle /\ request'[q].phase = "reload"
            BY <2>1, <3>7, Goes DEF CommitTransition
          <5> QED
            BY <2>1, <3>1, <3>4, <4>2, <5>1
      <3>8. CASE CommitUpdate(q)
        <4>1. UNCHANGED <<article, indexed>> /\ r.phase = "commit"
          BY <3>8 DEF CommitUpdate, At
        <4>2. IF article[b].life = "live"
              THEN /\ request'[q] # Idle /\ request'[q].phase = "index"
                   /\ request'[q].seen = article[b].status
              ELSE request'[q] = Idle
          <5>1. CASE Found(b)
            <6>1. request' = [request EXCEPT ![q].phase = "index", ![q].seen = article[b].status]
              BY <2>1, <3>8, <5>1 DEF CommitUpdate
            <6> QED
              BY <2>1, <5>1, <6>1, Turns DEF Found
          <5>2. CASE ~ Found(b)
            BY <2>1, <3>8, <5>2, Ends DEF CommitUpdate, Found
          <5> QED
            BY <5>1, <5>2
        <4> QED
          BY <2>1, <3>1, <3>4, <3>5, <4>1, <4>2
      <3>a. CASE CommitDelete(q)
        <4>1. ~ Public(b)'
          BY <2>1, <2>4, <3>a DEF CommitDelete, Write, Stored, TypeOK, Row, Public
        <4> QED
          <5>1. request'[q] # Idle /\ request'[q].phase = "unindex"
            BY <2>1, <3>a, Goes DEF CommitDelete
          <5> QED
            BY <2>1, <3>1, <3>4, <4>1, <5>1
      <3>b. ~ CommitSweep(q)
        BY <3>1 DEF CommitSweep
      <3>c. CASE Reload(q)
        <4>1. UNCHANGED <<article, indexed>> /\ r.phase = "reload"
          BY <3>c DEF Reload, At
        <4>2. IF article[b].life = "live" THEN request'[q] # Idle /\ request'[q].phase = "reindex"
              ELSE request'[q] = Idle
          BY <2>1, <3>c, Goes, Ends DEF Reload, Found
        <4> QED
          BY <2>1, <3>1, <3>4, <3>5, <4>1, <4>2
      <3>d. CASE ReadForIndex(q)
        <4>1. UNCHANGED <<article, indexed>> /\ r.phase = "reindex"
          BY <3>d DEF ReadForIndex, At
        <4>2. IF article[b].life = "live"
              THEN /\ request'[q] # Idle /\ request'[q].phase = "index"
                   /\ request'[q].seen = article[b].status
              ELSE request'[q] = Idle
          BY <2>1, <3>d, Turns, Ends DEF ReadForIndex, Found
        <4> QED
          BY <2>1, <3>1, <3>4, <3>5, <4>1, <4>2 DEF Public
      <3>e. CASE WriteIndex(q)
        <4>1. article[b].life = "live" /\ r.seen = article[b].status
          BY <2>1, <3>1, <3>e DEF WriteIndex, At
        <4>2. indexed'[b] = r.seen /\ UNCHANGED article /\ request'[q] = Idle
          BY <2>1, <3>e DEF WriteIndex, Done, TypeOK
        <4> QED
          BY <4>1, <4>2 DEF InSync
      <3>f. CASE Unindex(q)
        <4>1. ~ Public(b) /\ KeyedType(r) = PostTypeOf[b]
          BY <2>1, <2>5, <3>1, <3>f DEF Unindex, KeyedType, At
        <4>2. indexed'[b] = "none" /\ UNCHANGED article /\ request'[q] = Idle
          BY <2>1, <3>f, <4>1 DEF Unindex, Done, TypeOK
        <4> QED
          BY <4>1, <4>2 DEF InSync, Public
      <3> QED
        BY <1>2, <3>6, <3>7, <3>8, <3>a, <3>b, <3>c, <3>d, <3>e, <3>f DEF Continues
    <2>6. ASSUME NEW a \in Articles, PostTypeOf[a] = "post", a # b
          PROVE  PostInSync(a)'
      BY <2>1, <2>2, <2>3, <2>6, OthersInSync DEF IndexInv
    <2>7. ASSUME PostTypeOf[b] = "post"
          PROVE  PostInSync(b)'
      BY <2>2, <2>5, <2>7 DEF PostInSync, Busy, OneAtATime
    <2> QED
      <3>1. \A a \in Articles : a = b \/ a # b
        OBVIOUS
      <3> HIDE DEF r
      <3> QED
        BY <2>6, <2>7, <3>1 DEF IndexInv
  <1> QED
    BY <1>1, <1>2

LEMMA StepIndex ==
    ASSUME OneAtATime, "sweep" \notin Offered, TypeOK, TrailInv, SightInv, IndexInv, [Next]_vars
    PROVE  IndexInv'
  <1>1. errors' = 0 => errors = 0
    <2>1. errors \in Nat
      BY BoundsAssumption DEF TypeOK
    <2>2. ASSUME NEW q \in Requests, NEW a \in Articles, Starts(q, a)
          PROVE  UNCHANGED errors
      BY <2>2 DEF Starts, Begin, Create, LoadToPublish, LoadAndCheck, LoadToEdit, BulkStatus,
                  BulkDelete, SweepList
    <2>3. ASSUME NEW q \in Requests, Continues(q)
          PROVE  UNCHANGED errors \/ errors' = errors + 1
      BY <2>3 DEF Continues, CheckPublish, CommitTransition, CommitUpdate, CommitDelete,
                  CommitSweep, Reload, ReadForIndex, WriteIndex, Unindex, Fails
    <2>4. UNCHANGED errors \/ errors' = errors + 1
      BY <2>2, <2>3 DEF Next, TimePasses, vars
    <2> QED
      BY <2>1, <2>4
  <1> SUFFICES ASSUME errors = 0
               PROVE  IndexInv'
    BY <1>1 DEF IndexInv
  <1>2. ASSUME UNCHANGED <<indexed, request>>,
               \A a \in Articles : article'[a].life = article[a].life
                                   /\ article'[a].status = article[a].status
        PROVE  IndexInv'
    <2>1. \A a \in Articles : InSync(a)' = InSync(a) /\ Public(a)' = Public(a)
      BY <1>2, SyncByRow
    <2>2. \A q \in Requests : request[q] # Idle => request[q].on \in Articles
      BY Engaged
    <2> QED
      BY <1>2, <2>1, <2>2 DEF IndexInv, PostInSync, Busy, Knows
  <1>3. ASSUME NEW a \in Articles, TimePasses(a)
        PROVE  IndexInv'
    <2>1. \A b \in Articles : article'[b].life = article[b].life
                              /\ article'[b].status = article[b].status
      BY <1>3 DEF TimePasses, TypeOK, Row
    <2> QED
      BY <1>2, <1>3, <2>1 DEF TimePasses
  <1>4. CASE UNCHANGED vars
    BY <1>2, <1>4 DEF vars
  <1> QED
    BY <1>3, <1>4, StartsIndex, ContinuesIndex DEF Next

(* When operations run one after another, no sweep is among them and none    *)
(* failed, the search index shows exactly the published posts as published:  *)
(* every operation that changes a status ends with the index brought up.     *)
THEOREM SearchFollowsPublication ==
    ASSUME OneAtATime, "sweep" \notin Offered
    PROVE  Spec => []SearchableIffPublished
  <1>1. Init => SightInv /\ IndexInv
    BY DEF Init, SightInv, IndexInv, PostInSync, Busy, InSync, NewRow
  <1>2. TypeOK /\ SightInv /\ [Next]_vars => SightInv'
    BY StepSight
  <1>3. TypeOK /\ TrailInv /\ SightInv /\ IndexInv /\ [Next]_vars => IndexInv'
    BY StepIndex
  <1>4. IndexInv => SearchableIffPublished
    BY DEF IndexInv, PostInSync, Busy, Quiet, SearchableIffPublished
  <1> QED
    BY <1>1, <1>2, <1>3, <1>4, TrailInvariant, PTL DEF Spec
=================================================================================
