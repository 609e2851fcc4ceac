------------------------------ MODULE SiteInsights ------------------------------
(***************************************************************************)
(* Page views and what the dashboard makes of them, and the SEO settings of  *)
(* one entity.  The dashboard asks its numbers one by one while articles and *)
(* views go on, and takes a count that fails for 0; the chart of views is     *)
(* counted in the database and filled up in the process, each with its own   *)
(* look at the clock and its own form of a date; SEO settings are looked up,  *)
(* then created or saved.                                                    *)
(*                                                                          *)
(* The dates of views are SQLite's, that is of UTC; midnight of the process   *)
(* may come before or after it.                                              *)
(***************************************************************************)
EXTENDS Integers, Sequences, FiniteSets

CONSTANTS
    Lookers,       \* requests at work at the same time
    WeekSpan,      \* days before today that the dashboard's week reaches back to
    ChartDays,     \* days a chart is asked for
    MaxDay,        \* bound of the calendar
    MaxViews,      \* bound: page views recorded
    MaxPosts,      \* bound: articles created
    MaxLooks,      \* bound: requests begun
    MaxMissed      \* bound: counts of one dashboard that fail

ASSUME InsightAssumption ==
    /\ {WeekSpan, ChartDays, MaxDay, MaxViews, MaxPosts, MaxLooks, MaxMissed} \subseteq Nat
    /\ ChartDays > 0

VARIABLES
    stamped,     \* dates are scanned as timestamps (PostgreSQL, MySQL), not as dates
    zone,        \* the process's clock is "utc", "ahead" or "behind"
    today,       \* the date in UTC
    local,       \* the date of the process's clock
    viewed,      \* viewed[n]: the date of page view n
    posts,       \* posts[n]: whether article n is published
    look,        \* look[r]: what request r does
    overnight,   \* requests that began yesterday
    looks,
    board,       \* the dashboard, if one was shown last, and articles created while it
                 \* was made
    missed,      \* history: its numbers whose count failed
    chart,       \* the chart, if one was shown last, with what its query had seen
    seoRow,      \* the row of the entity, 0 for none
    seoAnswered  \* history: the save of it that was answered last

clockVars == <<stamped, zone, today, local>>
insightVars == <<clockVars, viewed, posts, look, overnight, looks, board, missed, chart, seoRow,
                 seoAnswered>>

Dates     == 0 .. MaxDay
Numbers   == {"articles", "published", "today", "week", "total"}
NoBoard   == [articles |-> 0, published |-> 0, today |-> 0, week |-> 0, total |-> 0, created |-> 0]
NoChart   == [bars |-> <<>>, last |-> 0, counts |-> [d \in Dates |-> 0]]
NoLook    == [step |-> "idle"]
Boarding  == [step : Numbers, board : [Numbers \cup {"created"} -> 0 .. MaxViews + MaxPosts],
              missed : SUBSET Numbers]
Charting  == [step : {"fill"}, rows : [Dates -> 0 .. MaxViews],
              counts : [Dates -> 0 .. MaxViews]]
SavingSeo == [step : {"create", "save"}, value : 1 .. MaxLooks]

(* How far the two dates may be apart.                                       *)
ClocksAgree(utc, here) ==
    here - utc \in CASE zone = "utc" -> {0} [] zone = "ahead" -> {0, 1} [] OTHER -> {-1, 0}

InsightsTypeOK ==
    /\ stamped \in BOOLEAN /\ zone \in {"utc", "ahead", "behind"}
    /\ {today, local} \subseteq Dates /\ ClocksAgree(today, local)
    /\ Len(viewed) <= MaxViews /\ \A n \in DOMAIN viewed : viewed[n] \in Dates
    /\ Len(posts) <= MaxPosts /\ \A n \in DOMAIN posts : posts[n] \in BOOLEAN
    /\ \A r \in Lookers : look[r] = NoLook \/ look[r] \in Boarding \cup Charting \cup SavingSeo
    /\ overnight \subseteq Lookers /\ looks \in 0 .. MaxLooks
    /\ board \in [Numbers \cup {"created"} -> 0 .. MaxViews + MaxPosts]
    /\ Len(chart.bars) \in {0, ChartDays} /\ chart.last \in Dates /\ missed \subseteq Numbers
    /\ {seoRow, seoAnswered} \subseteq 0 .. MaxLooks

InsightsInit ==
    /\ stamped \in BOOLEAN /\ zone \in {"utc", "ahead", "behind"}
    /\ today = 0 /\ local = 0 /\ viewed = <<>> /\ posts = <<>>
    /\ look = [r \in Lookers |-> NoLook] /\ overnight = {} /\ looks = 0
    /\ board = NoBoard /\ missed = {} /\ chart = NoChart
    /\ seoRow = 0 /\ seoAnswered = 0

---------------------------------------------------------------------------------
ViewsSince(d) == Cardinality({n \in DOMAIN viewed : viewed[n] >= d})
ViewsOn(d)    == Cardinality({n \in DOMAIN viewed : viewed[n] = d})
Published     == Cardinality({n \in DOMAIN posts : posts[n]})

StartLook(r, l) ==
    /\ look[r] = NoLook /\ looks < MaxLooks
    /\ looks' = looks + 1
    /\ look' = [look EXCEPT ![r] = l]
    /\ UNCHANGED overnight

EndLook(r) ==
    /\ look' = [look EXCEPT ![r] = NoLook]
    /\ overnight' = overnight \ {r}
    /\ UNCHANGED looks

---------------------------------------------------------------------------------
(* Midnight of the process, of UTC or of both; no request lasts for two.     *)
NextDay ==
    /\ overnight = {}
    /\ today' \in {today, today + 1} /\ local' \in {local, local + 1}
    /\ <<today', local'>> # <<today, local>>
    /\ {today', local'} \subseteq Dates /\ ClocksAgree(today', local')
    /\ overnight' = {r \in Lookers : look[r] # NoLook}
    /\ UNCHANGED <<stamped, zone, viewed, posts, look, looks, board, missed, chart, seoRow,
                   seoAnswered>>

(* Any visitor records a view, of an article that is there or not.           *)
RecordView ==
    /\ Len(viewed) < MaxViews
    /\ viewed' = Append(viewed, today)
    /\ UNCHANGED <<clockVars, posts, look, overnight, looks, board, missed, chart, seoRow, seoAnswered>>

(* An article is created, and counted by dashboards that are being made.     *)
CreatePost(published) ==
    /\ Len(posts) < MaxPosts
    /\ posts' = Append(posts, published)
    /\ look' = [r \in Lookers |-> IF look[r].step \in Numbers \ {"articles"}
                                  THEN [look[r] EXCEPT !.board.created = @ + 1] ELSE look[r]]
    /\ UNCHANGED <<clockVars, viewed, overnight, looks, board, missed, chart, seoRow, seoAnswered>>

PublishPost(n) ==
    /\ n \in DOMAIN posts /\ ~posts[n]
    /\ posts' = [posts EXCEPT ![n] = TRUE]
    /\ UNCHANGED <<clockVars, viewed, look, overnight, looks, board, missed, chart, seoRow, seoAnswered>>

---------------------------------------------------------------------------------
(* Bound: dashboards and charts, which write nothing, are asked for one at a  *)
(* time.                                                                     *)
NobodyReads == \A q \in Lookers : look[q].step \in {"idle", "create", "save"}

StartDashboard(r) ==
    /\ NobodyReads
    /\ StartLook(r, [step |-> "articles", board |-> NoBoard, missed |-> {}])
    /\ UNCHANGED <<clockVars, viewed, posts, board, missed, chart, seoRow, seoAnswered>>

(* The counts in their order.                                                *)
CountOf(number) ==
    CASE number = "articles"  -> Len(posts)
      [] number = "published" -> Published
      [] number = "today"     -> ViewsOn(today)
      [] number = "week"      -> ViewsSince(today - WeekSpan)
      [] number = "total"     -> Len(viewed)

(* For the mutant: the widest span first.                                    *)
WideFirst ==
    [articles |-> "published", published |-> "week", week |-> "today", today |-> "total"]

NextNumber ==
    [articles |-> "published", published |-> "today", today |-> "week", week |-> "total"]

(* What a count puts into the numbers b, and whether it is missed: errors are *)
(* ignored, and the number stays 0, which is a loss unless it is 0 anyway.    *)
Counted(b, number) == {<<[b.board EXCEPT ![number] = CountOf(number)], b.missed>>} \cup
    (IF Cardinality(b.missed) < MaxMissed /\ CountOf(number) > 0
     THEN {<<b.board, b.missed \cup {number}>>} ELSE {})

DashboardStats(r) ==
    /\ look[r].step \in Numbers \ {"total"}
    /\ \E c \in Counted(look[r], look[r].step) :
          look' = [look EXCEPT ![r] = [step |-> NextNumber[@.step], board |-> c[1], missed |-> c[2]]]
    /\ UNCHANGED <<clockVars, viewed, posts, overnight, looks, board, missed, chart, seoRow,
                   seoAnswered>>

Dashboard(r) ==
    /\ look[r].step = "total"
    /\ \E c \in Counted(look[r], "total") : board' = c[1] /\ missed' = c[2]
    /\ chart' = NoChart
    /\ EndLook(r)
    /\ UNCHANGED <<clockVars, viewed, posts, seoRow, seoAnswered>>

(* Views since this time of day so many days ago, by date: of the first date *)
(* only those after that time.                                               *)
ViewsOverTime(r) ==
    /\ NobodyReads
    /\ \E late \in 0 .. ViewsOn(today - ChartDays) :
          StartLook(r, [step |-> "fill",
                        rows |-> [d \in Dates |-> IF d = today - ChartDays THEN late
                                                  ELSE IF d > today - ChartDays THEN ViewsOn(d) ELSE 0],
                        counts |-> [d \in Dates |-> ViewsOn(d)]])
    /\ UNCHANGED <<clockVars, viewed, posts, board, missed, chart, seoRow, seoAnswered>>

(* The date of bar i of a chart that is filled today; for the mutant, of one *)
(* that begins a day early.                                                  *)
DayBefore(i) == local - ChartDays + i - 1

DateOf(i) == local - ChartDays + i

(* DATE(created_at), scanned into a string, and a date as bars are labelled.  *)
Scanned(d)   == [date |-> d, midnight |-> stamped]
Formatted(d) == [date |-> d, midnight |-> FALSE]

(* Without any view there is no chart; else a bar for every date, with the    *)
(* row whose date reads the same.                                            *)
fillDateGaps(r) ==
    /\ look[r].step = "fill"
    /\ LET rows == look[r].rows
           bar(i) == IF Formatted(DateOf(i)) \in {Scanned(d) : d \in Dates}
                     THEN rows[DateOf(i)] ELSE 0
       IN  chart' = [bars |-> IF \A d \in Dates : rows[d] = 0 THEN <<>>
                              ELSE [i \in 1 .. ChartDays |-> bar(i)],
                     last |-> local, counts |-> look[r].counts]
    /\ board' = NoBoard /\ missed' = {}
    /\ EndLook(r)
    /\ UNCHANGED <<clockVars, viewed, posts, seoRow, seoAnswered>>

---------------------------------------------------------------------------------
GetSeoSetting(r) ==
    /\ StartLook(r, [step |-> IF seoRow = 0 THEN "create" ELSE "save", value |-> looks + 1])
    /\ UNCHANGED <<clockVars, viewed, posts, board, missed, chart, seoRow, seoAnswered>>

(* A second row of the entity is refused by the index, and so is its request.*)
CreateSeoSetting(r) ==
    /\ look[r].step = "create"
    /\ IF seoRow = 0 THEN seoRow' = look[r].value /\ seoAnswered' = look[r].value
       ELSE UNCHANGED <<seoRow, seoAnswered>>
    /\ EndLook(r)
    /\ UNCHANGED <<clockVars, viewed, posts, board, missed, chart>>

SaveSeoSetting(r) ==
    /\ look[r].step = "save"
    /\ seoRow' = look[r].value /\ seoAnswered' = look[r].value
    /\ EndLook(r)
    /\ UNCHANGED <<clockVars, viewed, posts, board, missed, chart>>

InsightsNext ==
    \/ NextDay \/ RecordView
    \/ \E published \in BOOLEAN : CreatePost(published)
    \/ \E n \in DOMAIN posts : PublishPost(n)
    \/ \E r \in Lookers :
          \/ StartDashboard(r) \/ DashboardStats(r) \/ Dashboard(r)
          \/ ViewsOverTime(r) \/ fillDateGaps(r)
          \/ GetSeoSetting(r) \/ CreateSeoSetting(r) \/ SaveSeoSetting(r)

InsightsSpec == InsightsInit /\ [][InsightsNext]_insightVars

---------------------------------------------------------------------------------
Spans == {<<"today", "week">>, <<"week", "total">>, <<"today", "total">>}

(* The numbers of a dashboard fit each other although they were not counted  *)
(* at one time, even across midnight: a wider span is counted later.  More   *)
(* articles than there are can be published by as many as came since.  Only  *)
(* when the count of the wider one failed, and nobody was told (settings.go   *)
(* 382: "individual count errors are ignored"), does a narrower one exceed it.*)
NumbersFit ==
    /\ \A span \in Spans : board[span[1]] <= board[span[2]] \/ span[2] \in missed
    /\ board.published <= board.articles + board.created \/ "articles" \in missed

(* On SQLite a bar shows all views of its date that the query could see, and  *)
(* never a date the query saw in part, but for the first bar of a process     *)
(* whose clock is behind UTC.  On PostgreSQL and MySQL no bar ever finds its  *)
(* row: every one is 0, whatever was viewed.                                 *)
BarsAreWhole ==
    \A i \in DOMAIN chart.bars :
        LET d == chart.last - ChartDays + i
            seen == IF d \in Dates THEN chart.counts[d] ELSE 0
        IN  IF stamped THEN chart.bars[i] = 0
            ELSE \/ chart.bars[i] = seen
                 \/ i = 1 /\ zone = "behind" /\ chart.bars[i] < seen

(* SEO settings are those of the request that was answered as saved last.    *)
SeoAsAnswered == seoRow = seoAnswered

InsightsHold == NumbersFit /\ BarsAreWhole /\ SeoAsAnswered
=================================================================================
