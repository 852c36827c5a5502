----------------------------- MODULE ViewReads -----------------------------
(***************************************************************************)
(* What the views of the browser read, and what they show of it            *)
(* (frontend/src/features and app).  All views work alike: a component is  *)
(* mounted for a context - a session, a store and a period, the row it was *)
(* opened for - and reads in a fixed order of steps; what it has read is   *)
(* shown unless the component was unmounted or began anew in between; and  *)
(* what is opened beneath it lasts as long as what it shows.  The views    *)
(* are a table, the life of a view is the state machine.                   *)
(***************************************************************************)
EXTENDS Naturals, Sequences, FiniteSets

CONSTANTS
    Site,             \* a store with an applied period
    Arg,              \* rows, identifiers, categories and modes to choose
    None,
    Visited,          \* the tabs that this instance visits
    MaxRuns,          \* bound: effects that read, in a behaviour
    MaxServed,        \* bound: publications
    MaxGeneration     \* bound: sessions

-----------------------------------------------------------------------------
\* A component that reads: the tab it lies in, the components it lies in, and
\* its steps.  An open one is mounted with its tab, any other is opened by the
\* user; a guarded one refuses a database that was never published; the rows of
\* a listed one are turned page by page, and turning closes what a closing one
\* has open.
View(tab, path, steps) ==
    [tab |-> tab, path |-> path, steps |-> steps,
     open |-> Len(path) = 1, guarded |-> TRUE, listed |-> FALSE, closing |-> FALSE]

Surrounded(read) == <<"resources", "status", read, "status">>

\* What it was told before is left out: it stays beneath while it asks again.
FreshnessBanner ==
    [View("all", <<"freshness">>, <<"status">>) EXCEPT !.guarded = FALSE]

MonthlySales == View("summary", <<"monthlySales">>, <<"status", "collect", "status">>)

\* Nothing is read before the user asks for it, and each mode by itself.
ComparisonRead ==
    [View("summary", <<"comparisons">>, <<"status", "collect", "collect", "status">>)
        EXCEPT !.open = FALSE]

ProductSales ==
    [View("products", <<"productSales">>, Surrounded("collect")) EXCEPT !.listed = TRUE]

SaleEvidence ==
    [View("products", <<"productSales", "sale">>, <<>>) EXCEPT !.listed = TRUE]

LiveEvidence ==
    [View("products", <<"productSales", "sale", "liveSale">>,
          <<"status", "page", "status">>) EXCEPT !.guarded = FALSE]

Presence == View("presence", <<"presence">>, Surrounded("collect"))

\* The first category is chosen as soon as there is one.
Category == View("presence", <<"presence", "category">>, <<>>)

CategoryCollection ==
    [View("presence", <<"presence", "category", "categoryRows">>, Surrounded("collect"))
        EXCEPT !.listed = TRUE]

Activity == View("activity", <<"activity">>, Surrounded("collect"))

ActivityEvidence ==
    [View("activity", <<"activity", "evidence">>, <<>>) EXCEPT !.listed = TRUE]

LiveActivity ==
    View("activity", <<"activity", "evidence", "liveActivity">>, Surrounded("page"))

SalesContext == View("activity", <<"salesContext">>, Surrounded("collect"))

\* Three of them stand side by side, one per collection of typologies.
MonthlyBlock ==
    [View("typologies", <<"typologies">>, Surrounded("collect"))
        EXCEPT !.listed = TRUE, !.closing = TRUE]

Detail == [View("typologies", <<"typologies", "detail">>, <<>>) EXCEPT !.listed = TRUE]

Live ==
    [View("typologies", <<"typologies", "detail", "reference">>, Surrounded("page"))
        EXCEPT !.listed = TRUE]

LinkedLive ==
    View("typologies", <<"typologies", "detail", "reference", "linkedReference">>, Surrounded("page"))

NetworkResults ==
    View("network", <<"network">>, <<"status", "resources", "collect", "collect", "status">>)

Catalog == [View("quality", <<"audits">>, <<"resources">>) EXCEPT !.guarded = FALSE]

SourceImports ==
    [View("quality", <<"audits", "sources">>, <<>>) EXCEPT !.listed = TRUE, !.closing = TRUE]

ImportReference ==
    [View("quality", <<"audits", "sources", "importRun">>, Surrounded("page"))
        EXCEPT !.guarded = FALSE]

Views ==
    {FreshnessBanner, MonthlySales, ComparisonRead, ProductSales, SaleEvidence,
     LiveEvidence, Presence, Category, CategoryCollection, Activity, ActivityEvidence,
     LiveActivity, SalesContext, MonthlyBlock, Detail, Live, LinkedLive,
     NetworkResults, Catalog, SourceImports, ImportReference}

-----------------------------------------------------------------------------
Name(view) == view.path[Len(view.path)]
Above(view) == {view.path[i] : i \in DOMAIN view.path}

\* The views are a forest, each tree on a tab of its own: a view lies in all that
\* its parent lies in, and in itself.
Forest ==
    /\ \A v, w \in Views : Name(v) = Name(w) => v = w
    /\ \A v \in Views : Name(v) \in Above(v)
    /\ \A v \in Views : \A a \in Above(v) : \E w \in Views :
          /\ Name(w) = a /\ w.tab = v.tab
          /\ Above(w) \subseteq Above(v)
          /\ Name(v) \in Above(w) => w = v
    /\ \A v \in Views : Len(v.path) > 1 => \E w \in Views :
          /\ Name(w) = v.path[Len(v.path) - 1] /\ w # v
          /\ Above(v) = Above(w) \union {Name(v)}
    /\ \A v \in Views : ~(Len(v.path) > 1) => Above(v) = {Name(v)}

\* A view that reads nothing shows the rows of one that it lies in.
SilentViews ==
    \A v \in Views : \E w \in Views :
        /\ Name(w) \in Above(v) /\ w.steps # <<>>
        /\ \A u \in Views : Name(u) \in Above(v) /\ u.steps # <<>> => Name(u) \in Above(w)

\* A view reads once, or between two reports of the status: what it reads before
\* the first is the catalogue, and something is read between the two.  Only the
\* freshness is told without a guard.
ReadOrders ==
    \A v \in Views :
        \/ v.steps \in {<<>>, <<"page">>, <<"resources">>}
        \/ v.steps = <<"status">> /\ ~v.guarded
        \/ /\ v.steps \in Seq({"status", "resources", "collect", "page"})
           /\ Len(v.steps) > 1 /\ v.steps[Len(v.steps)] = "status"
           /\ \E k \in 1 .. Len(v.steps) - 2 :
                 \A i \in 1 .. Len(v.steps) - 1 :
                     /\ v.steps[i] = "status" <=> i = k
                     /\ i < k => v.steps[i] = "resources"

ASSUME TableAssumption ==
    /\ Forest /\ SilentViews /\ ReadOrders
    /\ FreshnessBanner \in Views
    /\ \A v \in Views : v.tab = "all" => v = FreshnessBanner
    /\ \A v \in Views : v.open => Len(v.path) = 1 /\ v.steps # <<>>

ASSUME ViewsAssumption ==
    /\ MaxServed \in Nat /\ MaxGeneration \in Nat
    /\ None \notin Site \union Arg \union {"page"}
    /\ Visited \intersect {"all", "none"} = {}

Reachable == {v \in Views : v.tab \in Visited \union {"all"}}

Block == {Name(v) : v \in Reachable}

Table == [b \in Block |-> CHOOSE v \in Reachable : Name(v) = b]

\* The components that b lies in and those that lie in it, each with b itself.
Path == [b \in Block |-> Above(Table[b])]
Subtree == [b \in Block |-> {d \in Block : b \in Path[d]}]

Nested(b) == Len(Table[b].path) > 1
Parent(b) == Table[b].path[Len(Table[b].path) - 1]

Silent(b) == Table[b].steps = <<>>

VARIABLES
    served,           \* the publication that the server answers from; 0: none
    session,          \* whether there is one, and its generation
    place,            \* the tab and the site that are shown
    opened,           \* what each component is mounted for
    shown,            \* what each component shows
    runs,             \* effects that read
    fetch,            \* the one fetch of the freshness that all readers share
    turned,           \* the page of rows shown, from 0
    started           \* number of effects, for the bound

vars == <<served, session, place, opened, shown, runs, fetch, turned, started>>

Version == 0 .. MaxServed
Nowhere == [tab |-> "none", site |-> None]
NoKey == [generation |-> 0, place |-> Nowhere, at |-> {}]

\* The context of a component: its session and place, and what it and the
\* components it lies in are mounted for.
Key(b) ==
    [generation |-> session.generation, place |-> IF Table[b].tab = "all" THEN Nowhere ELSE place,
     at |-> {<<a, opened[a]>> : a \in Path[b]}]

Absent == [phase |-> "absent", key |-> NoKey, rows |-> {}, fresh |-> 0]
Showing(phase, key) == [Absent EXCEPT !.phase = phase, !.key = key]

NoFetch == [open |-> FALSE, since |-> 0]

\* Pages of the rows that publication v has for a list: a later publication may
\* have fewer.
Pages(v) == IF v = 1 THEN 2 ELSE 1
PagesOf(rows) == IF rows = {} THEN 1 ELSE Pages(CHOOSE v \in rows : TRUE)

Mounted(b) == opened[b] # None

Run(b, key) ==
    [block |-> b, key |-> key, step |-> 1, since |-> served, before |-> 0,
     rows |-> {}, aborted |-> FALSE]

Step(r) == Table[r.block].steps[r.step]
IsLast(r) == r.step = Len(Table[r.block].steps)

LiveRuns(b) == {r \in runs : r.block = b /\ ~r.aborted}

Waiting(rs) == {r \in rs : ~r.aborted /\ Step(r) = "status"}

-----------------------------------------------------------------------------
\* Fault: whoever comes after the last reader has left finds the fetch aborted and
\* does not begin another.
FetchNotBegun(rs, was) == IF Waiting(rs) = {} THEN NoFetch ELSE was

\* The fetch that readers rs share now: it lasts while somebody waits for it, and
\* whoever comes while it lasts is answered by it.
Fetch(rs, was) ==
    IF Waiting(rs) = {} THEN NoFetch
    ELSE IF was.open THEN was ELSE [open |-> TRUE, since |-> served]

\* What is left of an aborted effect: a promise that may still be kept.
Aborted(rs) ==
    {[Run(r.block, r.key) EXCEPT !.since = 0, !.aborted = TRUE] : r \in rs}

\* The effects of bs end, and those of begin begin.
Effects(bs, begin) ==
    LET ended == {r \in runs : r.block \in bs /\ ~r.aborted}
        now == (runs \ ended) \union Aborted(ended) \union begin
    IN  /\ started + Cardinality(begin) <= MaxRuns
        /\ started' = started + Cardinality(begin)
        /\ runs' = now
        /\ fetch' = Fetch(now, IF Waiting(runs \ ended) = {} THEN NoFetch ELSE fetch)

\* The components of bs are unmounted, with all their state.
Unmount(bs) ==
    /\ opened' = [b \in Block |-> IF b \in bs THEN None ELSE opened[b]]
    /\ shown' = [b \in Block |-> IF b \in bs THEN Absent ELSE shown[b]]
    /\ turned' = [b \in Block |-> IF b \in bs THEN 0 ELSE turned[b]]
    /\ Effects(bs, {})

\* Fault: without a key the component stays, and goes on showing what it showed.
MountInPlace(b, x) ==
    /\ opened' = [opened EXCEPT ![b] = x]
    /\ shown' = IF Mounted(b) THEN shown
                ELSE [shown EXCEPT ![b] = Showing(IF Silent(b) THEN "ready" ELSE "loading", Key(b)')]
    /\ UNCHANGED turned
    /\ Effects({b}, IF Silent(b) THEN {} ELSE {Run(b, Key(b)')})

\* Fault: the page of rows that was turned to stays.
MountKeepingPage(b, x) ==
    /\ opened' = [d \in Block |-> IF d = b THEN x ELSE IF d \in Subtree[b] THEN None ELSE opened[d]]
    /\ shown' = [d \in Block |->
                   IF d = b THEN Showing(IF Silent(b) THEN "ready" ELSE "loading", Key(b)')
                   ELSE IF d \in Subtree[b] THEN Absent ELSE shown[d]]
    /\ turned' = turned
    /\ Effects(Subtree[b], IF Silent(b) THEN {} ELSE {Run(b, Key(b)')})

\* Component b is mounted for x in a fresh state: what was mounted in its place
\* leaves with all that lies in it (React's key), and its effect begins.
Mount(b, x) ==
    /\ opened' = [d \in Block |-> IF d = b THEN x ELSE IF d \in Subtree[b] THEN None ELSE opened[d]]
    /\ shown' = [d \in Block |->
                   IF d = b THEN Showing(IF Silent(b) THEN "ready" ELSE "loading", Key(b)')
                   ELSE IF d \in Subtree[b] THEN Absent ELSE shown[d]]
    /\ turned' = [d \in Block |-> IF d \in Subtree[b] THEN 0 ELSE turned[d]]
    /\ Effects(Subtree[b], IF Silent(b) THEN {} ELSE {Run(b, Key(b)')})

-----------------------------------------------------------------------------
Roots(tab) == {b \in Block : Table[b].tab = tab /\ ~Nested(b) /\ Table[b].open}

\* The components of the place that is left are unmounted, and the roots of the
\* next are mounted: their keys name the store and the period.
Show ==
    LET gone == {b \in Block : Table[b].tab # "all"}
        roots == Roots(place'.tab)
    IN  /\ opened' = [b \in Block |-> IF b \in roots THEN place'.site
                                      ELSE IF b \in gone THEN None ELSE opened[b]]
        /\ shown' = [b \in Block |-> IF b \in roots THEN Showing("loading", Key(b)')
                                     ELSE IF b \in gone THEN Absent ELSE shown[b]]
        /\ turned' = [b \in Block |-> IF b \in gone THEN 0 ELSE turned[b]]
        /\ Effects(gone, {Run(b, Key(b)') : b \in roots})

\* Another store, period or tab; the browser's own views are tabs of their own.
Navigate(tab, site) ==
    /\ session.open
    /\ place' = [tab |-> tab, site |-> site]
    /\ place' # place
    /\ UNCHANGED <<served, session>>
    /\ Show

\* The session ends, and with it every view; a sign-in mounts the page anew.
EndSession ==
    /\ session.open
    /\ session.generation < MaxGeneration
    /\ session' = [open |-> FALSE, generation |-> session.generation + 1]
    /\ place' = Nowhere
    /\ Unmount(Block)
    /\ UNCHANGED served

SignIn ==
    /\ ~session.open
    /\ session' = [session EXCEPT !.open = TRUE]
    /\ UNCHANGED <<served, place>>
    /\ Mount("freshness", "page")

Offered(b) == IF Nested(b) THEN shown[Parent(b)].phase = "ready" ELSE place.tab = Table[b].tab

\* The user opens a row, an identifier, a category or a mode.
Open(b, x) ==
    /\ ~Table[b].open
    /\ Offered(b)
    /\ opened[b] # x
    /\ UNCHANGED <<served, session, place>>
    /\ Mount(b, x)

Close(b) ==
    /\ ~Table[b].open
    /\ Mounted(b)
    /\ Unmount(Subtree[b])
    /\ UNCHANGED <<served, session, place>>

\* "Relire": what is shown gives way to the loading state, what lies beneath is
\* unmounted with it, and the effect runs again.
Retry(b) ==
    /\ Mounted(b)
    /\ ~Silent(b)
    /\ UNCHANGED <<served, session, place>>
    /\ Mount(b, opened[b])

\* The rows that a list turns over: its own, or those of the component above it
\* that read them.
Reader(b) ==
    CHOOSE a \in Path[b] : ~Silent(a) /\ \A d \in Path[b] : ~Silent(d) => d \in Path[a]

RowsOf(b) == shown[Reader(b)].rows

PageCount(b) == PagesOf(RowsOf(b))

\* The pages that the two buttons lead to, when they are not disabled.
Neighbours(b) ==
    {p \in 0 .. PageCount(b) - 1 : p + 1 = turned[b] \/ p = turned[b] + 1}

TurnPage(b) ==
    /\ Mounted(b)
    /\ Table[b].listed
    /\ shown[b].phase = "ready"
    /\ LET closed == IF Table[b].closing THEN Subtree[b] \ {b} ELSE {}
       IN  /\ \E page \in Neighbours(b) :
                turned' = [d \in Block |-> IF d = b THEN page ELSE IF d \in closed THEN 0 ELSE turned[d]]
           /\ opened' = [d \in Block |-> IF d \in closed THEN None ELSE opened[d]]
           /\ shown' = [d \in Block |-> IF d \in closed THEN Absent ELSE shown[d]]
           /\ Effects(closed, {})
    /\ UNCHANGED <<served, session, place>>

-----------------------------------------------------------------------------
\* Fault: whoever finishes shows what he has.
ConcludeAlways(r, result) ==
    IF Mounted(r.block) THEN shown' = [shown EXCEPT ![r.block] = result] ELSE UNCHANGED shown

\* Fault: a failure is not shown.
ConcludeSuccessOnly(r, result) ==
    IF r.aborted \/ result.phase = "error" THEN UNCHANGED shown
    ELSE shown' = [shown EXCEPT ![r.block] = result]

\* An effect has finished: an aborted one shows nothing any more.
Conclude(r, result) ==
    IF r.aborted THEN UNCHANGED shown ELSE shown' = [shown EXCEPT ![r.block] = result]

Failure(r) == Showing("error", r.key)
Success(r, fresh) == [Showing("ready", r.key) EXCEPT !.rows = r.rows, !.fresh = fresh]

\* The step after the one that gave r what it holds.
Advanced(r) == [r EXCEPT !.step = @ + 1, !.since = served]

\* The catalogue has no rows, and a second collection may be left out: there is no
\* reference period, or the network's variations are unavailable.
Optional(r) == Step(r) = "resources" \/ (Step(r) = "collect" /\ r.rows # {})

\* A read of the effect's own is answered: the catalogue, or rows as they were
\* at some time since the read began.  A collection that is complete was of one
\* publication; one that is not, a row that is not the one asked for and a
\* catalogue that does not have the columns are failures.
Answer(r) ==
    /\ ~r.aborted
    /\ Step(r) # "status"
    /\ \E read \in (IF Step(r) = "resources" THEN {} ELSE {{v} : v \in r.since .. served})
                 \union (IF Optional(r) THEN {{}} ELSE {}) :
        LET holding == [r EXCEPT !.rows = @ \union read]
        IN  IF IsLast(r)
            THEN /\ runs' = runs \ {r}
                 /\ Conclude(r, Success(holding, r.before))
                 /\ UNCHANGED fetch
            ELSE /\ runs' = (runs \ {r}) \union {Advanced(holding)}
                 /\ fetch' = Fetch(runs', fetch)
                 /\ UNCHANGED shown
    /\ UNCHANGED <<served, session, place, opened, turned, started>>

\* A read fails, and with it the effect.
Fail(r) ==
    /\ runs' = runs \ {r}
    /\ fetch' = IF Waiting(runs') = {} THEN NoFetch ELSE fetch
    /\ Conclude(r, Failure(r))
    /\ UNCHANGED <<served, session, place, opened, turned, started>>

\* What remains of an aborted effect finishes with something after all.
Late(r) ==
    /\ r.aborted
    /\ runs' = runs \ {r}
    /\ Conclude(r, Success([r EXCEPT !.rows = {served}], served))
    /\ UNCHANGED <<served, session, place, opened, turned, started, fetch>>

\* Fault: the two reports are not compared.
VerdictUncompared(r, v) == "shown"

\* What report v makes of the effect that asked for it.
Verdict(r, v) ==
    IF Len(Table[r.block].steps) = 1 THEN "shown"
    ELSE IF IsLast(r) THEN IF r.before = v THEN "shown" ELSE "changed"
    ELSE IF v = 0 /\ Table[r.block].guarded THEN "uninitialized"
    ELSE "going on"

\* The shared fetch answers all who wait for it.
AnswerStatus ==
    /\ fetch.open
    /\ \E v \in fetch.since .. served :
        LET asked == Waiting(runs)
            going == {r \in asked : Verdict(r, v) = "going on"}
            over == asked \ going
        IN  /\ runs' = (runs \ asked) \union {[Advanced(r) EXCEPT !.before = v] : r \in going}
            /\ shown' = [b \in Block |->
                           IF \E r \in over : r.block = b
                           THEN LET r == CHOOSE q \in over : q.block = b
                                IN  IF Verdict(r, v) = "shown" THEN Success(r, v) ELSE Failure(r)
                           ELSE shown[b]]
            /\ fetch' = NoFetch
    /\ UNCHANGED <<served, session, place, opened, turned, started>>

Publish ==
    /\ served < MaxServed
    /\ served' = served + 1
    /\ UNCHANGED <<session, place, opened, shown, runs, fetch, turned, started>>

-----------------------------------------------------------------------------
Init ==
    /\ served \in {0, 1}
    /\ session = [open |-> TRUE, generation |-> 0]
    /\ place = Nowhere
    /\ opened = [b \in Block |-> IF b = "freshness" THEN "page" ELSE None]
    /\ shown = [b \in Block |-> IF b = "freshness" THEN Showing("loading", Key(b)) ELSE Absent]
    /\ runs = {Run("freshness", Key("freshness"))}
    /\ fetch = [open |-> TRUE, since |-> served]
    /\ turned = [b \in Block |-> 0]
    /\ started = 1

Turn ==
    \/ \E r \in runs : Answer(r) \/ Fail(r) \/ Late(r)
    \/ AnswerStatus

User ==
    \/ \E tab \in Visited, site \in Site : Navigate(tab, site)
    \/ EndSession
    \/ SignIn
    \/ \E b \in Block : Close(b) \/ Retry(b) \/ TurnPage(b) \/ \E x \in Arg : Open(b, x)

Next == Turn \/ User \/ Publish

Spec == Init /\ [][Next]_vars /\ WF_vars(Turn)

-----------------------------------------------------------------------------
\* What the views assume of their session is what SessionLife promises.
Life == INSTANCE SessionLife WITH
    alive <- TRUE, generation <- session.generation, login <- session.open,
    Login <- {TRUE}, None <- FALSE

SessionAssumed == Life!Spec

\* What a view shows - rows, a failure or that it loads - is of the session, the
\* store, the period and the row that it stands for now: no late answer, and no
\* state that outlives its context, is ever on the screen.
ShownBelongs ==
    \A b \in Block :
        IF Mounted(b) THEN shown[b].phase # "absent" /\ shown[b].key = Key(b)
        ELSE shown[b] = Absent

\* What was opened beneath a view stands beneath rows that the view shows: while
\* it loads or has failed, nothing that was opened from its former rows remains.
OpenedUnderRows ==
    \A b \in Block : Mounted(b) /\ Nested(b) => shown[Parent(b)].phase = "ready"

\* Rows are never older than the freshness shown with them, and no guarded view
\* shows rows of a database that was never published - although the reports are
\* shared with readers who asked for them earlier.
NotOlderThanFreshness ==
    \A b \in Block :
        shown[b].phase = "ready" /\ Table[b].steps \notin {<<>>, <<"page">>, <<"resources">>} =>
            /\ \A v \in shown[b].rows : v >= shown[b].fresh
            /\ Table[b].guarded => shown[b].fresh > 0

\* A page of rows that is shown exists, also after a new reading that found fewer.
PageExists ==
    \A b \in Block :
        Mounted(b) /\ shown[b].phase = "ready" => turned[b] < PageCount(b)

\* A view that shows that it loads has an effect that still reads for it, and the
\* fetch of the freshness is under way just as long as some live effect waits for
\* its report - through all the views that come, go and begin anew while it lasts:
\* nobody is left to wait for a fetch that has ended with somebody else's effect,
\* and none is kept open for readers who have left.
NobodyForgotten ==
    /\ \A b \in Block : shown[b].phase = "loading" => LiveRuns(b) # {}
    /\ fetch.open <=> Waiting(runs) # {}

\* However often the user navigates and asks again - finitely often - the page
\* comes to rest: every view that loads ends with rows or with a failure, or is
\* left; none waits for an answer that was given to somebody else.
LoadingEnds == []<>(\A b \in Block : shown[b].phase # "loading")

=============================================================================
