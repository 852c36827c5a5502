-------------------------- MODULE CollectionPages --------------------------
(***************************************************************************)
(* The lists that are read page by page: the published collections         *)
(* (features/data-explorer/DataExplorer.tsx, with the quality view) and    *)
(* the stores (features/stores/Stores.tsx), over the keyset pages of the   *)
(* service (api/query.py), whose rows change between two reads.            *)
(*                                                                         *)
(* One list is on the screen.  Rows are numbered in the service's order;   *)
(* a row has a store and a tag, which stands for what a filter compares.   *)
(***************************************************************************)
EXTENDS PublishedContract, FiniteSets

CONSTANTS
    MaxRow,           \* rows
    Gone,             \* the tag of a row that is not there
    Entries,          \* lists to show: their screens, collections and stores
    Limit,            \* rows of a page
    MaxImports,       \* bound: imports
    MaxReads          \* bound: effects that read, in a behaviour

ASSUME PagesAssumption ==
    /\ {MaxRow, Limit, MaxImports, MaxReads} \subseteq Nat \ {0}
    /\ Gone \notin Nat
    /\ \A e \in Entries : e.name \in Names

Row == 1 .. MaxRow
Tag == 1 .. 2
Store == 1 .. 2
Any == 0

StoreOf(r) == 1 + (r % 2)

Contents == [Row -> Tag \union {Gone}]

VARIABLES
    held,             \* the rows that the service holds, with their tags
    formerly,         \* those it held before the last import
    touched,          \* history: rows that an import added, removed or changed
    entry,            \* the list, of the collection as it was advertised
    query,            \* the query that is applied
    position,         \* the index of the page and the cursors that led to it
    opened,           \* the row whose detail is asked for, or Any
    revision,
    state,            \* what the last effect to finish left, with its request
    runs,             \* effects that read
    walk,             \* history: the rows shown on the pages before this one
    imports, started  \* numbers, for the bounds

screen == <<entry, query, position, opened, revision>>
vars == <<held, formerly, touched, screen, state, runs, walk, imports, started>>

-----------------------------------------------------------------------------
\* A cursor holds the keys of the last row and the filters of its query.
Start == [at |-> 0, filters |-> [store |-> Any, tag |-> Any]]
End == [at |-> MaxRow + 1, filters |-> Start.filters]

\* Beyond the cursors there would be no cursor, that is, the first page.
After ==
    IF position.index \in DOMAIN position.cursors THEN position.cursors[position.index] ELSE Start

Request == [query |-> query, after |-> After, opened |-> opened, revision |-> revision]

NoState == [phase |-> "loading", why |-> "none", request |-> [query |-> Start.filters, after |-> Start,
            opened |-> Any, revision |-> 0], rows |-> {}, next |-> End]

\* Fault: whatever was read last is shown.
CurrentOrElse == state

\* A result is shown as long as its request is the present one.
Current == IF state.phase # "loading" /\ state.request = Request THEN state ELSE NoState

Ready == Current.phase = "ready"

LiveRuns == {r \in runs : ~r.aborted}

\* The effect ends and begins again for the request that is now on the screen; a
\* list of stores that is read for the first time may come from the cache.
Restart ==
    /\ started < MaxReads
    /\ started' = started + 1
    /\ runs' = {[r EXCEPT !.aborted = TRUE] : r \in runs}
                 \union {[request |-> Request', aborted |-> FALSE,
                          cached |-> entry.screen = "stores" /\ revision' = 0 /\ opened' = Any]}

-----------------------------------------------------------------------------
\* The service: the rows that fit the query beyond the cursor, in their order, as
\* many as the limit, and a cursor if there are more.  A cursor of another query
\* is refused.
Fits(content, q) ==
    {r \in Row : /\ content[r] # Gone
                 /\ q.store \in {Any, StoreOf(r)}
                 /\ q.tag \in {Any, content[r]}}

\* Fault: the page begins with the row that the cursor names.
BeyondOrAt(rows, after) == {r \in rows : r >= after.at}

Beyond(rows, after) == {r \in rows : r > after.at}

FirstOf(rows, n) == {r \in rows : Cardinality({s \in rows : s <= r}) <= n}

Refuses(req) == req.after # Start /\ req.after.filters # req.query

LastOf(rows) == CHOOSE r \in rows : \A s \in rows : s <= r

Page(content, req, n) ==
    LET all == Beyond(Fits(content, req.query), req.after)
        rows == FirstOf(all, n)
    IN  [rows |-> {<<r, content[r]>> : r \in rows},
         next |-> IF rows = all THEN End ELSE [at |-> LastOf(rows), filters |-> req.query]]

\* The page of the one row that is opened.
DetailPage(content, r) ==
    [rows |-> IF content[r] = Gone THEN {} ELSE {<<r, content[r]>>}, next |-> End]

\* A page that is too large is asked for again with half the limit, down to one row.
Limits == {n \in 1 .. Limit : \E k \in 0 .. Limit : n = Limit \div (2 ^ k)}

-----------------------------------------------------------------------------
\* What the screen makes of a page: the rows answer the query; a cursor that
\* continues is of a page with rows and none of those that led here.
Credible(req, page) ==
    /\ \A row \in page.rows :
        /\ req.query.store \in {Any, StoreOf(row[1])}
        /\ req.opened = Any => req.query.tag \in {Any, row[2]}
        /\ req.opened \in {Any, row[1]}
    /\ page.next # End =>
        /\ page.rows # {}
        /\ \A i \in 1 .. position.index : position.cursors[i] # page.next

Failed(req, why) == [NoState EXCEPT !.phase = "error", !.why = why, !.request = req]
Shown(req, page) ==
    [phase |-> "ready", why |-> "none", request |-> req, rows |-> page.rows, next |-> page.next]

\* What the effect leaves for a request that read a page of the content.
Outcome(req, content, n) ==
    LET page == IF req.opened = Any THEN Page(content, req, n) ELSE DetailPage(content, req.opened)
    IN  CASE req.opened = Any /\ Refuses(req) -> Failed(req, "refused")
          [] req.opened # Any /\ DetailQuery(entry.resource) = {} -> Failed(req, "unopenable")
          [] page.rows # {} /\ ~(ContractOf(entry.resource.name).kinds \subseteq DecodedKinds)
                -> Failed(req, "undecodable")
          [] ~Credible(req, page) -> Failed(req, "invalid")
          [] OTHER -> Shown(req, page)

\* Fault: an effect that was ended leaves its result all the same.
LeaveAlways(run, result) == state' = result

\* An effect that was ended leaves nothing.
Leave(run, result) == IF run.aborted THEN UNCHANGED state ELSE state' = result

\* The page is read between the two reports of freshness, which agree.
Answer(run) ==
    /\ runs' = runs \ {run}
    /\ \E content \in {held} \union (IF run.cached THEN {formerly} ELSE {}), n \in Limits :
        Leave(run, Outcome(run.request, content, n))
    /\ UNCHANGED <<held, formerly, touched, screen, walk, imports, started>>

\* A read fails, the reports differ, or there is no publication yet.
Fail(run) ==
    /\ runs' = runs \ {run}
    /\ Leave(run, Failed(run.request, "failed"))
    /\ UNCHANGED <<held, formerly, touched, screen, walk, imports, started>>

-----------------------------------------------------------------------------
ToFirstPage ==
    /\ position' = [index |-> 1, cursors |-> <<Start>>]
    /\ walk' = <<>>

\* Fault: the place in the pages stays.
ApplyInPlace(tag) ==
    /\ entry.screen # "stores" /\ opened = Any
    /\ query' = [store |-> entry.store, tag |-> tag]
    /\ revision' = revision + 1
    /\ UNCHANGED <<held, formerly, touched, entry, opened, position, walk, state, imports>>
    /\ Restart

\* The form applies its filters and the fixed ones, from the first page.
Apply(tag) ==
    /\ entry.screen # "stores"
    /\ opened = Any
    /\ tag # Any => FilterQuery(entry.resource, IF entry.store = Any THEN {} ELSE {"store_id"}) # {}
    /\ query' = [store |-> entry.store, tag |-> tag]
    /\ ToFirstPage
    /\ revision' = revision + 1
    /\ UNCHANGED <<held, formerly, touched, entry, opened, state, imports>>
    /\ Restart

Open(r) ==
    /\ Ready /\ opened = Any
    /\ \E row \in Current.rows : row[1] = r
    /\ opened' = r
    /\ UNCHANGED <<held, formerly, touched, entry, query, position, revision, state, walk, imports>>
    /\ Restart

\* Back to the page that the row was opened from.
CloseDetail ==
    /\ opened # Any
    /\ opened' = Any
    /\ UNCHANGED <<held, formerly, touched, entry, query, position, revision, state, walk, imports>>
    /\ Restart

Retry ==
    /\ Current.phase = "error"
    /\ revision' = revision + 1
    /\ UNCHANGED <<held, formerly, touched, entry, query, position, opened, state, walk, imports>>
    /\ Restart

\* "Recharger depuis la premiere page": with the rows, or where a later page failed.
ReloadFromFirst ==
    /\ entry.screen # "stores" /\ opened = Any
    /\ Ready \/ (Current.phase = "error" /\ position.index > 1)
    /\ ToFirstPage
    /\ revision' = revision + 1
    /\ UNCHANGED <<held, formerly, touched, entry, query, opened, state, imports>>
    /\ Restart

\* The button stands under the rows, but always under the stores.
PreviousPage ==
    /\ opened = Any /\ position.index > 1
    /\ Ready \/ entry.screen = "stores"
    /\ position' = [position EXCEPT !.index = @ - 1]
    /\ walk' = SubSeq(walk, 1, position.index - 2)
    /\ UNCHANGED <<held, formerly, touched, entry, query, opened, revision, state, imports>>
    /\ Restart

\* What was walked beyond this page is forgotten.
Continued(next) == Append(SubSeq(position.cursors, 1, position.index), next)

NextPage ==
    /\ opened = Any /\ Ready /\ Current.next # End
    /\ position' = [index |-> position.index + 1, cursors |-> Continued(Current.next)]
    /\ walk' = Append(walk, {row[1] : row \in Current.rows})
    /\ UNCHANGED <<held, formerly, touched, entry, query, opened, revision, state, imports>>
    /\ Restart

\* Another view is shown and this one again: the list of stores is where it was
\* left (its navigation is the workspace's), a collection is read from its start.
ShowAgain ==
    /\ IF entry.screen = "stores"
       THEN UNCHANGED <<query, position, opened, walk>>
       ELSE /\ query' = [store |-> entry.store, tag |-> Any]
            /\ opened' = Any
            /\ ToFirstPage
    /\ revision' = 0
    /\ state' = NoState
    /\ UNCHANGED <<held, formerly, touched, entry, imports>>
    /\ Restart

\* An import, or a refresh of the analyses, adds a row, removes it or changes its
\* tag; a row never changes its store: it is replaced by another.
Import(r) ==
    /\ imports < MaxImports
    /\ imports' = imports + 1
    /\ \E tag \in Tag \union {Gone} : held' = [held EXCEPT ![r] = tag]
    /\ held' # held
    /\ formerly' = held
    /\ touched' = touched \union {r}
    /\ UNCHANGED <<screen, state, runs, walk, started>>

-----------------------------------------------------------------------------
\* The catalogues that the service may answer with: the collections as they are
\* known, or one more filter or one fewer besides the keys.
Variants(c) ==
    {Advertised(c)}
        \union {[Advertised(c) EXCEPT !.filters = @ \ {f}] : f \in c.filters \ Keys(c)}
        \union {[Advertised(c) EXCEPT !.filters = @ \union {"later"}]}

\* The lists that a menu leads to.
Menu(shows, name) ==
    LET catalogs == {{r} : r \in Variants(ContractOf(name))}
        accepted == CASE shows = "explorer" -> {AvailableResources(c) : c \in catalogs}
                      [] shows = "quality" -> {QualityResources(c) : c \in catalogs}
                      [] OTHER -> {{Advertised(ContractOf(name))}}
    IN  UNION (accepted \ {Refused})

Init ==
    /\ \E e \in Entries : \E r \in Menu(e.screen, e.name) :
        entry = [screen |-> e.screen, resource |-> r,
                 store |-> IF "store_id" \in r.filters THEN e.store ELSE Any]
    /\ held \in Contents
    /\ \A r \in Row : held[r] = IF r = 2 THEN Gone ELSE 1 + (r \div 4)
    /\ formerly = held
    /\ touched = {}
    /\ query = [store |-> entry.store, tag |-> Any]
    /\ position = [index |-> 1, cursors |-> <<Start>>]
    /\ opened = Any /\ revision = 0
    /\ state = NoState
    /\ runs = {[request |-> Request, aborted |-> FALSE, cached |-> entry.screen = "stores"]}
    /\ walk = <<>>
    /\ imports = 0 /\ started = 1

User ==
    \/ \E tag \in Tag \union {Any} : Apply(tag)
    \/ \E r \in Row : Open(r)
    \/ CloseDetail \/ Retry \/ ReloadFromFirst \/ PreviousPage \/ NextPage \/ ShowAgain

Turn == \E run \in runs : Answer(run) \/ Fail(run)

Next == Turn \/ User \/ \E r \in Row : Import(r)

Spec == Init /\ [][Next]_vars /\ WF_vars(Turn)

-----------------------------------------------------------------------------
\* What is shown is what is asked for: rows of the view's store, with the tag of
\* the applied filter, beyond the cursor that led to the page - or the one row that
\* is opened, if it still exists - also when late answers to earlier requests come
\* in between.
ShownIsAsked ==
    Ready =>
        /\ \A row \in Current.rows :
            /\ entry.store \in {Any, StoreOf(row[1])}
            /\ IF opened # Any THEN row[1] = opened
               ELSE row[1] > After.at /\ query.tag \in {Any, row[2]}
        /\ Cardinality(Current.rows) <= Limit

\* The cursors ascend and are those of the query that is applied, so that a walk
\* never comes back to a page and the service never refuses one of its cursors.
CursorsAscend ==
    \A i \in 2 .. Len(position.cursors) :
        /\ position.cursors[i].at > position.cursors[i - 1].at
        /\ position.cursors[i].filters = query

\* Rows that no import touched are neither skipped nor shown twice by who walks
\* from page to page, backwards and forwards, whatever changes around them and
\* however small the pages had to be made.
NothingSkipped ==
    /\ \A r \in Fits(held, query) \ touched :
        r <= After.at => \E i \in DOMAIN walk : r \in walk[i]
    /\ \A i, j \in DOMAIN walk : i # j => walk[i] \intersect walk[j] = {}
    /\ opened = Any /\ Ready => \A i \in DOMAIN walk, row \in Current.rows : row[1] \notin walk[i]

\* Nothing that the screen offers is refused: no cursor is of another query, every
\* row that is shown can be opened by its key, and is made of values that are
\* decoded.
NothingRefused == state.why \notin {"refused", "unopenable", "undecodable", "invalid"}

\* A list that says that it loads has an effect that reads just what is asked for
\* now, and no two effects read for it: whatever the user does while an effect is
\* under way, it is ended, and another one begins.
SomebodyReads ==
    /\ \A r, s \in LiveRuns : r = s
    /\ Current.phase = "loading" => \E r \in LiveRuns : r.request = Request

\* However often the user turns pages - finitely often - the list comes to rest.
LoadingEnds == []<>(Current.phase # "loading")

=============================================================================
