-------------------------- MODULE FilteredAnalysis -------------------------
(***************************************************************************)
(* The filtered analyses (features/analysis): a form of draft filters, the *)
(* search of the stores it can hold, and the results of the filters that   *)
(* were applied, all read from one publication that the first read finds   *)
(* and that the others demand.  A newer publication withdraws them.  From  *)
(* a result a store's sheet is opened over the page, with an entry of the  *)
(* browser's history to return by.                                         *)
(*                                                                         *)
(* Every read goes through useAnalysis: a hook with a key (its query, the  *)
(* number of its retries), the request its last effect sent, and the       *)
(* answer it holds, which it shows only under the key it came for.         *)
(***************************************************************************)
EXTENDS Naturals, Sequences

CONSTANTS
    Filter, Text,     \* drafts that can be applied, and what is searched or sorted by
    Empty,            \* a draft that is refused: an empty selection, bad months
    None,
    Store,            \* stores whose sheet can be opened
    Tab,              \* readings: "summary", "ranking", "compare"
    Pages,            \* pages of a search or of a ranking
    Searched,         \* by draft, what the search of stores is narrowed by
    MaxPublication,   \* bound: publications
    MaxAsked,         \* bound: traversals of the history asked for at one time
    MaxActs           \* bound: acts of the user, but for Back and Enter

ASSUME AnalysisAssumption ==
    /\ {Pages, MaxPublication, MaxActs, MaxAsked} \subseteq Nat \ {0}
    /\ Searched \in [Filter \union {Empty} -> Text \union {None}]
    /\ "summary" \in Tab /\ Tab \subseteq {"summary", "ranking", "compare"}
    /\ Empty \notin Filter /\ None \notin Filter \union Text \union Store \union {Empty, "failed"}

Slot == {"bootstrap", "stores", "summary", "block"}

VARIABLES
    served,           \* the publication that the service reads
    \* The workspace's memory (AnalysisState), kept while other views are shown.
    publication, applied, revision, draft, tab,
    \* The page's own, lost with it.
    on, changed, retries, search, ranking,
    flight,           \* by hook, the request of its last effect
    held,             \* by hook, the answer it was given, with its key
    unflushed,        \* effects are due that the user's act carries out itself
    \* The sheet over the page, and the history.
    opened, detail, lookups, marker, entries, at, asked,
    acts              \* number, for the bound

memory == <<publication, applied, revision, draft, tab>>
local == <<changed, retries, search, ranking>>
sheet == <<opened, detail, lookups, marker, entries, at, asked>>
vars == <<served, memory, on, local, flight, held, unflushed, sheet, acts>>

-----------------------------------------------------------------------------
NoContext == [pub |-> 0, filter |-> None, text |-> None]

\* A request: what it is about, the page, and what that page's cursor was issued for.
Query(context, page, issued) ==
    [context |-> context, page |-> page, issued |-> IF page = 1 THEN context ELSE issued]

\* The owner is the component that has the hook: another revision or tab is another.
Key(query, retry, owner) == [wanted |-> TRUE, query |-> query, retry |-> retry, owner |-> owner]

Page == [revision |-> 0, tab |-> "summary"]

NoKey == [Key(Query(NoContext, 1, NoContext), 0, Page) EXCEPT !.wanted = FALSE]

NoAnswer == [kind |-> "none", pub |-> 0]
Error == [kind |-> "error", pub |-> 0]
Conflict == [kind |-> "conflict", pub |-> 0]
Data(p) == [kind |-> "data", pub |-> p]

NoFlight == [key |-> NoKey, sent |-> FALSE, since |-> 0]
NothingHeld == [key |-> NoKey, answer |-> NoAnswer]

FirstRanking == [sort |-> None, cursors |-> <<NoContext>>, index |-> 1]
FirstSearch == [text |-> None, page |-> 1, position |-> NoContext]

\* Fault: what the hook holds is shown, whatever it came for.
ShownWhatever(s, key) == IF key.wanted THEN held[s].answer ELSE NoAnswer

\* An answer is shown under the key that it came for, and no other.
ShownUnder(s, key) == IF held[s].key = key THEN held[s].answer ELSE NoAnswer

-----------------------------------------------------------------------------
\* What each hook would read, as the page is rendered.  The first read asks for
\* what is published, or whether what the analysis was applied to still is.
BootstrapKey ==
    IF on /\ ~changed
    THEN Key(Query([NoContext EXCEPT !.pub = publication], 1, NoContext), retries["bootstrap"], Page)
    ELSE NoKey

Bootstrap == ShownUnder("bootstrap", BootstrapKey)

Publication == IF publication # 0 THEN publication ELSE Bootstrap.pub

FormOpen == on /\ ~changed /\ Bootstrap.kind # "error" /\ Publication # 0

\* The dimensions of the draft narrow the search; its months and selection do not.
SearchContext == [pub |-> Publication, filter |-> Searched[draft], text |-> search.text]

\* Fault: the place stays when what is searched for changes.
StoresKeyInPlace ==
    IF FormOpen
    THEN Key(Query(SearchContext, search.page, search.position), retries["stores"], Page)
    ELSE NoKey

\* The place in the pages counts only for the search it was reached in.
StoresKey ==
    IF FormOpen
    THEN Key(Query(SearchContext,
                   IF search.position = SearchContext THEN search.page ELSE 1,
                   search.position),
             retries["stores"], Page)
    ELSE NoKey

AppliedContext == [pub |-> Publication, filter |-> applied, text |-> None]

SummaryKey ==
    IF FormOpen /\ applied # None
    THEN Key(Query(AppliedContext, 1, NoContext), retries["summary"], [Page EXCEPT !.revision = revision])
    ELSE NoKey

Summary == ShownUnder("summary", SummaryKey)

BlockContext == [AppliedContext EXCEPT !.text = ranking.sort]

BlockKey ==
    IF SummaryKey.wanted /\ Summary.kind = "data"
    THEN Key(Query(BlockContext, ranking.index, ranking.cursors[ranking.index]),
             retries["block"], [revision |-> revision, tab |-> tab])
    ELSE NoKey

Wanted == [s \in Slot |-> CASE s = "bootstrap" -> BootstrapKey
                            [] s = "stores" -> StoresKey
                            [] s = "summary" -> SummaryKey
                            [] s = "block" -> BlockKey]

Shown(s) == ShownUnder(s, Wanted[s])

\* The component that had the hook when effects last ran still has it.
Kept(s) ==
    IF s = "bootstrap" THEN on
    ELSE Wanted[s].wanted /\ flight[s].key.wanted /\ flight[s].key.owner = Wanted[s].owner

Settled ==
    /\ ~unflushed
    /\ LET wanted == Wanted IN \A s \in Slot : flight[s].key = wanted[s]

-----------------------------------------------------------------------------
Forgotten ==
    /\ publication' = 0 /\ applied' = None /\ revision' = 0
    /\ draft' = Empty /\ tab' = "summary"

Init ==
    /\ served = 1 /\ acts = 0
    /\ publication = 0 /\ applied = None /\ revision = 0 /\ draft = Empty /\ tab = "summary"
    /\ on = FALSE /\ changed = FALSE
    /\ retries = [s \in Slot |-> 0]
    /\ search = FirstSearch /\ ranking = FirstRanking
    /\ flight = [s \in Slot |-> NoFlight]
    /\ held = [s \in Slot |-> NothingHeld]
    /\ unflushed = FALSE
    /\ opened = None /\ detail = None /\ lookups = {} /\ marker = FALSE
    /\ entries = <<FALSE>> /\ at = 1 /\ asked = <<>>

\* A refresh publishes.
Publish ==
    /\ served < MaxPublication
    /\ served' = served + 1
    /\ UNCHANGED <<memory, on, local, flight, held, unflushed, sheet>>

-----------------------------------------------------------------------------
\* The effects of what was rendered: a hook whose key changed abandons its request
\* and sends the next; one that is gone has forgotten everything.
Effects ==
    /\ ~Settled
    /\ unflushed' = FALSE
    /\ LET wanted == Wanted IN
       flight' = [s \in Slot |->
                    IF flight[s].key = wanted[s] THEN flight[s]
                    ELSE IF wanted[s].wanted THEN [key |-> wanted[s], sent |-> TRUE, since |-> served]
                    ELSE NoFlight]
    /\ held' = [s \in Slot |-> IF Kept(s) THEN held[s] ELSE NothingHeld]
    /\ retries' = [s \in Slot |-> IF Kept(s) THEN retries[s] ELSE 0]
    /\ search' = IF Kept("stores") THEN search ELSE FirstSearch
    /\ ranking' = IF Kept("block") THEN ranking ELSE FirstRanking
    /\ UNCHANGED <<served, memory, on, changed, sheet>>

\* What the service may have answered, at some time since it was asked: from the
\* publication it had then, unless another was demanded, or with a refusal - of a
\* cursor that is of another search, or for whatever else is wrong.
AnswersTo(f) ==
    LET demanded == f.key.query.context.pub
        match == f.key.query.issued = f.key.query.context
    IN  {a \in {Data(p) : p \in f.since .. served} : match /\ demanded \in {0, a.pub}}
        \union {a \in {Conflict} : demanded \notin {0, served}}
        \union {Error}

\* Fault: a refusal leaves the hook as it was.
DeliverSuccessOnly(s) ==
    /\ ~unflushed
    /\ flight[s].sent
    /\ flight' = [flight EXCEPT ![s].sent = FALSE, ![s].since = 0]
    /\ \E answer \in AnswersTo(flight[s]) :
          /\ changed' = (changed \/ answer = Conflict)
          /\ held' = IF answer.kind = "data"
                     THEN [held EXCEPT ![s] = [key |-> flight[s].key, answer |-> answer]]
                     ELSE held
    /\ UNCHANGED <<served, memory, on, retries, search, ranking, unflushed, sheet>>

\* The promise settles.  A conflict is the page's; all else is the hook's.
Deliver(s) ==
    /\ ~unflushed
    /\ flight[s].sent
    /\ flight' = [flight EXCEPT ![s].sent = FALSE, ![s].since = 0]
    /\ \E answer \in AnswersTo(flight[s]) :
          IF answer = Conflict
          THEN changed' = TRUE /\ held' = held
          ELSE /\ held' = [held EXCEPT ![s] = [key |-> flight[s].key, answer |-> answer]]
               /\ changed' = changed
    /\ UNCHANGED <<served, memory, on, retries, search, ranking, unflushed, sheet>>

-----------------------------------------------------------------------------
\* The user's acts, whose effects run before anything else does.
Act == Settled /\ unflushed' = TRUE /\ UNCHANGED <<served, flight, held>>

Here == Act /\ on /\ opened = None /\ UNCHANGED <<on, sheet>>

\* A block that was refused has a button to read it again.
Retry(s) ==
    /\ Here
    /\ Shown(s).kind = "error"
    /\ retries' = [retries EXCEPT ![s] = @ + 1]
    /\ UNCHANGED <<memory, changed, search, ranking>>

\* Fault: the first read is not repeated.
ReloadUnread ==
    /\ Here
    /\ changed
    /\ changed' = FALSE
    /\ publication' = 0 /\ applied' = None
    /\ UNCHANGED <<retries, revision, draft, tab, search, ranking>>

\* "Relire le contexte": the applied analysis is dropped with its publication.
Reload ==
    /\ Here
    /\ changed
    /\ changed' = FALSE
    /\ retries' = [retries EXCEPT !["bootstrap"] = @ + 1]
    /\ publication' = 0 /\ applied' = None
    /\ UNCHANGED <<revision, draft, tab, search, ranking>>

EditDraft(f) ==
    /\ Here
    /\ FormOpen
    /\ draft' = f
    /\ UNCHANGED <<publication, applied, revision, tab, local>>

SearchStores(t) ==
    /\ Here
    /\ FormOpen
    /\ search' = [FirstSearch EXCEPT !.text = t]
    /\ UNCHANGED <<memory, changed, retries, ranking>>

MoreStores ==
    /\ Here
    /\ Shown("stores").kind = "data" /\ StoresKey.query.page < Pages
    /\ search' = [search EXCEPT !.page = StoresKey.query.page + 1, !.position = SearchContext]
    /\ UNCHANGED <<memory, changed, retries, ranking>>

FirstStores ==
    /\ Here
    /\ StoresKey.query.page > 1
    /\ search' = [FirstSearch EXCEPT !.text = search.text]
    /\ UNCHANGED <<memory, changed, retries, ranking>>

\* The results are made anew for every revision.
Apply ==
    /\ Here
    /\ FormOpen
    /\ draft # Empty
    /\ publication' = Publication
    /\ applied' = draft
    /\ revision' = revision + 1
    /\ ranking' = FirstRanking
    /\ retries' = [retries EXCEPT !["summary"] = 0, !["block"] = 0]
    /\ UNCHANGED <<draft, tab, changed, search>>

\* Another tab's block takes the place of this one's.
SetTab(t) ==
    /\ Here
    /\ FormOpen /\ t # tab
    /\ tab' = t
    /\ ranking' = FirstRanking
    /\ retries' = [retries EXCEPT !["block"] = 0]
    /\ UNCHANGED <<publication, applied, revision, draft, changed, search>>

Sort(t) ==
    /\ Here
    /\ tab = "ranking" /\ BlockKey.wanted
    /\ ranking' = [FirstRanking EXCEPT !.sort = t]
    /\ UNCHANGED <<memory, changed, retries, search>>

NextRanks ==
    /\ Here
    /\ tab # "summary" /\ Shown("block").kind = "data" /\ ranking.index < Pages
    /\ ranking' = [ranking EXCEPT
                     !.cursors = Append(SubSeq(@, 1, ranking.index), BlockContext),
                     !.index = @ + 1]
    /\ UNCHANGED <<memory, changed, retries, search>>

PreviousRanks ==
    /\ Here
    /\ tab # "summary" /\ Shown("block").kind = "data" /\ ranking.index > 1
    /\ ranking' = [ranking EXCEPT !.index = @ - 1]
    /\ UNCHANGED <<memory, changed, retries, search>>

-----------------------------------------------------------------------------
\* The sheet of a store over the page, kept by an entry of the history.
Abandoned(ls) == {[l EXCEPT !.live = FALSE] : l \in ls}

Pushed == Append(SubSeq(entries, 1, at), TRUE)

\* An entry is pushed once, then the store's row is read.
Open(x) ==
    /\ Settled /\ on /\ opened = None
    /\ tab # "summary" /\ Shown("block").kind = "data"
    /\ opened' = x /\ detail' = None
    /\ lookups' = Abandoned(lookups) \union {[store |-> x, live |-> TRUE]}
    /\ IF marker
       THEN UNCHANGED <<marker, entries, at>>
       ELSE marker' = TRUE /\ entries' = Pushed /\ at' = at + 1
    /\ UNCHANGED <<served, memory, on, local, flight, held, unflushed, asked>>

\* The row, or that there is none or that it could not be read.
Answer(l) ==
    /\ lookups' = lookups \ {l}
    /\ \E found \in {l.store, "failed"} : detail' = IF l.live THEN found ELSE detail
    /\ UNCHANGED <<served, memory, on, local, flight, held, unflushed,
                   opened, marker, entries, at, asked>>

CloseDetail ==
    /\ opened' = None
    /\ detail' = IF detail = "failed" THEN detail ELSE None
    /\ lookups' = Abandoned(lookups)

\* Fault: the page takes the entry for its own ever after.
PopStateForgetful ==
    IF on /\ marker THEN marker' = marker /\ CloseDetail ELSE UNCHANGED <<marker, opened, detail, lookups>>

\* The page hears of every traversal while it is on the screen.
PopState ==
    IF on /\ marker THEN marker' = FALSE /\ CloseDetail ELSE UNCHANGED <<marker, opened, detail, lookups>>

Ask(way, alone) ==
    /\ Len(asked) < MaxAsked
    /\ asked' = Append(asked, [way |-> way, alone |-> alone])

\* "Retour": the history goes back, in its own time, and nothing stops a second press.
Back ==
    /\ on /\ opened # None
    /\ IF marker
       THEN Ask("back", asked = <<>>) /\ UNCHANGED <<opened, detail, lookups>>
       ELSE CloseDetail /\ UNCHANGED asked
    /\ UNCHANGED <<served, memory, on, local, flight, held, unflushed,
                   marker, entries, at>>

\* The browser's own buttons, at any time.
Browse ==
    /\ \E way \in {"back", "forward"} : Ask(way, FALSE)
    /\ UNCHANGED <<served, memory, on, local, flight, held, unflushed,
                   opened, detail, lookups, marker, entries, at>>

Target == IF Head(asked).way = "back" THEN at - 1 ELSE at + 1

\* The traversals that were asked for are made one by one, each from the entry that
\* is current by then.
Arrive ==
    /\ Target \in DOMAIN entries
    /\ at' = Target /\ asked' = Tail(asked)
    /\ PopState
    /\ UNCHANGED <<served, memory, on, local, flight, held, unflushed, entries>>

\* Its listener gone, the page leaves no mark in the history.
Unmount ==
    /\ on' = FALSE /\ changed' = FALSE
    /\ entries' = IF marker THEN [entries EXCEPT ![at] = FALSE] ELSE entries
    /\ marker' = FALSE /\ opened' = None /\ detail' = None
    /\ lookups' = Abandoned(lookups)

\* Beyond the entries there is nothing, or another document.  The document that is
\* left ends its session at once, and whoever comes back finds it at the same entry.
Depart ==
    /\ Target \notin DOMAIN entries
    /\ \/ /\ asked' = Tail(asked)
          /\ UNCHANGED <<memory, on, local, flight, held, unflushed,
                         opened, detail, lookups, marker, entries>>
       \/ /\ asked' = <<>> /\ unflushed' = FALSE
          /\ Forgotten /\ Unmount
          /\ retries' = [s \in Slot |-> 0]
          /\ search' = FirstSearch /\ ranking' = FirstRanking
          /\ flight' = [s \in Slot |-> NoFlight]
          /\ held' = [s \in Slot |-> NothingHeld]
    /\ UNCHANGED <<served, at>>

Traversed == asked # <<>> /\ (Arrive \/ Depart)

LeaveView ==
    /\ Act /\ on
    /\ Unmount
    /\ UNCHANGED <<memory, retries, search, ranking, at, asked>>

Enter ==
    /\ Act /\ ~on
    /\ on' = TRUE
    /\ UNCHANGED <<memory, local, sheet>>

\* The workspace is made anew for the next session.
EndSession ==
    /\ Act
    /\ Forgotten /\ Unmount
    /\ UNCHANGED <<retries, search, ranking, at, asked>>

-----------------------------------------------------------------------------
User ==
    \/ /\ acts < MaxActs /\ acts' = acts + 1
       /\ \/ \E s \in Slot : Retry(s)
          \/ Reload \/ Apply \/ MoreStores \/ FirstStores \/ NextRanks \/ PreviousRanks
          \/ \E f \in Filter \union {Empty} : EditDraft(f)
          \/ \E t \in Text : SearchStores(t) \/ Sort(t)
          \/ \E t \in Tab : SetTab(t)
          \/ \E x \in Store : Open(x)
          \/ Browse \/ LeaveView \/ EndSession
    \/ (Back \/ Enter) /\ UNCHANGED acts

\* What the event loop and the service do of themselves.
Turn ==
    \/ Effects \/ Traversed
    \/ \E s \in Slot : Deliver(s)
    \/ \E l \in lookups : Answer(l)

Next == User \/ ((Publish \/ Turn) /\ UNCHANGED acts)

Spec == Init /\ [][Next]_vars

-----------------------------------------------------------------------------
Context ==
    [pub : 0 .. MaxPublication, filter : Filter \union Text \union {None}, text : Text \union {None}]

\* The variables have their types.
TypeOK ==
    /\ publication \in 0 .. served /\ applied \in Filter \union {None} /\ tab \in Tab
    /\ draft \in Filter \union {Empty} /\ revision \in 0 .. acts
    /\ retries \in [Slot -> Nat]
    /\ search.position \in Context /\ search.page \in 1 .. Pages
    /\ ranking.index \in DOMAIN ranking.cursors /\ Len(ranking.cursors) <= Pages
    /\ \A s \in Slot : /\ flight[s].since \in 0 .. served
                       /\ held[s].answer.kind \in {"none", "data", "error"}
    /\ opened \in Store \union {None} /\ detail \in Store \union {None, "failed"}
    /\ at \in DOMAIN entries /\ Len(asked) <= MaxAsked

\* All that is shown at one time was read from one publication, the one the analysis
\* was applied to, and the results are those of the filters that were applied last,
\* whatever the form says by now and however late the answers came.
OnePublication ==
    /\ \A s \in Slot : Shown(s).kind = "data" => Shown(s).pub = Publication
    /\ applied # None => publication # 0
    /\ \A s \in {"summary", "block"} : Shown(s).kind = "data" =>
          held[s].key.query.context.filter = applied /\ held[s].key.owner.revision = revision

\* A cursor is sent only with the search that it was issued for: the same
\* publication, filters and sort.  The service refuses any other.
CursorsMatch ==
    \A s \in Slot : flight[s].key.query.issued = flight[s].key.query.context

\* The page says that the publication changed only when the one that it works with
\* is not served any more, and after "Relire le contexte" with none that it had
\* before: the next is read first.
ConflictIsCurrent ==
    [][/\ ~changed /\ changed' => Publication \notin {0, served}
       /\ changed /\ ~changed' /\ on' => Publication' = 0]_vars

\* The sheet is of the store that was opened last, and the entry that is there to
\* return by is the page's own: a "Retour" that was pressed while no other traversal
\* was under way comes back to this page, whatever the user asks for or leaves before
\* it is made.  Of one pressed during another that cannot be said.
ReturnStaysHere ==
    /\ detail \in {None, opened, "failed"}
    /\ marker <=> opened # None
    /\ marker => entries[at]
    /\ asked # <<>> /\ Head(asked).alone => Target \in DOMAIN entries

\* Whatever says that it loads is waiting for an answer: a hook that shows neither
\* values nor an error has a request out under its present key, and a sheet without
\* its row has one that was not abandoned.
NothingHangs ==
    /\ Settled => \A s \in Slot :
          Wanted[s].wanted /\ Shown(s).kind = "none" => flight[s].sent
    /\ opened # None /\ detail = None => [store |-> opened, live |-> TRUE] \in lookups

=============================================================================
