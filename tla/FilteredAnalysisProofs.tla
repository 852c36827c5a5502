----------------------- MODULE FilteredAnalysisProofs -----------------------
(***************************************************************************)
(* Proofs about FilteredAnalysis, for any filters, stores, pages and       *)
(* publications, however long the user works with the page.                *)
(***************************************************************************)
EXTENDS FilteredAnalysis, SequenceTheorems, TLAPS

-----------------------------------------------------------------------------
(* The inductive invariant.                                                *)

Owners == [revision : Nat, tab : Tab]
Queries == [context : Context, page : Nat, issued : Context]
Keys == [wanted : BOOLEAN, query : Queries, retry : Nat, owner : Owners]
Answers == [kind : {"none", "data", "error"}, pub : Nat]
Flights == [key : Keys, sent : BOOLEAN, since : Nat]
Holdings == [key : Keys, answer : Answers]

MemoryTypes ==
    /\ served \in 1 .. MaxPublication /\ acts \in Nat
    /\ publication \in 0 .. served /\ applied \in Filter \union {None} /\ tab \in Tab
    /\ draft \in Filter \union {Empty} /\ revision \in 0 .. acts
    /\ on \in BOOLEAN /\ changed \in BOOLEAN /\ unflushed \in BOOLEAN

LocalTypes ==
    /\ retries \in [Slot -> Nat]
    /\ search \in [text : Text \union {None}, page : 1 .. Pages, position : Context]
    /\ ranking \in [sort : Text \union {None}, cursors : Seq(Context), index : Nat]
    /\ ranking.index \in 1 .. Len(ranking.cursors) /\ Len(ranking.cursors) <= Pages

HookTypes ==
    /\ flight \in [Slot -> Flights] /\ held \in [Slot -> Holdings]
    /\ \A s \in Slot : flight[s].since <= served /\ held[s].answer.pub <= served

Types == MemoryTypes /\ LocalTypes /\ HookTypes

\* An answer is of the publication that its key demanded.
AnswersSound ==
    \A s \in Slot :
        /\ flight[s].sent => flight[s].key.wanted
        /\ held[s].answer.kind # "none" => held[s].key.wanted
        /\ held[s].answer.kind = "data" =>
              held[s].key.query.context.pub \in {0, held[s].answer.pub}
        /\ held[s].answer.kind # "data" => held[s].answer.pub = 0

\* The cursors of a ranking are those of the applied analysis and its sort.
RankingSound ==
    applied # None =>
        /\ publication # 0
        /\ \A i \in 2 .. Len(ranking.cursors) :
              ranking.cursors[i] = [pub |-> publication, filter |-> applied, text |-> ranking.sort]

\* A key of the first read that was used up is not used again.
Spent(k) ==
    k.wanted =>
        /\ k.retry <= retries["bootstrap"]
        /\ k.retry = retries["bootstrap"] /\ publication = 0 => k.query.context.pub = 0

\* What the first read has found is found once.
FirstReadSound ==
    /\ on => Spent(held["bootstrap"].key) /\ Spent(flight["bootstrap"].key)
    /\ BootstrapKey.wanted /\ held["bootstrap"].key = BootstrapKey =>
          flight["bootstrap"].key = BootstrapKey /\ ~flight["bootstrap"].sent
    /\ ~on /\ ~unflushed =>
          ~flight["bootstrap"].sent /\ held["bootstrap"] = NothingHeld

\* Requests that are out demand the publication that the page works with.
DemandsCurrent ==
    ~unflushed /\ ~changed =>
        \A s \in Slot : flight[s].sent => flight[s].key.query.context.pub \in {0, Publication}

\* A request that is not out any more was answered, unless the page has changed.
Answered ==
    \A s \in Slot :
        flight[s].key.wanted /\ ~flight[s].sent /\ ~changed =>
            held[s].key = flight[s].key /\ held[s].answer.kind # "none"

HooksSound == AnswersSound /\ CursorsMatch /\ RankingSound /\ FirstReadSound
              /\ DemandsCurrent /\ Answered

Traversals == [way : {"back", "forward"}, alone : BOOLEAN]

\* A "Retour" that was pressed alone is the next to be made, and has an entry to go to.
AskedSound ==
    /\ asked \in Seq(Traversals) /\ Len(asked) <= MaxAsked
    /\ \A i \in 1 .. Len(asked) : asked[i].alone => i = 1 /\ asked[i].way = "back" /\ at > 1

SheetSound ==
    /\ opened \in Store \union {None}
    /\ detail \in {None, opened, "failed"}
    /\ marker \in BOOLEAN /\ (marker <=> opened # None) /\ (marker => on)
    /\ entries \in Seq(BOOLEAN) /\ at \in 1 .. Len(entries)
    /\ ~entries[1] /\ (marker => entries[at])
    /\ AskedSound
    /\ lookups \subseteq [store : Store, live : BOOLEAN]
    /\ \A l \in lookups : l.live => opened # None /\ l.store = opened
    /\ opened # None /\ detail = None => [store |-> opened, live |-> TRUE] \in lookups

IInv == Types /\ HooksSound /\ SheetSound

-----------------------------------------------------------------------------
(* What the hooks would read.                                              *)

\* The hooks are four.
LEMMA WantedIs ==
    /\ Slot = {"bootstrap", "stores", "summary", "block"}
    /\ Wanted["bootstrap"] = BootstrapKey
    /\ Wanted["stores"] = StoresKey
    /\ Wanted["summary"] = SummaryKey
    /\ Wanted["block"] = BlockKey
BY DEF Slot, Wanted

\* Where nothing is wanted, nothing is about anything.
LEMMA NoKeyFields ==
    /\ NoContext \in Context
    /\ NoKey \in Keys /\ NoKey.wanted = FALSE /\ NoKey.query.context = NoContext
    /\ NoKey.query.issued = NoContext
    /\ NoContext.pub = 0
<1>1. NoContext \in Context /\ NoContext.pub = 0
  <2>1. MaxPublication \in Nat
    BY AnalysisAssumption
  <2> QED
    BY <2>1 DEF NoContext, Context
<1>2. Page \in Owners
  BY AnalysisAssumption DEF Page, Owners
<1> DEFINE k == Key(Query(NoContext, 1, NoContext), 0, Page)
<1>3. k \in Keys /\ k.query.context = NoContext /\ k.query.issued = NoContext
  BY <1>1, <1>2 DEF Key, Query, Keys, Queries
<1> HIDE DEF k
<1>4. NoKey = [k EXCEPT !.wanted = FALSE]
  BY DEF NoKey, k
<1> QED
  BY <1>1, <1>3, <1>4 DEF Keys

\* A key of typed parts is typed.
LEMMA KeyTyped ==
    ASSUME NEW context \in Context, NEW page \in Nat, NEW issued \in Context,
           NEW retry \in Nat, NEW owner \in Owners
    PROVE  Key(Query(context, page, issued), retry, owner) \in Keys
BY DEF Key, Query, Keys, Queries

\* What the first read found is a publication of the service.
LEMMA PublicationTyped ==
    ASSUME Types
    PROVE  /\ Publication \in 0 .. served
           /\ Publication \in 0 .. MaxPublication
           /\ Bootstrap.pub \in 0 .. served
           /\ publication # 0 => Publication = publication
           /\ publication = 0 => Publication = Bootstrap.pub
<1>1. served \in 1 .. MaxPublication /\ publication \in 0 .. served /\ MaxPublication \in Nat
  BY AnalysisAssumption DEF Types, MemoryTypes
<1>2. held["bootstrap"] \in Holdings /\ held["bootstrap"].answer.pub <= served
  BY WantedIs DEF Types, HookTypes
<1>3. held["bootstrap"].answer.pub \in Nat
  BY <1>2 DEF Holdings, Answers
<1>4. Bootstrap.pub = held["bootstrap"].answer.pub \/ Bootstrap.pub = 0
  BY DEF Bootstrap, ShownUnder, NoAnswer
<1>5. Bootstrap.pub \in 0 .. served
  BY <1>1, <1>2, <1>3, <1>4
<1> QED
  BY <1>1, <1>5 DEF Publication

\* The contexts of the page are typed.
LEMMA ContextsTyped ==
    ASSUME Types
    PROVE  /\ SearchContext \in Context /\ AppliedContext \in Context /\ BlockContext \in Context
           /\ [NoContext EXCEPT !.pub = publication] \in Context
<1>1. Publication \in 0 .. MaxPublication /\ publication \in 0 .. MaxPublication
  <2>1. MaxPublication \in Nat
    BY AnalysisAssumption
  <2> QED
    BY <2>1, PublicationTyped DEF Types, MemoryTypes
<1>2. /\ Searched[draft] \in Text \union {None} /\ applied \in Filter \union {None}
      /\ search.text \in Text \union {None} /\ ranking.sort \in Text \union {None}
  BY AnalysisAssumption DEF Types, MemoryTypes, LocalTypes
<1>3. AppliedContext = [pub |-> Publication, filter |-> applied, text |-> None]
      /\ BlockContext = [pub |-> Publication, filter |-> applied, text |-> ranking.sort]
      /\ [NoContext EXCEPT !.pub = publication] = [pub |-> publication, filter |-> None, text |-> None]
  BY DEF AppliedContext, BlockContext, NoContext
<1> QED
  BY <1>1, <1>2, <1>3 DEF SearchContext, Context

\* So are the keys, and each demands the publication that the page works with, or
\* none as yet.
LEMMA WantedSound ==
    ASSUME Types, RankingSound, NEW s \in Slot
    PROVE  /\ Wanted[s] \in Keys
           /\ Wanted[s].query.issued = Wanted[s].query.context
           /\ Wanted[s].wanted => on /\ ~changed
           /\ Wanted[s].query.context.pub \in {0, Publication}
           /\ Wanted[s].wanted /\ s # "bootstrap" =>
                /\ FormOpen /\ Publication # 0
                /\ Wanted[s].query.context.pub = Publication
           /\ Wanted[s].wanted /\ s \in {"summary", "block"} =>
                /\ applied # None
                /\ Wanted[s].query.context.filter = applied
                /\ Wanted[s].owner.revision = revision
<1>0. retries \in [Slot -> Nat] /\ retries[s] \in Nat
  BY DEF Types, LocalTypes
<1>1. Page \in Owners
  BY AnalysisAssumption DEF Page, Owners
<1>2. CASE s = "bootstrap"
  <2> DEFINE context == [NoContext EXCEPT !.pub = publication]
             k == Key(Query(context, 1, NoContext), retries["bootstrap"], Page)
  <2>1. BootstrapKey = IF on /\ ~changed THEN k ELSE NoKey
    BY DEF BootstrapKey
  <2>2. context.pub = publication /\ publication \in {0, Publication}
    BY PublicationTyped DEF NoContext
  <2>3. context \in Context
    BY ContextsTyped
  <2> HIDE DEF context
  <2>4. k \in Keys /\ k.query.context = context /\ k.query.issued = context
    <3>1. k \in Keys
      BY <1>0, <1>1, <1>2, <2>3, KeyTyped, NoKeyFields
    <3> QED
      BY <3>1 DEF Key, Query
  <2> HIDE DEF k
  <2> QED
    BY <1>2, <2>1, <2>2, <2>4, NoKeyFields, WantedIs
<1>3. CASE s = "stores"
  <2> DEFINE context == SearchContext
             page == IF search.position = SearchContext THEN search.page ELSE 1
             k == Key(Query(context, page, search.position), retries["stores"], Page)
  <2>1. StoresKey = IF FormOpen THEN k ELSE NoKey
    BY DEF StoresKey
  <2>2. context.pub = Publication
    BY DEF SearchContext
  <2>3. context \in Context /\ page \in Nat /\ search.position \in Context
    <3>1. search.page \in Nat /\ search.position \in Context
      BY AnalysisAssumption DEF Types, LocalTypes
    <3> QED
      BY <3>1, ContextsTyped
  <2>4. page # 1 => search.position = context
    OBVIOUS
  <2> HIDE DEF context, page
  <2>5. k \in Keys /\ k.query.context = context /\ k.query.issued = context
    <3>1. k \in Keys
      BY <1>0, <1>1, <1>3, <2>3, KeyTyped
    <3> QED
      BY <2>4, <3>1 DEF Key, Query
  <2> HIDE DEF k
  <2> QED
    BY <1>3, <2>1, <2>2, <2>5, NoKeyFields, WantedIs DEF FormOpen
<1>4. CASE s = "summary"
  <2> DEFINE owner == [Page EXCEPT !.revision = revision]
             k == Key(Query(AppliedContext, 1, NoContext), retries["summary"], owner)
  <2>1. SummaryKey = IF FormOpen /\ applied # None THEN k ELSE NoKey
    BY DEF SummaryKey
  <2>2. AppliedContext.pub = Publication /\ AppliedContext.filter = applied
    BY DEF AppliedContext
  <2>3. owner \in Owners /\ owner.revision = revision
    <3>1. revision \in Nat
      BY DEF Types, MemoryTypes
    <3> QED
      BY <3>1, AnalysisAssumption DEF Page, Owners
  <2> HIDE DEF owner
  <2>4. k \in Keys /\ k.query.context = AppliedContext /\ k.query.issued = AppliedContext
        /\ k.owner = owner
    <3>1. k \in Keys
      BY <1>0, <1>4, <2>3, ContextsTyped, KeyTyped, NoKeyFields
    <3> QED
      BY <3>1 DEF Key, Query
  <2> HIDE DEF k
  <2> QED
    BY <1>4, <2>1, <2>2, <2>3, <2>4, NoKeyFields, WantedIs DEF FormOpen
<1>5. CASE s = "block"
  <2> DEFINE owner == [revision |-> revision, tab |-> tab]
             issued == ranking.cursors[ranking.index]
             k == Key(Query(BlockContext, ranking.index, issued), retries["block"], owner)
  <2>1. BlockKey = IF SummaryKey.wanted /\ Summary.kind = "data" THEN k ELSE NoKey
    BY DEF BlockKey
  <2>2. SummaryKey.wanted => FormOpen /\ applied # None
    BY NoKeyFields DEF SummaryKey
  <2>3. BlockContext = [pub |-> Publication, filter |-> applied, text |-> ranking.sort]
    BY DEF BlockContext, AppliedContext
  <2>4. owner \in Owners /\ owner.revision = revision
    BY DEF Types, MemoryTypes, Owners
  <2>5. ranking.index \in Nat /\ ranking.index \in 1 .. Len(ranking.cursors) /\ issued \in Context
    <3>1. ranking.cursors \in Seq(Context) /\ ranking.index \in 1 .. Len(ranking.cursors)
          /\ ranking.index \in Nat
      BY DEF Types, LocalTypes
    <3> QED
      BY <3>1, ElementOfSeq
  <2>6. applied # None /\ ranking.index # 1 => issued = BlockContext
    <3> SUFFICES ASSUME applied # None, ranking.index # 1
                 PROVE  issued = BlockContext
      OBVIOUS
    <3>1. Len(ranking.cursors) \in Nat
      BY LenProperties DEF Types, LocalTypes
    <3>2. ranking.index \in 2 .. Len(ranking.cursors)
      BY <2>5, <3>1
    <3>3. publication # 0 /\ issued = [pub |-> publication, filter |-> applied, text |-> ranking.sort]
      BY <3>2 DEF RankingSound
    <3> QED
      BY <2>3, <3>3, PublicationTyped
  <2> HIDE DEF owner, issued
  <2>7. k \in Keys /\ k.query.context = BlockContext /\ k.owner = owner
        /\ (applied # None => k.query.issued = BlockContext)
    <3>1. k \in Keys
      BY <1>0, <1>5, <2>4, <2>5, ContextsTyped, KeyTyped
    <3> QED
      BY <2>6, <3>1 DEF Key, Query
  <2> HIDE DEF k
  <2>8. BlockContext.pub = Publication /\ BlockContext.filter = applied
    BY <2>3
  <2> QED
    BY <1>5, <2>1, <2>2, <2>4, <2>7, <2>8, NoKeyFields, WantedIs DEF FormOpen
<1> QED
  BY <1>2, <1>3, <1>4, <1>5, WantedIs

-----------------------------------------------------------------------------
(* The user's acts.                                                        *)

\* An act abandons no request: while the page has changed, none is wanted.
LEMMA ActKeeps ==
    ASSUME IInv, Act, Types', RankingSound', FirstReadSound', SheetSound'
    PROVE  IInv'
<1>1. Settled /\ unflushed' = TRUE /\ UNCHANGED <<served, flight, held>>
  BY DEF Act
<1>2. AnswersSound' /\ CursorsMatch' /\ DemandsCurrent'
  BY <1>1 DEF IInv, HooksSound, AnswersSound, CursorsMatch, DemandsCurrent
<1>3. changed => \A s \in Slot : ~flight[s].key.wanted
  BY <1>1, WantedSound DEF IInv, HooksSound, Settled
<1>4. Answered'
  BY <1>1, <1>3 DEF IInv, HooksSound, Answered
<1> QED
  BY <1>2, <1>4 DEF IInv, HooksSound

\* The sheet stays as it is.
LEMMA SheetStays ==
    ASSUME SheetSound, UNCHANGED sheet, on => on'
    PROVE  SheetSound'
BY DEF SheetSound, AskedSound, sheet

\* An act on the page that leaves what the first read is about.
LEMMA HereKeeps ==
    ASSUME IInv, Here, acts' = acts + 1, UNCHANGED <<publication, changed>>,
           retries'["bootstrap"] = retries["bootstrap"],
           applied' \in Filter \union {None}, tab' \in Tab, draft' \in Filter \union {Empty},
           revision' = revision, LocalTypes', RankingSound'
    PROVE  IInv'
<1>1. Act /\ UNCHANGED <<served, flight, held, on, sheet>> /\ unflushed' = TRUE
  BY DEF Here, Act
<1>2. Types'
  <2>1. MemoryTypes'
    BY <1>1 DEF IInv, Types, MemoryTypes
  <2>2. HookTypes'
    BY <1>1 DEF IInv, Types, HookTypes
  <2> QED
    BY <2>1, <2>2 DEF Types
<1>3. SheetSound'
  BY <1>1, SheetStays DEF IInv
<1>4. FirstReadSound'
  <2>1. BootstrapKey' = BootstrapKey
    BY <1>1 DEF BootstrapKey
  <2> QED
    BY <1>1, <2>1 DEF IInv, HooksSound, FirstReadSound, Spent
<1> QED
  BY <1>1, <1>2, <1>3, <1>4, ActKeeps

\* The ranking stays with what it ranks.
LEMMA RankingStays ==
    ASSUME RankingSound, UNCHANGED <<publication, applied, ranking>>
    PROVE  RankingSound'
BY DEF RankingSound

\* A ranking begins with its first page.
LEMMA RankingBegins ==
    ASSUME ranking' = FirstRanking \/ \E t \in Text : ranking' = [FirstRanking EXCEPT !.sort = t],
           applied' # None => publication' # 0
    PROVE  /\ RankingSound'
           /\ ranking' \in [sort : Text \union {None}, cursors : Seq(Context), index : Nat]
           /\ ranking'.index \in 1 .. Len(ranking'.cursors) /\ Len(ranking'.cursors) <= Pages
<1>1. /\ ranking'.cursors = <<NoContext>> /\ ranking'.index = 1
      /\ ranking' = [sort |-> ranking'.sort, cursors |-> <<NoContext>>, index |-> 1]
      /\ ranking'.sort \in Text \union {None}
  BY DEF FirstRanking
<1>2. Len(ranking'.cursors) = 1 /\ <<NoContext>> \in Seq(Context)
  BY <1>1, NoKeyFields
<1>3. 1 <= Pages
  BY AnalysisAssumption
<1>4. RankingSound'
  BY <1>2 DEF RankingSound
<1> DEFINE first == <<NoContext>>
<1>5. /\ first \in Seq(Context) /\ Len(first) = 1
      /\ ranking' = [sort |-> ranking'.sort, cursors |-> first, index |-> 1]
      /\ ranking'.sort \in Text \union {None}
  BY <1>1, <1>2
<1> HIDE DEF first
<1>6. ranking'.cursors = first /\ ranking'.index = 1
  BY <1>5
<1>7. ranking' \in [sort : Text \union {None}, cursors : Seq(Context), index : Nat]
  BY <1>5
<1>8. ranking'.index \in 1 .. Len(ranking'.cursors) /\ Len(ranking'.cursors) <= Pages
  <2>1. Len(ranking'.cursors) = 1 /\ Pages \in Nat
    BY <1>5, <1>6, AnalysisAssumption
  <2> QED
    BY <1>3, <1>6, <2>1
<1> QED
  BY <1>4, <1>7, <1>8

\* Editing the draft, searching and turning the pages of a search keep the invariant
\* (StoreSearch and the form of FilteredAnalysis.tsx).
LEMMA FormKeeps ==
    ASSUME IInv, acts' = acts + 1,
           \/ MoreStores \/ FirstStores
           \/ \E f \in Filter \union {Empty} : EditDraft(f)
           \/ \E t \in Text : SearchStores(t)
    PROVE  IInv'
<1>1. /\ Here /\ UNCHANGED <<publication, applied, revision, tab, changed, retries, ranking>>
      /\ draft' \in Filter \union {Empty}
  BY DEF MoreStores, FirstStores, EditDraft, SearchStores, memory, local, IInv, Types, MemoryTypes
<1>2. search' \in [text : Text \union {None}, page : 1 .. Pages, position : Context]
  <2>1. search \in [text : Text \union {None}, page : 1 .. Pages, position : Context]
    BY DEF IInv, Types, LocalTypes
  <2>2. 1 \in 1 .. Pages /\ Pages \in Nat
    BY AnalysisAssumption
  <2>3. CASE search' = search
    BY <2>1, <2>3
  <2>4. CASE \E t \in Text \union {None} : search' = [FirstSearch EXCEPT !.text = t]
    BY <2>2, <2>4, NoKeyFields DEF FirstSearch
  <2>5. CASE MoreStores
    <3> DEFINE page == StoresKey.query.page
    <3>1. StoresKey.query.page < Pages
          /\ search' = [search EXCEPT !.page = page + 1, !.position = SearchContext]
      BY <2>5 DEF MoreStores
    <3>2. page \in Nat
      BY WantedSound, WantedIs DEF IInv, HooksSound, Keys, Queries
    <3>3. SearchContext \in Context
      BY ContextsTyped DEF IInv
    <3>4. page + 1 \in 1 .. Pages
      BY <2>2, <3>1, <3>2
    <3> HIDE DEF page
    <3> QED
      BY <2>1, <3>1, <3>3, <3>4
  <2> QED
    BY <2>1, <2>3, <2>4, <2>5 DEF FirstStores, EditDraft, SearchStores, local
<1>3. LocalTypes'
  BY <1>1, <1>2 DEF IInv, Types, LocalTypes
<1>4. RankingSound'
  BY <1>1, RankingStays DEF IInv, HooksSound
<1>5. applied' \in Filter \union {None} /\ tab' \in Tab
  BY <1>1 DEF IInv, Types, MemoryTypes
<1> QED
  BY <1>1, <1>3, <1>4, <1>5, HereKeeps

\* So do sorting, turning the pages of a ranking and choosing another reading
\* (AnalysisResults.tsx).
LEMMA RankingKeeps ==
    ASSUME IInv, acts' = acts + 1,
           \/ NextRanks \/ PreviousRanks
           \/ \E t \in Text : Sort(t)
           \/ \E t \in Tab : SetTab(t)
    PROVE  IInv'
<1>1. /\ Here /\ UNCHANGED <<publication, applied, revision, draft, changed, search>>
      /\ tab' \in Tab
  BY DEF NextRanks, PreviousRanks, Sort, SetTab, memory, IInv, Types, MemoryTypes
<1>2. retries' \in [Slot -> Nat] /\ retries'["bootstrap"] = retries["bootstrap"]
  <2>1. retries' = retries \/ retries' = [retries EXCEPT !["block"] = 0]
    BY DEF NextRanks, PreviousRanks, Sort, SetTab
  <2> QED
    BY <2>1, WantedIs DEF IInv, Types, LocalTypes
<1>3. applied' # None => publication' # 0
  BY <1>1 DEF IInv, HooksSound, RankingSound
<1> DEFINE Placed == /\ ranking' \in [sort : Text \union {None}, cursors : Seq(Context), index : Nat]
                     /\ ranking'.index \in 1 .. Len(ranking'.cursors)
                     /\ Len(ranking'.cursors) <= Pages
<1>4. ranking.cursors \in Seq(Context) /\ ranking.index \in 1 .. Len(ranking.cursors)
      /\ ranking \in [sort : Text \union {None}, cursors : Seq(Context), index : Nat]
      /\ Len(ranking.cursors) <= Pages /\ Len(ranking.cursors) \in Nat /\ Pages \in Nat
      /\ ranking.index \in Nat
  BY AnalysisAssumption, LenProperties DEF IInv, Types, LocalTypes
<1>5. RankingSound' /\ Placed
  <2>1. CASE \E t \in Text : Sort(t)
    BY <1>3, <2>1, RankingBegins DEF Sort
  <2>2. CASE \E t \in Tab : SetTab(t)
    BY <1>3, <2>2, RankingBegins DEF SetTab
  <2>3. CASE PreviousRanks
    <3>1. ranking' = [ranking EXCEPT !.index = @ - 1] /\ ranking.index > 1
      BY <2>3 DEF PreviousRanks
    <3>2. ranking'.cursors = ranking.cursors /\ ranking'.sort = ranking.sort
          /\ ranking'.index = ranking.index - 1
      BY <1>4, <3>1
    <3>3. ranking.index - 1 \in 1 .. Len(ranking.cursors) /\ ranking.index - 1 \in Nat
      BY <1>4, <3>1
    <3>4. Placed
      BY <1>4, <3>1, <3>2, <3>3
    <3>5. RankingSound'
      BY <1>1, <3>2 DEF IInv, HooksSound, RankingSound
    <3> QED
      BY <3>4, <3>5
  <2>4. CASE NextRanks
    <3> DEFINE m == ranking.index
               cursors == Append(SubSeq(ranking.cursors, 1, m), BlockContext)
    <3>1. ranking' = [ranking EXCEPT !.cursors = cursors, !.index = m + 1] /\ m < Pages
      BY <2>4 DEF NextRanks
    <3>2. BlockContext \in Context
      BY ContextsTyped DEF IInv
    <3>3. m \in 1 .. Len(ranking.cursors) /\ m \in Nat
      BY <1>4
    <3>4. SubSeq(ranking.cursors, 1, m) \in Seq(Context) /\ Len(SubSeq(ranking.cursors, 1, m)) = m
          /\ \A i \in 1 .. m : SubSeq(ranking.cursors, 1, m)[i] = ranking.cursors[i]
      <4>1. \A i \in 1 .. m : ranking.cursors[i] \in Context
        BY <1>4, <3>3, ElementOfSeq
      <4> QED
        BY <1>4, <3>3, <4>1, SubSeqProperties
    <3>5. cursors \in Seq(Context) /\ Len(cursors) = m + 1
          /\ cursors[m + 1] = BlockContext
          /\ \A i \in 1 .. m : cursors[i] = ranking.cursors[i]
      <4> DEFINE front == SubSeq(ranking.cursors, 1, m)
      <4> HIDE DEF front
      <4>1. cursors = Append(front, BlockContext)
        BY DEF front
      <4>2. front \in Seq(Context) /\ Len(front) = m /\ \A i \in 1 .. m : front[i] = ranking.cursors[i]
        BY <3>4 DEF front
      <4> HIDE DEF cursors, m
      <4>3. \A i \in 1 .. Len(front) : cursors[i] = front[i]
        BY <3>2, <4>1, <4>2, AppendProperties
      <4> QED
        BY <3>2, <3>3, <4>1, <4>2, <4>3, AppendProperties
    <3> HIDE DEF cursors, m
    <3>6. ranking'.cursors = cursors /\ ranking'.index = m + 1 /\ ranking'.sort = ranking.sort
      BY <1>4, <3>1
    <3>7. Placed
      <4>1. ranking' = [sort |-> ranking.sort, cursors |-> cursors, index |-> m + 1]
        BY <1>4, <3>1
      <4>2. m + 1 \in Nat /\ m + 1 \in 1 .. Len(cursors) /\ Len(cursors) <= Pages
        BY <1>4, <3>1, <3>3, <3>5
      <4>3. ranking.sort \in Text \union {None}
        BY <1>4
      <4> QED
        BY <3>5, <3>6, <4>1, <4>2, <4>3
    <3> HIDE DEF Placed
    <3>8. RankingSound'
      <4> SUFFICES ASSUME applied # None
                   PROVE  /\ publication # 0
                          /\ \A i \in 2 .. m + 1 :
                                cursors[i] = [pub |-> publication, filter |-> applied, text |-> ranking.sort]
        BY <1>1, <3>5, <3>6 DEF RankingSound
      <4> SUFFICES ASSUME NEW i \in 2 .. m + 1
                   PROVE  /\ publication # 0
                          /\ cursors[i] = [pub |-> publication, filter |-> applied, text |-> ranking.sort]
        BY DEF IInv, HooksSound, RankingSound
      <4>1. publication # 0
            /\ \A j \in 2 .. Len(ranking.cursors) :
                  ranking.cursors[j] = [pub |-> publication, filter |-> applied, text |-> ranking.sort]
        BY DEF IInv, HooksSound, RankingSound
      <4>2. CASE i = m + 1
        <5>1. BlockContext = [pub |-> Publication, filter |-> applied, text |-> ranking.sort]
          BY DEF BlockContext, AppliedContext
        <5> QED
          BY <3>5, <4>1, <4>2, <5>1, PublicationTyped DEF IInv
      <4>3. CASE i # m + 1
        <5>1. i \in 1 .. m /\ i \in 2 .. Len(ranking.cursors)
          BY <1>4, <3>3, <4>3
        <5> QED
          BY <3>5, <4>1, <5>1
      <4> QED
        BY <4>2, <4>3
    <3> QED
      BY <3>7, <3>8
  <2> QED
    BY <2>1, <2>2, <2>3, <2>4
<1>6. LocalTypes'
  BY <1>1, <1>2, <1>5 DEF IInv, Types, LocalTypes
<1>7. applied' \in Filter \union {None} /\ draft' \in Filter \union {Empty} /\ UNCHANGED <<publication, changed>>
  BY <1>1 DEF IInv, Types, MemoryTypes
<1> QED
  BY <1>1, <1>2, <1>5, <1>6, <1>7, HereKeeps

\* What the first read would be, before and after a step.
LEMMA FirstReadIs ==
    /\ BootstrapKey.wanted => /\ on /\ ~changed
                              /\ BootstrapKey.retry = retries["bootstrap"]
                              /\ BootstrapKey.query.context.pub = publication
    /\ BootstrapKey'.wanted => /\ on' /\ ~changed'
                               /\ BootstrapKey'.retry = retries'["bootstrap"]
                               /\ BootstrapKey'.query.context.pub = publication'
<1> DEFINE context(p) == [NoContext EXCEPT !.pub = p]
<1>1. \A p : context(p).pub = p
  BY DEF NoContext
<1> HIDE DEF context
<1>2. BootstrapKey = IF on /\ ~changed
                     THEN Key(Query(context(publication), 1, NoContext), retries["bootstrap"], Page)
                     ELSE NoKey
  BY DEF BootstrapKey, context
<1>3. BootstrapKey' = IF on' /\ ~changed'
                      THEN Key(Query(context(publication'), 1, NoContext), retries'["bootstrap"], Page)
                      ELSE NoKey
  BY DEF BootstrapKey, context
<1>4. \A p, n : LET k == Key(Query(context(p), 1, NoContext), n, Page)
                IN  k.retry = n /\ k.query.context.pub = p
  BY <1>1 DEF Key, Query
<1> QED
  BY <1>2, <1>3, <1>4, NoKeyFields

\* A repetition makes the first read another one.
LEMMA FirstReadRenewed ==
    ASSUME Types, FirstReadSound, on, on', UNCHANGED <<flight, held>>, unflushed',
           retries'["bootstrap"] = retries["bootstrap"] + 1
    PROVE  FirstReadSound'
<1> DEFINE b == "bootstrap"
<1>1. Spent(held[b].key) /\ Spent(flight[b].key)
  BY DEF FirstReadSound
<1>2. retries[b] \in Nat /\ held[b].key.retry \in Nat /\ flight[b].key.retry \in Nat
  BY WantedIs DEF Types, LocalTypes, HookTypes, Holdings, Flights, Keys
<1>3. \A k \in {held[b].key, flight[b].key} :
         k.wanted => k.retry < retries'[b]
  BY <1>1, <1>2 DEF Spent
<1>4. Spent(held[b].key)' /\ Spent(flight[b].key)'
  BY <1>2, <1>3 DEF Spent
<1>5. BootstrapKey'.wanted => held[b].key # BootstrapKey'
  BY <1>2, <1>3, FirstReadIs
<1> QED
  BY <1>4, <1>5 DEF FirstReadSound

\* Repeating a read that failed keeps the invariant (useAnalysis).
LEMMA RetryKeeps ==
    ASSUME IInv, acts' = acts + 1, NEW s \in Slot, Retry(s)
    PROVE  IInv'
<1>1. /\ Here /\ retries' = [retries EXCEPT ![s] = @ + 1]
      /\ UNCHANGED <<publication, applied, revision, draft, tab, changed, search, ranking>>
  BY DEF Retry, memory
<1>2. retries' \in [Slot -> Nat]
  BY <1>1 DEF IInv, Types, LocalTypes
<1>3. LocalTypes'
  BY <1>1, <1>2 DEF IInv, Types, LocalTypes
<1>4. RankingSound'
  BY <1>1, RankingStays DEF IInv, HooksSound
<1>5. applied' \in Filter \union {None} /\ tab' \in Tab /\ draft' \in Filter \union {Empty}
  BY <1>1 DEF IInv, Types, MemoryTypes
<1>6. CASE s # "bootstrap"
  <2>1. retries'["bootstrap"] = retries["bootstrap"]
    BY <1>1, <1>6, WantedIs DEF IInv, Types, LocalTypes
  <2> QED
    BY <1>1, <1>3, <1>4, <1>5, <2>1, HereKeeps
<1>7. CASE s = "bootstrap"
  <2>1. Act /\ UNCHANGED <<served, flight, held, on, sheet>> /\ unflushed' = TRUE /\ on
    BY <1>1 DEF Here, Act
  <2>2. retries'["bootstrap"] = retries["bootstrap"] + 1
    BY <1>1, <1>7 DEF IInv, Types, LocalTypes
  <2>3. FirstReadSound'
    BY <2>1, <2>2, FirstReadRenewed DEF IInv, HooksSound
  <2>4. Types'
    <3>1. MemoryTypes'
      BY <1>1, <2>1 DEF IInv, Types, MemoryTypes
    <3>2. HookTypes'
      BY <2>1 DEF IInv, Types, HookTypes
    <3> QED
      BY <1>3, <3>1, <3>2 DEF Types
  <2>5. SheetSound'
    BY <2>1, SheetStays DEF IInv
  <2> QED
    BY <1>4, <2>1, <2>3, <2>4, <2>5, ActKeeps
<1> QED
  BY <1>6, <1>7

\* So does reading the context again, which drops the analysis ("Relire le contexte").
LEMMA ReloadKeeps ==
    ASSUME IInv, acts' = acts + 1, Reload
    PROVE  IInv'
<1>1. /\ Here /\ retries' = [retries EXCEPT !["bootstrap"] = @ + 1]
      /\ changed' = FALSE /\ publication' = 0 /\ applied' = None
      /\ UNCHANGED <<revision, draft, tab, search, ranking>>
  BY DEF Reload
<1>2. Act /\ UNCHANGED <<served, flight, held, on, sheet>> /\ unflushed' = TRUE /\ on
  BY <1>1 DEF Here, Act
<1>3. retries' \in [Slot -> Nat] /\ retries'["bootstrap"] = retries["bootstrap"] + 1
  BY <1>1, WantedIs DEF IInv, Types, LocalTypes
<1>4. FirstReadSound'
  BY <1>2, <1>3, FirstReadRenewed DEF IInv, HooksSound
<1>5. Types'
  <2>1. MemoryTypes'
    <3>1. /\ served \in 1 .. MaxPublication /\ MaxPublication \in Nat
          /\ revision \in 0 .. acts /\ acts \in Nat
      BY AnalysisAssumption DEF IInv, Types, MemoryTypes
    <3>2. 0 \in 0 .. served /\ revision \in 0 .. acts + 1 /\ acts + 1 \in Nat
      BY <3>1
    <3> QED
      BY <1>1, <1>2, <3>2 DEF IInv, Types, MemoryTypes
  <2>2. HookTypes' /\ LocalTypes'
    BY <1>1, <1>2, <1>3 DEF IInv, Types, HookTypes, LocalTypes
  <2> QED
    BY <2>1, <2>2 DEF Types
<1>6. SheetSound'
  BY <1>2, SheetStays DEF IInv
<1>7. RankingSound'
  BY <1>1 DEF RankingSound
<1> QED
  BY <1>2, <1>4, <1>5, <1>6, <1>7, ActKeeps

\* So does applying the draft to the publication that the first read found.
LEMMA ApplyKeeps ==
    ASSUME IInv, acts' = acts + 1, Apply
    PROVE  IInv'
<1> DEFINE b == "bootstrap"
<1>1. /\ Here /\ FormOpen /\ draft # Empty /\ publication' = Publication /\ applied' = draft
      /\ revision' = revision + 1 /\ ranking' = FirstRanking
      /\ retries' = [retries EXCEPT !["summary"] = 0, !["block"] = 0]
      /\ UNCHANGED <<draft, tab, changed, search>>
  BY DEF Apply
<1>2. Act /\ UNCHANGED <<served, flight, held, on, sheet>> /\ unflushed' = TRUE /\ on
  BY <1>1 DEF Here, Act
<1>3. retries' \in [Slot -> Nat] /\ retries'[b] = retries[b]
  BY <1>1, WantedIs DEF IInv, Types, LocalTypes
<1>4. Publication # 0 /\ Publication \in 0 .. served
  BY <1>1, PublicationTyped DEF IInv, FormOpen
<1>5. RankingSound' /\ LocalTypes'
  <2>1. RankingSound'
        /\ ranking' \in [sort : Text \union {None}, cursors : Seq(Context), index : Nat]
        /\ ranking'.index \in 1 .. Len(ranking'.cursors) /\ Len(ranking'.cursors) <= Pages
    BY <1>1, <1>4, RankingBegins
  <2> QED
    BY <1>1, <1>3, <2>1 DEF IInv, Types, LocalTypes
<1>6. Types'
  <2>1. MemoryTypes'
    <3>1. draft \in Filter /\ revision \in 0 .. acts /\ acts \in Nat
      BY <1>1 DEF IInv, Types, MemoryTypes
    <3>2. revision + 1 \in 0 .. acts + 1
      BY <3>1
    <3> QED
      BY <1>1, <1>2, <1>4, <3>1, <3>2 DEF IInv, Types, MemoryTypes
  <2>2. HookTypes'
    BY <1>2 DEF IInv, Types, HookTypes
  <2> QED
    BY <1>5, <2>1, <2>2 DEF Types
<1>7. SheetSound'
  BY <1>2, SheetStays DEF IInv
<1>8. FirstReadSound'
  <2>1. FirstReadSound
    BY DEF IInv, HooksSound
  <2>2. CASE publication # 0
    <3>1. publication' = publication
      BY <1>1, <2>2, PublicationTyped DEF IInv
    <3>2. BootstrapKey' = BootstrapKey
      BY <1>1, <1>2, <1>3, <3>1 DEF BootstrapKey
    <3> QED
      BY <1>2, <1>3, <2>1, <3>1, <3>2 DEF FirstReadSound, Spent
  <2>3. CASE publication = 0
    <3>1. Spent(held[b].key) /\ Spent(flight[b].key)
      BY <1>2, <2>1 DEF FirstReadSound
    <3>2. Spent(held[b].key)' /\ Spent(flight[b].key)'
      BY <1>1, <1>2, <1>3, <1>4, <3>1 DEF Spent
    <3>3. BootstrapKey'.wanted => held[b].key # BootstrapKey'
      BY <1>1, <1>3, <1>4, <2>3, <3>1, FirstReadIs DEF Spent
    <3> QED
      BY <1>2, <3>2, <3>3 DEF FirstReadSound
  <2> QED
    BY <2>2, <2>3
<1> QED
  BY <1>2, <1>5, <1>6, <1>7, <1>8, ActKeeps

\* Coming to the view keeps it: the first read begins anew.
LEMMA EnterKeeps ==
    ASSUME IInv, acts' = acts, Enter
    PROVE  IInv'
<1> DEFINE b == "bootstrap"
<1>1. /\ Act /\ ~on /\ on' = TRUE /\ UNCHANGED <<served, flight, held>> /\ unflushed' = TRUE
      /\ UNCHANGED <<publication, applied, revision, draft, tab, changed, retries, search, ranking>>
      /\ UNCHANGED sheet /\ Settled
  BY DEF Enter, Act, memory, local
<1>2. Types'
  BY <1>1 DEF IInv, Types, MemoryTypes, LocalTypes, HookTypes
<1>3. RankingSound' /\ SheetSound'
  BY <1>1, RankingStays, SheetStays DEF IInv, HooksSound
<1>4. held[b] = NothingHeld /\ flight[b].key = BootstrapKey
  BY <1>1, WantedIs DEF IInv, HooksSound, FirstReadSound, Settled
<1>5. held[b].key = NoKey /\ flight[b].key = NoKey
  BY <1>1, <1>4 DEF NothingHeld, BootstrapKey
<1>6. FirstReadSound'
  BY <1>1, <1>5, NoKeyFields DEF FirstReadSound, Spent
<1> QED
  BY <1>1, <1>2, <1>3, <1>6, ActKeeps

\* What is abandoned is not live.
LEMMA AbandonedAre ==
    ASSUME NEW ls, ls \subseteq [store : Store, live : BOOLEAN]
    PROVE  /\ Abandoned(ls) \subseteq [store : Store, live : BOOLEAN]
           /\ \A l \in Abandoned(ls) : ~l.live
<1>1. \A l \in ls : LET m == [l EXCEPT !.live = FALSE]
                    IN  m \in [store : Store, live : BOOLEAN] /\ m.live = FALSE
  OBVIOUS
<1> QED
  BY <1>1 DEF Abandoned

\* Nothing that is asked for is sound, and so is what remains when the first is made:
\* nothing else was pressed alone.
LEMMA NothingAsked == <<>> \in Seq(Traversals) /\ Len(<<>>) = 0 /\ Len(<<>>) <= MaxAsked
<1>1. MaxAsked \in Nat
  BY AnalysisAssumption
<1> QED
  BY <1>1

LEMMA NextAsked ==
    ASSUME AskedSound, asked # <<>>
    PROVE  /\ Tail(asked) \in Seq(Traversals) /\ Len(Tail(asked)) <= MaxAsked
           /\ \A i \in 1 .. Len(Tail(asked)) : ~Tail(asked)[i].alone
           /\ Head(asked) = asked[1] /\ Head(asked) \in Traversals
           /\ Head(asked).alone => Head(asked).way = "back" /\ at > 1
<1>1. asked \in Seq(Traversals) /\ Len(asked) <= MaxAsked /\ MaxAsked \in Nat
  BY AnalysisAssumption DEF AskedSound
<1>2. /\ Tail(asked) \in Seq(Traversals) /\ Len(Tail(asked)) = Len(asked) - 1
      /\ Len(asked) \in Nat \ {0}
      /\ \A i \in 1 .. Len(Tail(asked)) : Tail(asked)[i] = asked[i + 1]
      /\ Head(asked) = asked[1] /\ asked[1] \in Traversals
  BY <1>1
<1>3. ASSUME NEW i \in 1 .. Len(Tail(asked))
      PROVE  ~Tail(asked)[i].alone
  <2>1. i + 1 \in 1 .. Len(asked) /\ i + 1 # 1 /\ Tail(asked)[i] = asked[i + 1]
    BY <1>2
  <2> QED
    BY <2>1 DEF AskedSound
<1>4. 1 \in 1 .. Len(asked) /\ Len(Tail(asked)) <= MaxAsked
  BY <1>1, <1>2
<1> QED
  BY <1>2, <1>3, <1>4 DEF AskedSound

\* One more is asked for: alone only when it is the first.
LEMMA AskKeeps ==
    ASSUME AskedSound, NEW way \in {"back", "forward"}, NEW alone \in BOOLEAN,
           Ask(way, alone), at' = at, alone => asked = <<>> /\ way = "back" /\ at > 1
    PROVE  AskedSound'
<1> DEFINE new == [way |-> way, alone |-> alone]
<1>1. new \in Traversals /\ new.alone = alone /\ new.way = way
  BY DEF Traversals
<1> HIDE DEF new
<1>2. Len(asked) < MaxAsked /\ asked' = Append(asked, new)
  BY DEF Ask, new
<1>3. asked \in Seq(Traversals) /\ Len(asked) \in Nat /\ MaxAsked \in Nat
  BY AnalysisAssumption DEF AskedSound
<1>4. /\ asked' \in Seq(Traversals) /\ Len(asked') = Len(asked) + 1
      /\ \A i \in 1 .. Len(asked) : asked'[i] = asked[i]
      /\ asked'[Len(asked) + 1] = new
  BY <1>1, <1>2, <1>3, AppendProperties
<1>5. Len(asked') <= MaxAsked
  BY <1>2, <1>3, <1>4
<1>6. ASSUME NEW i \in 1 .. Len(asked'), asked'[i].alone
      PROVE  i = 1 /\ asked'[i].way = "back" /\ at' > 1
  <2>1. CASE i \in 1 .. Len(asked)
    BY <1>4, <1>6, <2>1 DEF AskedSound
  <2>2. CASE i = Len(asked) + 1
    <3>1. alone /\ asked'[i].way = way
      BY <1>1, <1>4, <1>6, <2>2
    <3>2. Len(asked) = 0
      BY <3>1
    <3> QED
      BY <2>2, <3>1, <3>2
  <2>3. i \in 1 .. Len(asked) \/ i = Len(asked) + 1
    BY <1>3, <1>4
  <2> QED
    BY <2>1, <2>2, <2>3
<1> QED
  BY <1>4, <1>5, <1>6 DEF AskedSound

\* The sheet of a page that is gone is gone, and so is its mark in the history.
LEMMA UnmountedSheet ==
    ASSUME SheetSound, Unmount, at' = at, asked' \in {asked, <<>>}
    PROVE  SheetSound'
<1>1. /\ entries' = IF marker THEN [entries EXCEPT ![at] = FALSE] ELSE entries
      /\ marker' = FALSE /\ opened' = None /\ detail' = None /\ lookups' = Abandoned(lookups)
  BY DEF Unmount
<1>2. /\ lookups' \subseteq [store : Store, live : BOOLEAN]
      /\ \A l \in lookups' : ~l.live
  BY <1>1, AbandonedAre DEF SheetSound
<1>3. entries' \in Seq(BOOLEAN) /\ Len(entries') = Len(entries) /\ ~entries'[1]
  <2>1. entries \in Seq(BOOLEAN) /\ at \in 1 .. Len(entries) /\ ~entries[1]
    BY DEF SheetSound
  <2> DEFINE cleared == [entries EXCEPT ![at] = FALSE]
  <2>2. cleared \in Seq(BOOLEAN) /\ Len(cleared) = Len(entries) /\ ~cleared[1]
    BY <2>1, ExceptSeq, LenProperties
  <2> HIDE DEF cleared
  <2>3. entries' = IF marker THEN cleared ELSE entries
    BY <1>1 DEF cleared
  <2> QED
    BY <2>1, <2>2, <2>3
<1>4. AskedSound'
  <2>1. CASE asked' = asked
    BY <2>1 DEF SheetSound, AskedSound
  <2>2. CASE asked' = <<>>
    BY <2>2, NothingAsked DEF AskedSound
  <2> QED
    BY <2>1, <2>2
<1> QED
  BY <1>1, <1>2, <1>3, <1>4 DEF SheetSound

\* Leaving the view keeps it: the page forgets its state and unmarks the history.
LEMMA UnmountKeeps ==
    ASSUME IInv, LeaveView \/ EndSession, acts' = acts + 1
    PROVE  IInv'
<1>0. Act /\ Unmount /\ (UNCHANGED memory \/ Forgotten)
  BY DEF LeaveView, EndSession
<1>1. /\ on' = FALSE /\ changed' = FALSE /\ unflushed' = TRUE
      /\ UNCHANGED <<served, flight, held, retries, search, ranking, at, asked>>
  BY DEF LeaveView, EndSession, Act, Unmount
<1>2. Types'
  <2>1. /\ served \in 1 .. MaxPublication /\ MaxPublication \in Nat
        /\ revision \in 0 .. acts /\ acts \in Nat
    BY AnalysisAssumption DEF IInv, Types, MemoryTypes
  <2>2. 0 \in 0 .. served /\ 0 \in 0 .. acts + 1 /\ revision \in 0 .. acts + 1 /\ acts + 1 \in Nat
    BY <2>1
  <2>3. MemoryTypes'
    BY <1>0, <1>1, <2>2, AnalysisAssumption DEF IInv, Types, MemoryTypes, memory, Forgotten
  <2>4. LocalTypes' /\ HookTypes'
    BY <1>1 DEF IInv, Types, LocalTypes, HookTypes
  <2> QED
    BY <2>3, <2>4 DEF Types
<1>3. RankingSound'
  BY <1>0, <1>1 DEF IInv, HooksSound, RankingSound, memory, Forgotten
<1>4. FirstReadSound'
  BY <1>1, FirstReadIs DEF FirstReadSound
<1>5. SheetSound'
  BY <1>0, <1>1, UnmountedSheet DEF IInv
<1> QED
  BY <1>0, <1>2, <1>3, <1>4, <1>5, ActKeeps

-----------------------------------------------------------------------------
(* A page without a history.                                               *)

\* What a document begins with, and what is left of one whose session was ended.
Blanked ==
    /\ served \in Nat /\ publication = 0 /\ applied = None
    /\ on = FALSE /\ unflushed = FALSE
    /\ retries = [s \in Slot |-> 0]
    /\ search = FirstSearch /\ ranking = FirstRanking
    /\ flight = [s \in Slot |-> NoFlight]
    /\ held = [s \in Slot |-> NothingHeld]

\* A hook without a request and without an answer.
LEMMA NothingIs ==
    /\ NoFlight \in Flights /\ NoFlight.key = NoKey /\ NoFlight.sent = FALSE /\ NoFlight.since = 0
    /\ NothingHeld \in Holdings /\ NothingHeld.key = NoKey
    /\ NothingHeld.answer.kind = "none" /\ NothingHeld.answer.pub = 0
BY NoKeyFields DEF NoFlight, NothingHeld, NoAnswer, Flights, Holdings, Answers

\* Hooks that have read nothing are sound.
LEMMA BlankSound == Blanked => LocalTypes /\ HookTypes /\ HooksSound
<1> SUFFICES ASSUME Blanked
             PROVE  LocalTypes /\ HookTypes /\ HooksSound
  OBVIOUS
<1>1. MaxPublication \in Nat \ {0} /\ Pages \in Nat \ {0} /\ "summary" \in Tab
  BY AnalysisAssumption
<1>2. ranking.cursors = <<NoContext>> /\ ranking.index = 1 /\ ranking.sort = None
      /\ ranking = [sort |-> None, cursors |-> <<NoContext>>, index |-> 1]
  BY DEF Blanked, FirstRanking
<1>3. LocalTypes
  <2>1. Len(ranking.cursors) = 1 /\ ranking.cursors \in Seq(Context)
    BY <1>2, NoKeyFields
  <2>2. ranking \in [sort : Text \union {None}, cursors : Seq(Context), index : Nat]
    BY <1>2, <2>1
  <2>3. ranking.index \in 1 .. Len(ranking.cursors) /\ Len(ranking.cursors) <= Pages
    BY <1>1, <1>2, <2>1
  <2>4. search \in [text : Text \union {None}, page : 1 .. Pages, position : Context]
    BY <1>1, NoKeyFields DEF Blanked, FirstSearch
  <2>5. retries \in [Slot -> Nat]
    BY DEF Blanked
  <2> QED
    BY <2>2, <2>3, <2>4, <2>5 DEF LocalTypes
<1>4. \A s \in Slot : flight[s] = NoFlight /\ held[s] = NothingHeld
  BY DEF Blanked
<1>5. HookTypes
  <2>1. flight \in [Slot -> Flights] /\ held \in [Slot -> Holdings]
    BY NothingIs DEF Blanked
  <2> QED
    BY <1>4, <2>1, NothingIs DEF HookTypes, Blanked
<1>6. AnswersSound /\ CursorsMatch /\ DemandsCurrent /\ Answered
  BY <1>4, NothingIs, NoKeyFields DEF AnswersSound, CursorsMatch, DemandsCurrent, Answered
<1>7. RankingSound
  BY DEF Blanked, RankingSound
<1>8. FirstReadSound
  <2>1. ~on /\ "bootstrap" \in Slot
    BY WantedIs DEF Blanked
  <2>2. ~BootstrapKey.wanted
    BY <2>1, FirstReadIs
  <2> QED
    BY <1>4, <2>1, <2>2, NothingIs DEF FirstReadSound
<1> QED
  BY <1>3, <1>5, <1>6, <1>7, <1>8 DEF HooksSound

\* So are those of the document that is come back to.
LEMMA BlankHooks == Blanked' => LocalTypes' /\ HookTypes' /\ HooksSound'
BY BlankSound, PTL

-----------------------------------------------------------------------------
(* The sheet and the history.                                              *)

\* What only concerns the sheet leaves the hooks as they are.
LEMMA HooksStay ==
    ASSUME IInv, UNCHANGED <<served, memory, on, local, flight, held, unflushed>>,
           acts' \in {acts, acts + 1}, SheetSound'
    PROVE  IInv'
<1>1. UNCHANGED <<served, publication, applied, revision, draft, tab, on, changed, retries,
                  search, ranking, flight, held, unflushed>>
  BY DEF memory, local
<1>2. Types'
  <2>1. revision \in 0 .. acts /\ acts \in Nat
    BY DEF IInv, Types, MemoryTypes
  <2>2. revision \in 0 .. acts' /\ acts' \in Nat
    BY <2>1
  <2> QED
    BY <1>1, <2>2 DEF IInv, Types, MemoryTypes, LocalTypes, HookTypes
<1>3. BootstrapKey' = BootstrapKey
  BY <1>1 DEF BootstrapKey
<1>4. Publication' = Publication
  BY <1>1, <1>3 DEF Publication, Bootstrap, ShownUnder
<1>5. HooksSound'
  <2>1. AnswersSound'
    BY <1>1 DEF IInv, HooksSound, AnswersSound
  <2>2. CursorsMatch'
    BY <1>1 DEF IInv, HooksSound, CursorsMatch
  <2>3. RankingSound'
    BY <1>1 DEF IInv, HooksSound, RankingSound
  <2>4. FirstReadSound'
    BY <1>1, <1>3 DEF IInv, HooksSound, FirstReadSound, Spent
  <2>5. DemandsCurrent'
    BY <1>1, <1>4 DEF IInv, HooksSound, DemandsCurrent
  <2>6. Answered'
    BY <1>1 DEF IInv, HooksSound, Answered
  <2> QED
    BY <2>1, <2>2, <2>3, <2>4, <2>5, <2>6 DEF IInv, HooksSound
<1> QED
  BY <1>2, <1>5 DEF IInv

\* Opening a sheet keeps it (useStoreContext, Detail).
LEMMA OpenKeeps ==
    ASSUME IInv, acts' = acts + 1, NEW x \in Store, Open(x)
    PROVE  IInv'
<1> DEFINE Lookup == [store : Store, live : BOOLEAN]
<1>1. /\ on /\ opened = None /\ opened' = x /\ detail' = None
      /\ lookups' = Abandoned(lookups) \union {[store |-> x, live |-> TRUE]}
      /\ UNCHANGED <<served, memory, on, local, flight, held, unflushed, asked>>
  BY DEF Open
<1>2. x # None
  BY AnalysisAssumption
<1>3. /\ marker' = TRUE /\ entries' = Pushed /\ at' = at + 1
  BY <1>1 DEF Open, IInv, SheetSound
<1>4. entries \in Seq(BOOLEAN) /\ at \in 1 .. Len(entries) /\ Len(entries) \in Nat /\ ~entries[1]
  BY LenProperties DEF IInv, SheetSound
<1>5. entries' \in Seq(BOOLEAN) /\ Len(entries') = at + 1 /\ entries'[at + 1] = TRUE /\ ~entries'[1]
  <2> DEFINE front == SubSeq(entries, 1, at)
  <2>1. \A i \in 1 .. at : entries[i] \in BOOLEAN
    BY <1>4, ElementOfSeq
  <2>2. front \in Seq(BOOLEAN) /\ Len(front) = at /\ front[1] = entries[1]
    BY <1>4, <2>1, SubSeqProperties
  <2> HIDE DEF front
  <2>3. entries' = Append(front, TRUE)
    BY <1>3 DEF Pushed, front
  <2>4. front \in Seq(BOOLEAN) /\ TRUE \in BOOLEAN /\ at \in Nat /\ 1 \in 1 .. Len(front)
    BY <1>4, <2>2
  <2>5. /\ entries' \in Seq(BOOLEAN) /\ Len(entries') = Len(front) + 1
        /\ entries'[Len(front) + 1] = TRUE /\ entries'[1] = front[1]
    BY <2>3, <2>4, AppendProperties
  <2> QED
    BY <1>4, <2>2, <2>5
<1>6. lookups' \subseteq Lookup /\ \A l \in lookups' : l.live => l.store = x
  <2>1. Abandoned(lookups) \subseteq Lookup /\ \A l \in Abandoned(lookups) : ~l.live
    BY AbandonedAre DEF IInv, SheetSound
  <2> DEFINE fresh == [store |-> x, live |-> TRUE]
  <2>2. fresh \in Lookup /\ fresh.store = x
    OBVIOUS
  <2>3. lookups' = Abandoned(lookups) \union {fresh}
    BY <1>1
  <2> HIDE DEF fresh, Lookup
  <2>4. lookups' \subseteq Lookup
    BY <2>1, <2>2, <2>3
  <2>5. \A l \in lookups' : l.live => l.store = x
    BY <2>1, <2>2, <2>3
  <2> QED
    BY <2>4, <2>5
<1>7. SheetSound'
  <2>1. at + 1 \in 1 .. Len(entries') /\ at + 1 > 1
    BY <1>4, <1>5
  <2>2. AskedSound'
    BY <1>1, <1>3, <2>1 DEF IInv, SheetSound, AskedSound
  <2> QED
    BY <1>1, <1>2, <1>3, <1>5, <1>6, <2>1, <2>2 DEF SheetSound
<1> QED
  BY <1>1, <1>7, HooksStay

\* The row of a sheet, or that it cannot be had, keeps it.
LEMMA AnswerKeeps ==
    ASSUME IInv, acts' = acts, NEW l \in lookups, Answer(l)
    PROVE  IInv'
<1>1. /\ lookups' = lookups \ {l}
      /\ UNCHANGED <<served, memory, on, local, flight, held, unflushed>>
      /\ UNCHANGED <<opened, marker, entries, at, asked>>
  BY DEF Answer
<1>2. PICK found \in {l.store, "failed"} : detail' = IF l.live THEN found ELSE detail
  BY DEF Answer
<1>3. l \in [store : Store, live : BOOLEAN] /\ (l.live => opened # None /\ l.store = opened)
  BY DEF IInv, SheetSound
<1>4. l.live => detail' \in {opened, "failed"} /\ detail' # None
  BY <1>2, <1>3, AnalysisAssumption
<1>5. ~l.live => detail' = detail /\ l # [store |-> opened, live |-> TRUE]
  BY <1>2
<1>6. AskedSound'
  BY <1>1 DEF IInv, SheetSound, AskedSound
<1>7. SheetSound'
  BY <1>1, <1>3, <1>4, <1>5, <1>6 DEF IInv, SheetSound
<1> QED
  BY <1>1, <1>7, HooksStay

\* A sheet that is closed leaves nothing that could open it again.
LEMMA ClosedKeeps ==
    ASSUME IInv, acts' \in {acts, acts + 1}, CloseDetail, marker' = FALSE,
           UNCHANGED <<served, memory, on, local, flight, held, unflushed, entries>>,
           at' \in 1 .. Len(entries), AskedSound'
    PROVE  IInv'
<1>1. opened' = None /\ detail' \in {None, "failed"} /\ lookups' = Abandoned(lookups)
  BY DEF CloseDetail
<1>2. lookups' \subseteq [store : Store, live : BOOLEAN] /\ \A l \in lookups' : ~l.live
  BY <1>1, AbandonedAre DEF IInv, SheetSound
<1>3. SheetSound'
  BY <1>1, <1>2 DEF IInv, SheetSound
<1> QED
  BY <1>3, HooksStay

\* Asking for a traversal keeps it ("Retour", the browser's buttons).
LEMMA AskingKeeps ==
    ASSUME IInv, acts' \in {acts, acts + 1}, Back \/ Browse
    PROVE  IInv'
<1>0. /\ UNCHANGED <<served, memory, on, local, flight, held, unflushed, entries>>
      /\ UNCHANGED <<marker, at>>
  BY DEF Back, Browse
<1>1. entries \in Seq(BOOLEAN) /\ at \in 1 .. Len(entries) /\ ~entries[1] /\ AskedSound
  BY DEF IInv, SheetSound
<1>2. CASE Back
  <2>1. marker /\ entries[at]
    BY <1>2 DEF Back, IInv, SheetSound
  <2>2. at > 1
    BY <1>1, <2>1
  <2>3. Ask("back", asked = <<>>) /\ UNCHANGED <<opened, detail, lookups>>
    BY <1>2, <2>1 DEF Back
  <2>4. AskedSound'
    BY <1>0, <1>1, <2>2, <2>3, AskKeeps
  <2> QED
    BY <1>0, <2>3, <2>4, HooksStay DEF IInv, SheetSound
<1>3. CASE Browse
  <2>1. UNCHANGED <<opened, detail, lookups>> /\ \E way \in {"back", "forward"} : Ask(way, FALSE)
    BY <1>3 DEF Browse
  <2>2. AskedSound'
    BY <1>0, <1>1, <2>1, AskKeeps
  <2> QED
    BY <1>0, <2>1, <2>2, HooksStay DEF IInv, SheetSound
<1> QED
  BY <1>2, <1>3

\* Coming to another entry of the page keeps it (pop).
LEMMA ArriveKeeps ==
    ASSUME IInv, acts' = acts, asked # <<>>, Arrive
    PROVE  IInv'
<1>1. /\ UNCHANGED <<served, memory, on, local, flight, held, unflushed, entries>>
      /\ at' \in DOMAIN entries /\ asked' = Tail(asked) /\ PopState
  BY DEF Arrive
<1>2. entries \in Seq(BOOLEAN) /\ DOMAIN entries = 1 .. Len(entries)
  BY LenProperties DEF IInv, SheetSound
<1>3. AskedSound'
  BY <1>1, NextAsked DEF IInv, SheetSound, AskedSound
<1>4. CASE on /\ marker
  <2>1. marker' = FALSE /\ CloseDetail
    BY <1>1, <1>4 DEF PopState
  <2> QED
    BY <1>1, <1>2, <1>3, <2>1, ClosedKeeps
<1>5. CASE ~(on /\ marker)
  <2>1. UNCHANGED <<marker, opened, detail, lookups>> /\ ~marker
    BY <1>1, <1>5 DEF PopState, IInv, SheetSound
  <2>2. SheetSound'
    BY <1>1, <1>2, <1>3, <2>1 DEF IInv, SheetSound
  <2> QED
    BY <1>1, <2>2, HooksStay
<1> QED
  BY <1>4, <1>5

\* A document that is left keeps nothing, or there is none to go to
\* (leaveDocument, which ends the session).
LEMMA DepartKeeps ==
    ASSUME IInv, acts' = acts, asked # <<>>, Depart
    PROVE  IInv'
<1>1. served' = served /\ at' = at
  BY DEF Depart
<1>2. CASE /\ asked' = Tail(asked)
           /\ UNCHANGED <<memory, on, local, flight, held, unflushed,
                          opened, detail, lookups, marker, entries>>
  <2>1. AskedSound'
    BY <1>1, <1>2, NextAsked DEF IInv, SheetSound, AskedSound
  <2>2. SheetSound'
    BY <1>1, <1>2, <2>1 DEF IInv, SheetSound
  <2> QED
    BY <1>1, <1>2, <2>2, HooksStay
<1>3. CASE /\ asked' = <<>> /\ unflushed' = FALSE
           /\ Forgotten /\ Unmount
           /\ retries' = [s \in Slot |-> 0]
           /\ search' = FirstSearch /\ ranking' = FirstRanking
           /\ flight' = [s \in Slot |-> NoFlight]
           /\ held' = [s \in Slot |-> NothingHeld]
  <2>1. /\ publication' = 0 /\ applied' = None /\ revision' = 0 /\ draft' = Empty
        /\ tab' = "summary" /\ on' = FALSE /\ changed' = FALSE
    BY <1>3 DEF Forgotten, Unmount
  <2>2. SheetSound'
    BY <1>1, <1>3, UnmountedSheet DEF IInv
  <2>3. MemoryTypes'
    <3>1. served \in 1 .. MaxPublication /\ acts \in Nat /\ MaxPublication \in Nat
      BY AnalysisAssumption DEF IInv, Types, MemoryTypes
    <3>2. 0 \in 0 .. served /\ 0 \in 0 .. acts
      BY <3>1
    <3> QED
      BY <1>1, <1>3, <2>1, <3>1, <3>2, AnalysisAssumption DEF MemoryTypes
  <2>4. Blanked'
    <3>1. served' \in Nat
      BY <1>1 DEF IInv, Types, MemoryTypes
    <3> QED
      BY <1>3, <2>1, <3>1 DEF Blanked
  <2> QED
    BY <2>2, <2>3, <2>4, BlankHooks DEF IInv, Types
<1> QED
  BY <1>2, <1>3 DEF Depart

-----------------------------------------------------------------------------
(* What the event loop and the service do.                                 *)

\* A publication keeps it: whatever was asked may yet be answered by it.
LEMMA PublishKeeps ==
    ASSUME IInv, acts' = acts, Publish
    PROVE  IInv'
<1>1. /\ served < MaxPublication /\ served' = served + 1
      /\ UNCHANGED <<publication, applied, revision, draft, tab, on, changed, retries, search,
                     ranking, flight, held, unflushed, sheet>>
  BY DEF Publish, memory, local
<1>2. Types'
  <2>1. MemoryTypes'
    <3>1. /\ served \in 1 .. MaxPublication /\ MaxPublication \in Nat /\ publication \in 0 .. served
      BY AnalysisAssumption DEF IInv, Types, MemoryTypes
    <3>2. served + 1 \in 1 .. MaxPublication /\ publication \in 0 .. served + 1
      BY <1>1, <3>1
    <3> QED
      BY <1>1, <3>2 DEF IInv, Types, MemoryTypes
  <2>2. HookTypes'
    <3>1. \A s \in Slot : /\ flight[s].since \in Nat /\ held[s].answer.pub \in Nat
                          /\ flight[s].since <= served /\ held[s].answer.pub <= served
      BY DEF IInv, Types, HookTypes, Flights, Holdings, Answers
    <3>2. \A s \in Slot : flight[s].since <= served + 1 /\ held[s].answer.pub <= served + 1
      BY <3>1 DEF IInv, Types, MemoryTypes
    <3> QED
      BY <1>1, <3>2 DEF IInv, Types, HookTypes
  <2> QED
    BY <1>1, <2>1, <2>2 DEF IInv, Types, LocalTypes
<1>3. BootstrapKey' = BootstrapKey
  BY <1>1 DEF BootstrapKey
<1>4. Publication' = Publication
  BY <1>1, <1>3 DEF Publication, Bootstrap, ShownUnder
<1>5. HooksSound'
  BY <1>1, <1>3, <1>4 DEF IInv, HooksSound, AnswersSound, CursorsMatch, RankingSound, FirstReadSound,
     Spent, DemandsCurrent, Answered
<1>6. SheetSound'
  BY <1>1, SheetStays DEF IInv
<1> QED
  BY <1>2, <1>5, <1>6 DEF IInv

\* An answer is values of the publication that was demanded, a conflict with what is
\* served, or an error.
LEMMA AnswersAre ==
    ASSUME NEW f, NEW answer \in AnswersTo(f), f.since \in Nat, served \in Nat
    PROVE  \/ /\ answer = Conflict
              /\ f.key.query.context.pub \notin {0, served}
           \/ /\ answer \in Answers /\ answer # Conflict /\ answer.kind \in {"data", "error"}
              /\ answer.pub <= served
              /\ answer.kind = "data" => f.key.query.context.pub \in {0, answer.pub}
              /\ answer.kind # "data" => answer.pub = 0
<1>1. CASE answer = Conflict
  <2>1. answer.kind = "conflict"
    BY <1>1 DEF Conflict
  <2>2. answer \in {a \in {Conflict} : f.key.query.context.pub \notin {0, served}}
    BY <2>1 DEF AnswersTo, Data, Error
  <2> QED
    BY <1>1, <2>2
<1>2. CASE answer = Error
  BY <1>2 DEF Error, Conflict, Answers
<1>3. CASE answer # Conflict /\ answer # Error
  <2>1. PICK p \in f.since .. served : answer = Data(p) /\ f.key.query.context.pub \in {0, answer.pub}
    BY <1>3 DEF AnswersTo
  <2>2. p \in Nat /\ p <= served
    BY <2>1
  <2>3. answer.kind = "data" /\ answer.pub = p /\ answer \in Answers
    BY <2>1, <2>2 DEF Data, Answers
  <2> QED
    BY <1>3, <2>1, <2>2, <2>3
<1> QED
  BY <1>1, <1>2, <1>3

\* A request that is answered is not out any more, under the same key.
LEMMA LandedIs ==
    ASSUME HookTypes, NEW s \in Slot,
           flight' = [flight EXCEPT ![s].sent = FALSE, ![s].since = 0]
    PROVE  /\ flight' \in [Slot -> Flights]
           /\ \A q \in Slot : flight'[q].key = flight[q].key
           /\ flight'[s].sent = FALSE /\ flight'[s].since = 0
           /\ \A q \in Slot \ {s} : flight'[q] = flight[q]
<1>1. flight[s] \in Flights
  BY DEF HookTypes
<1> DEFINE landed == [[flight[s] EXCEPT !.sent = FALSE] EXCEPT !.since = 0]
<1>2. landed \in Flights /\ landed.key = flight[s].key /\ landed.sent = FALSE /\ landed.since = 0
  BY <1>1 DEF Flights
<1> HIDE DEF landed
<1>3. flight' = [flight EXCEPT ![s] = landed]
  BY DEF landed, HookTypes
<1> QED
  BY <1>2, <1>3 DEF HookTypes

\* An answer keeps the invariant (useAnalysis, the page's reply to a conflict).
LEMMA DeliverKeeps ==
    ASSUME IInv, acts' = acts, NEW s \in Slot, Deliver(s)
    PROVE  /\ IInv'
           /\ changed' # changed => Publication \notin {0, served}
<1> DEFINE b == "bootstrap"
           k == flight[s].key
<1>1. /\ ~unflushed /\ flight[s].sent
      /\ flight' = [flight EXCEPT ![s].sent = FALSE, ![s].since = 0]
      /\ UNCHANGED <<served, publication, applied, revision, draft, tab, on, retries, search,
                     ranking, unflushed, sheet>>
  BY DEF Deliver, memory
<1>2. PICK answer \in AnswersTo(flight[s]) :
         IF answer = Conflict
         THEN changed' = TRUE /\ held' = held
         ELSE /\ held' = [held EXCEPT ![s] = [key |-> k, answer |-> answer]]
              /\ changed' = changed
  BY DEF Deliver
<1>3. /\ flight' \in [Slot -> Flights]
      /\ \A q \in Slot : flight'[q].key = flight[q].key
      /\ flight'[s].sent = FALSE /\ flight'[s].since = 0
      /\ \A q \in Slot \ {s} : flight'[q] = flight[q]
  BY <1>1, LandedIs DEF IInv, Types
<1>4. k \in Keys /\ k.wanted /\ flight[s].since \in Nat /\ served \in Nat
  BY <1>1 DEF IInv, Types, MemoryTypes, HookTypes, Flights, HooksSound, AnswersSound
<1>5. SheetSound' /\ RankingSound'
  BY <1>1, SheetStays, RankingStays DEF IInv, HooksSound
<1>6. CursorsMatch'
  BY <1>3 DEF IInv, HooksSound, CursorsMatch
<1>7. b \in Slot
  BY WantedIs
<1>8. \A q \in Slot : flight'[q].since <= served
  BY <1>3, <1>4 DEF IInv, Types, HookTypes
<1>9. MemoryTypes' /\ LocalTypes'
  BY <1>1, <1>2 DEF IInv, Types, MemoryTypes, LocalTypes
<1> HIDE DEF k
<1>10. CASE answer = Conflict
  <2>1. changed' = TRUE /\ held' = held
    BY <1>2, <1>10
  <2>2. Types'
    BY <1>1, <1>3, <1>8, <1>9, <2>1 DEF IInv, Types, HookTypes
  <2>3. AnswersSound'
    BY <1>3, <2>1 DEF IInv, HooksSound, AnswersSound
  <2>4. FirstReadSound'
    <3>1. ~BootstrapKey'.wanted
      BY <2>1, FirstReadIs
    <3>2. on => Spent(held[b].key)' /\ Spent(flight[b].key)'
      BY <1>1, <1>3, <1>7, <2>1 DEF IInv, HooksSound, FirstReadSound, Spent
    <3>3. ~on => ~flight[b].sent /\ held[b] = NothingHeld
      BY <1>1 DEF IInv, HooksSound, FirstReadSound
    <3>4. ~on => ~flight'[b].sent /\ held'[b] = NothingHeld
      BY <1>3, <1>7, <2>1, <3>3
    <3> QED
      BY <1>1, <3>1, <3>2, <3>4 DEF FirstReadSound
  <2>5. DemandsCurrent' /\ Answered'
    BY <2>1 DEF DemandsCurrent, Answered
  <2>6. changed' # changed => Publication \notin {0, served}
    <3>1. flight[s].key.query.context.pub \notin {0, served}
      <4>1. answer.kind = "conflict"
        BY <1>10 DEF Conflict
      <4> QED
        BY <1>4, <1>10, AnswersAre
    <3>2. ~changed => flight[s].key.query.context.pub \in {0, Publication}
      BY <1>1 DEF IInv, HooksSound, DemandsCurrent
    <3>3. changed \in BOOLEAN
      BY DEF IInv, Types, MemoryTypes
    <3> QED
      BY <2>1, <3>1, <3>2, <3>3
  <2> QED
    BY <1>5, <1>6, <2>2, <2>3, <2>4, <2>5, <2>6 DEF IInv, HooksSound
<1>11. CASE answer # Conflict
  <2>1. changed' = changed /\ held' = [held EXCEPT ![s] = [key |-> k, answer |-> answer]]
    BY <1>2, <1>11
  <2>2. /\ answer \in Answers /\ answer.kind \in {"data", "error"} /\ answer.pub <= served
        /\ answer.kind = "data" => k.query.context.pub \in {0, answer.pub}
        /\ answer.kind # "data" => answer.pub = 0
    BY <1>4, <1>11, AnswersAre DEF k
  <2>3. /\ held' \in [Slot -> Holdings]
        /\ held'[s].key = k /\ held'[s].answer = answer
        /\ \A q \in Slot \ {s} : held'[q] = held[q]
    <3>1. [key |-> k, answer |-> answer] \in Holdings
      BY <1>4, <2>2 DEF Holdings
    <3> QED
      BY <2>1, <3>1 DEF IInv, Types, HookTypes
  <2>4. Types'
    <3>1. \A q \in Slot : held'[q].answer.pub <= served
      BY <2>2, <2>3 DEF IInv, Types, HookTypes
    <3> QED
      BY <1>1, <1>3, <1>8, <1>9, <2>3, <3>1 DEF Types, HookTypes
  <2>5. AnswersSound'
    <3> SUFFICES ASSUME NEW q \in Slot
                 PROVE  /\ flight'[q].sent => flight'[q].key.wanted
                        /\ held'[q].answer.kind # "none" => held'[q].key.wanted
                        /\ held'[q].answer.kind = "data" =>
                              held'[q].key.query.context.pub \in {0, held'[q].answer.pub}
                        /\ held'[q].answer.kind # "data" => held'[q].answer.pub = 0
      BY DEF AnswersSound
    <3>1. CASE q = s
      BY <1>3, <1>4, <2>2, <2>3, <3>1
    <3>2. CASE q # s
      BY <1>3, <2>3, <3>2 DEF IInv, HooksSound, AnswersSound
    <3> QED
      BY <3>1, <3>2
  <2>6. Answered'
    <3> SUFFICES ASSUME NEW q \in Slot, flight'[q].key.wanted, ~flight'[q].sent, ~changed'
                 PROVE  held'[q].key = flight'[q].key /\ held'[q].answer.kind # "none"
      BY DEF Answered
    <3>1. CASE q = s
      BY <1>3, <2>2, <2>3, <3>1 DEF k
    <3>2. CASE q # s
      BY <1>3, <2>1, <2>3, <3>2 DEF IInv, HooksSound, Answered
    <3> QED
      BY <3>1, <3>2
  <2>7. BootstrapKey' = BootstrapKey
    BY <1>1, <2>1 DEF BootstrapKey
  <2>8. FirstReadSound'
    <3>1. FirstReadSound
      BY DEF IInv, HooksSound
    <3>2. CASE s # b
      BY <1>1, <1>3, <1>7, <2>3, <2>7, <3>1, <3>2 DEF FirstReadSound, Spent
    <3>3. CASE s = b
      <4>1. on
        BY <1>1, <3>1, <3>3 DEF FirstReadSound
      <4>2. Spent(k)
        BY <3>1, <3>3, <4>1 DEF FirstReadSound, k
      <4>3. held'[b].key = k /\ flight'[b].key = k /\ flight'[b].sent = FALSE
        BY <1>3, <1>7, <2>3, <3>3 DEF k
      <4>4. Spent(held[b].key)' /\ Spent(flight[b].key)'
        BY <1>1, <4>2, <4>3 DEF Spent
      <4> QED
        BY <1>1, <2>7, <4>1, <4>3, <4>4 DEF FirstReadSound
    <3> QED
      BY <3>2, <3>3
  <2>9. DemandsCurrent'
    <3> SUFFICES ASSUME ~changed, NEW q \in Slot, flight'[q].sent
                 PROVE  flight'[q].key.query.context.pub \in {0, Publication'}
      BY <2>1 DEF DemandsCurrent
    <3>1. flight[q].sent /\ flight'[q].key = flight[q].key
      BY <1>3
    <3>2. flight[q].key.query.context.pub \in {0, Publication}
      BY <1>1, <3>1 DEF IInv, HooksSound, DemandsCurrent
    <3>3. CASE publication # 0
      <4>1. Publication' = Publication
        BY <1>1, <3>3 DEF Publication
      <4> QED
        BY <3>1, <3>2, <4>1
    <3>4. CASE s # b
      <4>1. Publication' = Publication
        BY <1>1, <1>7, <2>3, <2>7, <3>4 DEF Publication, Bootstrap, ShownUnder
      <4> QED
        BY <3>1, <3>2, <4>1
    <3>5. CASE publication = 0 /\ s = b
      <4>1. held[b].key # BootstrapKey
        <5>1. BootstrapKey.wanted => held[b].key # BootstrapKey
          BY <1>1, <3>5 DEF IInv, HooksSound, FirstReadSound
        <5>2. on /\ ~changed => BootstrapKey.wanted
          BY DEF BootstrapKey, Key
        <5>3. on
          BY <1>1, <3>5 DEF IInv, HooksSound, FirstReadSound
        <5> QED
          BY <5>1, <5>2, <5>3
      <4>2. Publication = 0
        BY <3>5, <4>1 DEF Publication, Bootstrap, ShownUnder, NoAnswer
      <4> QED
        BY <3>1, <3>2, <4>2
    <3> QED
      BY <3>3, <3>4, <3>5
  <2> QED
    BY <1>5, <1>6, <2>1, <2>4, <2>5, <2>6, <2>8, <2>9 DEF IInv, HooksSound
<1> QED
  BY <1>10, <1>11

\* The effects of what was rendered keep it: whoever is gone has forgotten everything.
LEMMA EffectsKeep ==
    ASSUME IInv, acts' = acts, Effects
    PROVE  IInv'
<1> DEFINE b == "bootstrap"
<1>1. /\ unflushed' = FALSE
      /\ UNCHANGED <<served, publication, applied, revision, draft, tab, on, changed, sheet>>
      /\ flight' = [s \in Slot |->
                      IF flight[s].key = Wanted[s] THEN flight[s]
                      ELSE IF Wanted[s].wanted THEN [key |-> Wanted[s], sent |-> TRUE, since |-> served]
                      ELSE NoFlight]
      /\ held' = [s \in Slot |-> IF Kept(s) THEN held[s] ELSE NothingHeld]
      /\ retries' = [s \in Slot |-> IF Kept(s) THEN retries[s] ELSE 0]
      /\ search' = IF Kept("stores") THEN search ELSE FirstSearch
      /\ ranking' = IF Kept("block") THEN ranking ELSE FirstRanking
  BY DEF Effects, memory
<1>2. \A s \in Slot :
         /\ Wanted[s] \in Keys
         /\ Wanted[s].query.issued = Wanted[s].query.context
         /\ Wanted[s].wanted => on /\ ~changed
         /\ Wanted[s].query.context.pub \in {0, Publication}
  BY WantedSound DEF IInv, HooksSound
<1>3. /\ served \in Nat /\ \A s \in Slot : flight[s] \in Flights /\ flight[s].since <= served
      /\ \A s \in Slot : held[s] \in Holdings /\ held[s].answer.pub <= served
  BY DEF IInv, Types, MemoryTypes, HookTypes
<1>4. ASSUME NEW s \in Slot
      PROVE  /\ flight'[s] \in Flights /\ flight'[s].since <= served
             /\ \/ /\ flight'[s] = flight[s] /\ flight[s].key = Wanted[s]
                \/ /\ flight'[s].key = NoKey /\ ~flight'[s].sent /\ ~Wanted[s].wanted
                \/ /\ flight'[s].key = Wanted[s] /\ flight'[s].sent
                   /\ Wanted[s].wanted /\ flight[s].key # Wanted[s]
  <2>1. CASE flight[s].key = Wanted[s]
    <3>1. flight'[s] = flight[s]
      BY <1>1, <2>1
    <3> QED
      BY <1>3, <2>1, <3>1
  <2>2. CASE flight[s].key # Wanted[s] /\ ~Wanted[s].wanted
    <3>1. flight'[s] = NoFlight
      BY <1>1, <2>2
    <3> QED
      BY <1>3, <2>2, <3>1, NothingIs
  <2>3. CASE flight[s].key # Wanted[s] /\ Wanted[s].wanted
    <3> DEFINE sent == [key |-> Wanted[s], sent |-> TRUE, since |-> served]
    <3>1. flight'[s] = sent
      BY <1>1, <2>3
    <3>2. sent \in Flights /\ sent.key = Wanted[s] /\ sent.sent = TRUE /\ sent.since = served
      BY <1>2, <1>3 DEF Flights
    <3> HIDE DEF sent
    <3> QED
      BY <1>3, <2>3, <3>1, <3>2
  <2> QED
    BY <2>1, <2>2, <2>3
<1>5. ASSUME NEW s \in Slot
      PROVE  held'[s] \in Holdings /\ held'[s].answer.pub <= served /\ held'[s] \in {held[s], NothingHeld}
  <2>1. held'[s] = IF Kept(s) THEN held[s] ELSE NothingHeld
    BY <1>1
  <2> QED
    BY <1>3, <2>1, NothingIs
<1>6. Kept(b) = on /\ b \in Slot /\ on \in BOOLEAN
  BY WantedIs DEF Kept, IInv, Types, MemoryTypes
<1>7. \A s \in Slot : flight[s].key = Wanted[s] /\ Wanted[s].wanted => Kept(s)
  BY <1>2 DEF Kept
<1>8. applied' # None => publication' # 0
  BY <1>1 DEF IInv, HooksSound, RankingSound
<1>9. RankingSound' /\ LocalTypes'
  <2>1. retries' \in [Slot -> Nat]
    BY <1>1 DEF IInv, Types, LocalTypes
  <2>2. search' \in [text : Text \union {None}, page : 1 .. Pages, position : Context]
    <3>1. FirstSearch \in [text : Text \union {None}, page : 1 .. Pages, position : Context]
      <4>1. 1 \in 1 .. Pages
        BY AnalysisAssumption
      <4> QED
        BY <4>1, NoKeyFields DEF FirstSearch
    <3> QED
      BY <1>1, <3>1 DEF IInv, Types, LocalTypes
  <2>3. CASE ranking' = ranking
    BY <1>1, <2>1, <2>2, <2>3, RankingStays DEF IInv, HooksSound, Types, LocalTypes
  <2>4. CASE ranking' = FirstRanking
    <3>1. /\ RankingSound'
          /\ ranking' \in [sort : Text \union {None}, cursors : Seq(Context), index : Nat]
          /\ ranking'.index \in 1 .. Len(ranking'.cursors) /\ Len(ranking'.cursors) <= Pages
      BY <1>8, <2>4, RankingBegins
    <3> QED
      BY <2>1, <2>2, <3>1 DEF LocalTypes
  <2> QED
    BY <1>1, <2>3, <2>4
<1>10. Types'
  <2>1. MemoryTypes'
    BY <1>1 DEF IInv, Types, MemoryTypes
  <2>2. flight' \in [Slot -> Flights] /\ held' \in [Slot -> Holdings]
    BY <1>1, <1>4, <1>5
  <2>3. HookTypes'
    BY <1>1, <1>4, <1>5, <2>2 DEF HookTypes
  <2> QED
    BY <1>9, <2>1, <2>3 DEF Types
<1>11. AnswersSound'
  <2> SUFFICES ASSUME NEW s \in Slot
               PROVE  /\ flight'[s].sent => flight'[s].key.wanted
                      /\ held'[s].answer.kind # "none" => held'[s].key.wanted
                      /\ held'[s].answer.kind = "data" =>
                            held'[s].key.query.context.pub \in {0, held'[s].answer.pub}
                      /\ held'[s].answer.kind # "data" => held'[s].answer.pub = 0
    BY DEF AnswersSound
  <2>1. flight'[s].sent => flight'[s].key.wanted
    BY <1>4 DEF IInv, HooksSound, AnswersSound
  <2>2. CASE held'[s] = held[s]
    BY <2>1, <2>2 DEF IInv, HooksSound, AnswersSound
  <2>3. CASE held'[s] = NothingHeld
    BY <2>1, <2>3, NothingIs
  <2> QED
    BY <1>5, <2>2, <2>3
<1>12. CursorsMatch'
  BY <1>2, <1>4, NoKeyFields DEF CursorsMatch
<1>13. Answered'
  <2> SUFFICES ASSUME NEW s \in Slot, flight'[s].key.wanted, ~flight'[s].sent, ~changed'
               PROVE  held'[s].key = flight'[s].key /\ held'[s].answer.kind # "none"
    BY DEF Answered
  <2>1. flight'[s] = flight[s] /\ flight[s].key = Wanted[s]
    BY <1>4, NoKeyFields
  <2>2. held'[s] = held[s]
    BY <1>1, <1>7, <2>1
  <2> QED
    BY <1>1, <2>1, <2>2 DEF IInv, HooksSound, Answered
<1>14. BootstrapKey' = BootstrapKey
  <2>1. on => retries'[b] = retries[b]
    BY <1>1, <1>6
  <2> QED
    BY <1>1, <2>1 DEF BootstrapKey
<1>15. Wanted[b] = BootstrapKey
  BY WantedIs
<1>16. held'[b] = IF on THEN held[b] ELSE NothingHeld
  BY <1>1, <1>6
<1>17. FirstReadSound'
  <2>0. FirstReadSound
    BY DEF IInv, HooksSound
  <2>1. CASE on
    <3>1. held'[b] = held[b] /\ retries'[b] = retries[b]
      BY <1>1, <1>6, <2>1
    <3>2. retries[b] \in Nat /\ (BootstrapKey.wanted => /\ BootstrapKey.retry = retries[b]
                                                        /\ BootstrapKey.query.context.pub = publication)
      BY <1>6, FirstReadIs DEF IInv, Types, LocalTypes
    <3>7. publication' = publication
      BY ONLY <1>1
    <3>3. Spent(held[b].key)'
      BY <1>1, <2>0, <2>1, <3>1 DEF FirstReadSound, Spent
    <3>4. Spent(flight[b].key)'
      <4>1. CASE flight'[b] = flight[b]
        BY <1>1, <2>0, <2>1, <3>1, <4>1 DEF FirstReadSound, Spent
      <4>2. CASE flight'[b].key = NoKey
        BY <4>2, NoKeyFields DEF Spent
      <4>3. CASE flight'[b].key = BootstrapKey
        BY ONLY <3>1, <3>2, <3>7, <4>3 DEF Spent
      <4> QED
        BY <1>4, <1>6, <1>15, <4>1, <4>2, <4>3
    <3>5. BootstrapKey'.wanted /\ held'[b].key = BootstrapKey' =>
             flight'[b].key = BootstrapKey' /\ ~flight'[b].sent
      BY <1>4, <1>6, <1>14, <1>15, <2>0, <3>1 DEF FirstReadSound
    <3> QED
      BY <1>1, <2>1, <3>3, <3>4, <3>5 DEF FirstReadSound
  <2>2. CASE ~on
    <3>1. ~BootstrapKey'.wanted
      BY <1>1, <2>2, FirstReadIs
    <3>2. ~flight'[b].sent
      <4>1. ~Wanted[b].wanted
        BY <1>2, <1>6, <2>2
      <4> QED
        BY <1>4, <1>6, <4>1 DEF IInv, HooksSound, AnswersSound
    <3> QED
      BY <1>1, <1>16, <2>2, <3>1, <3>2 DEF FirstReadSound
  <2> QED
    BY <2>1, <2>2
<1>18. DemandsCurrent'
  <2> SUFFICES ASSUME NEW s \in Slot, flight'[s].sent
               PROVE  flight'[s].key.query.context.pub \in {0, Publication'}
    BY DEF DemandsCurrent
  <2>1. flight'[s].key = Wanted[s]
    BY <1>4
  <2>2. on
    BY <1>2, <1>11, <2>1 DEF AnswersSound
  <2>3. Publication' = Publication
    BY <1>1, <1>14, <1>16, <2>2 DEF Publication, Bootstrap, ShownUnder
  <2> QED
    BY <1>2, <2>1, <2>3
<1>19. SheetSound'
  BY <1>1, SheetStays DEF IInv
<1> QED
  BY <1>9, <1>10, <1>11, <1>12, <1>13, <1>17, <1>18, <1>19 DEF IInv, HooksSound

-----------------------------------------------------------------------------
(* The invariant, and what it says.                                        *)

\* A workspace begins with nothing.
LEMMA InitInvariant ==
    ASSUME Init
    PROVE  IInv
<1>1. MaxPublication \in Nat \ {0} /\ Pages \in Nat \ {0} /\ "summary" \in Tab
  BY AnalysisAssumption
<1>2. MemoryTypes
  <2>1. 1 \in 1 .. MaxPublication /\ 0 \in 0 .. 1 /\ 0 \in 0 .. 0
    BY <1>1
  <2>2. served = 1 /\ acts = 0 /\ publication = 0 /\ revision = 0
    BY DEF Init
  <2>3. applied = None /\ draft = Empty /\ tab = "summary"
        /\ on = FALSE /\ changed = FALSE /\ unflushed = FALSE
    BY DEF Init
  <2> QED
    BY <1>1, <2>1, <2>2, <2>3 DEF MemoryTypes
<1>3. served \in Nat
  BY DEF Init
<1>4. Blanked
  BY <1>3 DEF Init, Blanked
<1>5. SheetSound
  <2>1. entries = <<FALSE>> /\ entries \in Seq(BOOLEAN) /\ Len(entries) = 1 /\ entries[1] = FALSE
    BY DEF Init
  <2>2. /\ opened = None /\ detail = None /\ lookups = {} /\ marker = FALSE
        /\ at = 1 /\ asked = <<>>
    BY DEF Init
  <2>3. at \in 1 .. Len(entries)
    BY <2>1, <2>2
  <2>4. AskedSound
    <3>1. asked \in Seq(Traversals) /\ Len(asked) = 0 /\ Len(asked) <= MaxAsked
      BY <2>2, NothingAsked
    <3> QED
      BY <3>1 DEF AskedSound
  <2> QED
    BY <2>1, <2>2, <2>3, <2>4 DEF SheetSound
<1> QED
  BY <1>2, <1>4, <1>5, BlankSound DEF IInv, Types

\* Every act, effect, answer and publication keeps it.
LEMMA NextInvariant ==
    ASSUME IInv, [Next]_vars
    PROVE  IInv'
<1>1. ASSUME acts' = acts + 1, (LeaveView \/ EndSession)
      PROVE  IInv'
  BY <1>1, UnmountKeeps
<1>2. CASE User
  BY <1>1, <1>2, RetryKeeps, ReloadKeeps, ApplyKeeps, FormKeeps, RankingKeeps, OpenKeeps, AskingKeeps,
     EnterKeeps DEF User
<1>3. CASE Publish /\ UNCHANGED acts
  BY <1>3, PublishKeeps
<1>4. CASE Turn /\ UNCHANGED acts
  BY <1>4, EffectsKeep, ArriveKeeps, DepartKeeps, DeliverKeeps, AnswerKeeps DEF Turn, Traversed
<1>5. CASE UNCHANGED vars
  <2>1. SheetSound'
    BY <1>5, SheetStays DEF IInv, vars
  <2> QED
    BY <1>5, <2>1, HooksStay DEF vars
<1> QED
  BY <1>2, <1>3, <1>4, <1>5 DEF Next

\* The invariant holds throughout.
THEOREM Invariance == Spec => []IInv
<1>1. IInv /\ [Next]_vars => IInv'
  BY NextInvariant
<1> QED
  BY <1>1, InitInvariant, PTL DEF Spec

\* The variables have their types (useAnalysis, FilteredAnalysis.tsx).
THEOREM TypeCorrect == Spec => []TypeOK
<1>1. ASSUME IInv
      PROVE  TypeOK
  <2>1. /\ DOMAIN ranking.cursors = 1 .. Len(ranking.cursors)
        /\ DOMAIN entries = 1 .. Len(entries)
    BY <1>1, LenProperties DEF IInv, Types, LocalTypes, SheetSound
  <2>2. ASSUME NEW s \in Slot
        PROVE  flight[s].since \in 0 .. served /\ held[s].answer.kind \in {"none", "data", "error"}
    <3>1. flight[s].since \in Nat /\ held[s].answer \in Answers /\ flight[s].since <= served
      BY <1>1 DEF IInv, Types, HookTypes, Flights, Holdings
    <3> QED
      BY <1>1, <3>1 DEF Answers, IInv, Types, MemoryTypes
  <2> QED
    BY <1>1, <2>1, <2>2 DEF IInv, Types, MemoryTypes, LocalTypes, SheetSound, AskedSound, TypeOK
<1> QED
  BY <1>1, Invariance, PTL

\* What is shown at one time is of one publication and of the filters applied last.
THEOREM ShownOfOnePublication == Spec => []OnePublication
<1>1. ASSUME IInv
      PROVE  OnePublication
  <2>1. ASSUME NEW s \in Slot, Shown(s).kind = "data"
        PROVE  /\ held[s].key = Wanted[s] /\ Wanted[s].wanted /\ Shown(s) = held[s].answer
               /\ held[s].key.query.context.pub \in {0, held[s].answer.pub}
    <3>1. Shown(s) = held[s].answer /\ held[s].key = Wanted[s]
      BY <2>1 DEF Shown, ShownUnder, NoAnswer
    <3> QED
      BY <1>1, <2>1, <3>1 DEF IInv, HooksSound, AnswersSound
  <2>2. ASSUME NEW s \in Slot, Shown(s).kind = "data"
        PROVE  Shown(s).pub = Publication
    <3>1. CASE s # "bootstrap"
      <4>1. Publication # 0 /\ Wanted[s].query.context.pub = Publication
        BY <1>1, <2>1, <2>2, <3>1, WantedSound DEF IInv, HooksSound
      <4> QED
        BY <2>1, <2>2, <4>1
    <3>2. CASE s = "bootstrap"
      <4>1. Shown(s) = Bootstrap
        BY <3>2, WantedIs DEF Shown, Bootstrap
      <4>2. CASE publication = 0
        BY <4>1, <4>2 DEF Publication
      <4>3. CASE publication # 0
        <5>1. Wanted[s].query.context.pub = publication
          BY <2>1, <2>2, <3>2, WantedIs, FirstReadIs
        <5> QED
          BY <2>1, <2>2, <4>3, <5>1 DEF Publication
      <4> QED
        BY <4>2, <4>3
    <3> QED
      BY <3>1, <3>2
  <2>3. applied # None => publication # 0
    BY <1>1 DEF IInv, HooksSound, RankingSound
  <2>4. ASSUME NEW s \in {"summary", "block"}, Shown(s).kind = "data"
        PROVE  held[s].key.query.context.filter = applied /\ held[s].key.owner.revision = revision
    <3>1. s \in Slot
      BY WantedIs
    <3> QED
      BY <1>1, <2>1, <2>4, <3>1, WantedSound DEF IInv, HooksSound
  <2> QED
    BY <2>2, <2>3, <2>4 DEF OnePublication
<1> QED
  BY <1>1, Invariance, PTL

\* A cursor is only sent with the search that it was issued for.
THEOREM CursorsAreOfTheirSearch == Spec => []CursorsMatch
<1>1. IInv => CursorsMatch
  BY DEF IInv, HooksSound
<1> QED
  BY <1>1, Invariance, PTL

\* The sheet is of the store opened last, and a "Retour" that was pressed while no other
\* traversal was under way comes back to the page; one pressed during another may not.
THEOREM GoingBackStaysHere == Spec => []ReturnStaysHere
<1>1. ASSUME IInv
      PROVE  ReturnStaysHere
  <2>1. SheetSound /\ AskedSound
    BY <1>1 DEF IInv, SheetSound
  <2>2. ASSUME asked # <<>>, Head(asked).alone
        PROVE  Target \in DOMAIN entries
    <3>1. Head(asked).way = "back" /\ at > 1
      BY <2>1, <2>2, NextAsked
    <3>2. at \in 1 .. Len(entries) /\ DOMAIN entries = 1 .. Len(entries) /\ Len(entries) \in Nat
      BY <2>1, LenProperties DEF SheetSound
    <3>3. Target = at - 1
      BY <3>1 DEF Target
    <3> QED
      BY <3>1, <3>2, <3>3
  <2> QED
    BY <2>1, <2>2 DEF SheetSound, ReturnStaysHere
<1> QED
  BY <1>1, Invariance, PTL

\* Whatever says that it loads is waiting for an answer.
THEOREM LoadingIsWaiting == Spec => []NothingHangs
<1>1. ASSUME IInv
      PROVE  NothingHangs
  <2>1. ASSUME Settled, NEW s \in Slot, Wanted[s].wanted, Shown(s).kind = "none"
        PROVE  flight[s].sent
    <3>1. flight[s].key = Wanted[s]
      BY <2>1 DEF Settled
    <3>2. ~changed
      BY <1>1, <2>1, WantedSound DEF IInv, HooksSound
    <3>3. SUFFICES ASSUME ~flight[s].sent
                   PROVE  FALSE
      BY <1>1 DEF IInv, Types, HookTypes, Flights
    <3>4. held[s].key = Wanted[s] /\ held[s].answer.kind # "none"
      BY <1>1, <2>1, <3>1, <3>2, <3>3 DEF IInv, HooksSound, Answered
    <3> QED
      BY <2>1, <3>4 DEF Shown, ShownUnder
  <2>2. opened # None /\ detail = None => [store |-> opened, live |-> TRUE] \in lookups
    BY <1>1 DEF IInv, SheetSound
  <2> QED
    BY <2>1, <2>2 DEF NothingHangs
<1> QED
  BY <1>1, Invariance, PTL

\* After "Relire le contexte" the page works with no publication that it had before.
LEMMA ReloadForgets ==
    ASSUME IInv, Reload
    PROVE  Publication' = 0
<1> DEFINE b == "bootstrap"
<1>1. /\ on /\ UNCHANGED <<held>> /\ publication' = 0
      /\ retries' = [retries EXCEPT ![b] = @ + 1]
  BY DEF Reload, Here, Act
<1>2. /\ retries'[b] = retries[b] + 1 /\ retries[b] \in Nat /\ held[b].key.retry \in Nat
  BY <1>1, WantedIs DEF IInv, Types, LocalTypes, HookTypes, Holdings, Keys
<1>3. held[b].key.wanted => held[b].key.retry <= retries[b]
  BY <1>1 DEF IInv, HooksSound, FirstReadSound, Spent
<1>4. CASE BootstrapKey'.wanted
  <2>1. held'[b].key # BootstrapKey'
    BY <1>1, <1>2, <1>3, <1>4, FirstReadIs
  <2> QED
    BY <1>1, <2>1 DEF Publication, Bootstrap, ShownUnder, NoAnswer
<1>5. CASE ~BootstrapKey'.wanted
  <2>1. held'[b].key = BootstrapKey' => held'[b].answer.pub = 0
    BY <1>1, <1>5, WantedIs DEF IInv, HooksSound, AnswersSound
  <2> QED
    BY <1>1, <2>1 DEF Publication, Bootstrap, ShownUnder, NoAnswer
<1> QED
  BY <1>4, <1>5

\* The page says that the publication changed only when it has, and begins again with
\* none that it had before (changed and reload in FilteredAnalysis.tsx).
THEOREM ConflictsAreOfNow == Spec => ConflictIsCurrent
<1> DEFINE Body == /\ ~changed /\ changed' => Publication \notin {0, served}
                   /\ changed /\ ~changed' /\ on' => Publication' = 0
<1>1. ASSUME IInv, [Next]_vars
      PROVE  [Body]_vars
  <2>0. changed \in BOOLEAN
    BY <1>1 DEF IInv, Types, MemoryTypes
  <2>1. CASE changed' = changed
    BY <2>1
  <2>2. CASE changed' # changed
    <3>1. \/ \E s \in Slot : Deliver(s) /\ UNCHANGED acts
          \/ Reload
          \/ changed' = FALSE /\ on' = FALSE
      BY <1>1, <2>2 DEF Next, User, Turn, Publish, Retry, Apply, MoreStores, FirstStores, NextRanks,
         PreviousRanks, EditDraft, SearchStores, Sort, SetTab, Open, Browse, LeaveView,
         EndSession, Unmount, Back, Enter, Effects, Traversed, Arrive, Depart, Answer, vars, local
    <3>2. CASE \E s \in Slot : Deliver(s) /\ UNCHANGED acts
      <4>1. PICK s \in Slot : Deliver(s) /\ UNCHANGED acts
        BY <3>2
      <4>2. Publication \notin {0, served}
        BY <1>1, <2>2, <4>1, DeliverKeeps
      <4>3. changed' = TRUE
        BY <2>2, <4>1 DEF Deliver
      <4> QED
        BY <4>2, <4>3
    <3>3. CASE Reload
      <4>1. changed' = FALSE /\ Publication' = 0
        BY <1>1, <3>3, ReloadForgets DEF Reload
      <4> QED
        BY <4>1
    <3>4. CASE changed' = FALSE /\ on' = FALSE
      BY <3>4
    <3> QED
      BY <3>1, <3>2, <3>3, <3>4
  <2> QED
    BY <2>1, <2>2
<1> QED
  BY <1>1, Invariance, PTL DEF Spec, ConflictIsCurrent

=============================================================================
