--------------------------- MODULE ViewReadsProofs ---------------------------
(***************************************************************************)
(* Proofs about ViewReads, for any stores, periods and rows, any tabs that *)
(* are visited, and however often the user navigates and reads again.      *)
(***************************************************************************)
EXTENDS ViewReads, TLAPS

-----------------------------------------------------------------------------
(* The inductive invariant.                                                *)

Marks == Site \union Arg \union {None, "page"}
Places == [tab : Visited \union {"none"}, site : Site \union {None}]
Keys == [generation : Nat, place : Places, at : SUBSET (Block \X Marks)]
Shows == [phase : {"absent", "loading", "ready", "error"}, key : Keys,
          rows : SUBSET Nat, fresh : Nat]
Effect == [block : Block, key : Keys, step : Nat, since : Nat, before : Nat,
           rows : SUBSET Nat, aborted : BOOLEAN]
Fetches == [open : BOOLEAN, since : Nat]

PageTypes ==
    /\ served \in Nat
    /\ session \in [open : BOOLEAN, generation : Nat]
    /\ place \in Places
    /\ opened \in [Block -> Marks]
    /\ turned \in [Block -> Nat]

ReadTypes ==
    /\ shown \in [Block -> Shows]
    /\ runs \subseteq Effect
    /\ fetch \in Fetches /\ fetch.since <= served

Types == PageTypes /\ ReadTypes

\* Whatever a mounted view lies in shows rows: not only its parent.
AllAboveReady ==
    \A b \in Block : \A a \in Path[b] :
        Mounted(b) /\ a # b => shown[a].phase = "ready"

\* An effect that is not aborted is that of a mounted view, in its present context,
\* and the view waits for it.
RunsAreAwaited ==
    \A r \in runs :
        ~r.aborted => /\ Mounted(r.block) /\ r.key = Key(r.block)
                      /\ shown[r.block].phase = "loading"

OneRunPerView ==
    \A q, r \in runs : ~q.aborted /\ ~r.aborted /\ q.block = r.block => q = r

\* The first report of an effect is no later than what it read since.
HasReport(r) == \E i \in 1 .. r.step - 1 : Table[r.block].steps[i] = "status"

ReadsInOrder(r) ==
    /\ r.step \in 1 .. Len(Table[r.block].steps)
    /\ r.before <= r.since /\ r.since <= served
    /\ \A v \in r.rows : v >= r.before
    /\ r.rows # {} => HasReport(r)
    /\ HasReport(r) /\ Table[r.block].guarded => r.before > 0

RunsInOrder == \A r \in runs : ~r.aborted => ReadsInOrder(r)

\* Only a view that shows rows has turned its page.
TurnedExists ==
    \A b \in Block :
        turned[b] # 0 => Mounted(b) /\ shown[b].phase = "ready" /\ turned[b] < PageCount(b)

FreshEnough(b) ==
    shown[b].phase = "ready" /\ Table[b].steps \notin {<<>>, <<"page">>, <<"resources">>} =>
        /\ \A v \in shown[b].rows : v >= shown[b].fresh
        /\ Table[b].guarded => shown[b].fresh > 0

ScreenSound == ShownBelongs /\ AllAboveReady /\ TurnedExists /\ \A b \in Block : FreshEnough(b)
RunsSound == RunsAreAwaited /\ OneRunPerView /\ RunsInOrder

IInv == Types /\ ScreenSound /\ RunsSound

-----------------------------------------------------------------------------
(* The table of the views.                                                 *)

\* Every component is a view of the table.
LEMMA TableIs ==
    ASSUME NEW b \in Block
    PROVE  Table[b] \in Views /\ Table[b].tab \in Visited \union {"all"} /\ Name(Table[b]) = b
<1>1. \E v \in Reachable : Name(v) = b
  BY DEF Block
<1>2. Table[b] = CHOOSE v \in Reachable : Name(v) = b
  BY DEF Table
<1> QED
  BY <1>1, <1>2, Zenon DEF Reachable

\* Every view of a tab that is visited is a component, under its name.
LEMMA BlockOf ==
    ASSUME NEW v \in Views, v.tab \in Visited \union {"all"}
    PROVE  Name(v) \in Block /\ Table[Name(v)] = v
<1>1. Name(v) \in Block
  BY DEF Block, Reachable
<1> QED
  BY <1>1, TableIs, TableAssumption DEF Forest

\* What a view lies in is a view of the same tab.
LEMMA LiesIn ==
    ASSUME NEW v \in Views, NEW a \in Above(v)
    PROVE  \E w \in Views :
              /\ Name(w) = a /\ w.tab = v.tab
              /\ Above(w) \subseteq Above(v)
              /\ Name(v) \in Above(w) => w = v
BY TableAssumption DEF Forest

\* A component lies in itself, and in all that those it lies in lie in.
LEMMA PathIs ==
    ASSUME NEW b \in Block
    PROVE  /\ b \in Path[b]
           /\ \A a \in Path[b] :
                 a \in Block /\ Table[a].tab = Table[b].tab /\ Path[a] \subseteq Path[b]
                 /\ (b \in Path[a] => a = b)
<1>1. Table[b] \in Views /\ Table[b].tab \in Visited \union {"all"} /\ Name(Table[b]) = b
  BY TableIs
<1>2. \A d \in Block : Path[d] = Above(Table[d])
  BY DEF Path
<1>3. b \in Path[b]
  BY <1>1, <1>2, TableAssumption DEF Forest
<1>4. ASSUME NEW a \in Path[b]
      PROVE  a \in Block /\ Table[a].tab = Table[b].tab /\ Path[a] \subseteq Path[b]
             /\ (b \in Path[a] => a = b)
  <2> DEFINE v == Table[b]
  <2>0. v \in Views /\ a \in Above(v) /\ v = Table[b] /\ Name(v) = b
    BY <1>1, <1>2, <1>4
  <2> HIDE DEF v
  <2>1. PICK w \in Views : /\ Name(w) = a /\ w.tab = v.tab /\ Above(w) \subseteq Above(v)
                           /\ Name(v) \in Above(w) => w = v
    BY <2>0, LiesIn
  <2>2. a \in Block /\ Table[a] = w
    BY <1>1, <2>0, <2>1, BlockOf
  <2>3. Path[a] = Above(w) /\ Path[b] = Above(v)
    BY <1>2, <2>0, <2>2
  <2>5. b \in Path[a] => a = b
    BY <2>0, <2>1, <2>3
  <2> QED
    BY <2>0, <2>1, <2>2, <2>3, <2>5
<1> QED
  BY <1>3, <1>4

\* Of a nested component.
LEMMA ParentIs ==
    ASSUME NEW b \in Block, Nested(b)
    PROVE  /\ Parent(b) \in Path[b] /\ Parent(b) \in Block /\ Parent(b) # b
           /\ Path[b] = Path[Parent(b)] \union {b}
<1>1. Table[b] \in Views /\ Name(Table[b]) = b
  BY TableIs
<1>2. Len(Table[b].path) > 1
  BY DEF Nested
<1>3. PICK w \in Views : /\ Name(w) = Parent(b)
                         /\ w # Table[b] /\ Above(Table[b]) = Above(w) \union {b}
  BY <1>1, <1>2, TableAssumption DEF Forest, Parent
<1>4. \A d \in Block : Path[d] = Above(Table[d])
  BY DEF Path
<1>5. Parent(b) \in Path[b]
  BY <1>1, <1>3, <1>4, TableAssumption DEF Forest
<1>6. Parent(b) \in Block
  BY <1>5, PathIs
<1>7. Table[Parent(b)] = w
  BY <1>3, <1>6, TableIs, TableAssumption DEF Forest
<1> QED
  BY <1>1, <1>3, <1>4, <1>5, <1>6, <1>7

\* What lies in a component lies with it in whatever it lies in.
LEMMA SubtreeIs ==
    ASSUME NEW b \in Block
    PROVE  /\ Subtree[b] \subseteq Block /\ b \in Subtree[b]
           /\ \A d \in Block : d \in Subtree[b] <=> b \in Path[d]
           /\ \A d \in Block : d \notin Subtree[b] => Path[d] \intersect Subtree[b] = {}
           /\ \A d \in Block : d \notin Subtree[b] \ {b} => Path[d] \intersect (Subtree[b] \ {b}) = {}
<1>1. Subtree[b] = {d \in Block : b \in Path[d]}
  BY DEF Subtree
<1>2. ASSUME NEW d \in Block, NEW a \in Path[d], a \in Subtree[b]
      PROVE  d \in Subtree[b] /\ (d = b => a = b)
  <2>1. a \in Block /\ Path[a] \subseteq Path[d]
    BY PathIs
  <2>2. b \in Path[a]
    BY <1>1, <1>2
  <2>3. d = b => a = b
    BY <2>2, PathIs
  <2> QED
    BY <1>1, <2>1, <2>2, <2>3
<1> QED
  BY <1>1, <1>2, PathIs

\* The banner of the freshness is the one component that lies on every tab.
LEMMA FreshnessIs ==
    /\ "freshness" \in Block /\ Path["freshness"] = {"freshness"}
    /\ Table["freshness"] = FreshnessBanner
    /\ ~Silent("freshness") /\ Len(Table["freshness"].steps) = 1
    /\ \A b \in Block : Table[b].tab = "all" <=> b = "freshness"
<1>1. /\ FreshnessBanner \in Views /\ FreshnessBanner.tab = "all"
      /\ FreshnessBanner.path = <<"freshness">> /\ FreshnessBanner.steps = <<"status">>
  BY TableAssumption DEF FreshnessBanner, View
<1>2. Name(FreshnessBanner) = "freshness" /\ Above(FreshnessBanner) = {"freshness"}
  BY <1>1 DEF Name, Above
<1>3. "freshness" \in Block /\ Table["freshness"] = FreshnessBanner
  BY <1>1, <1>2, BlockOf
<1>4. Path["freshness"] = {"freshness"}
  BY <1>2, <1>3 DEF Path
<1>5. \A b \in Block : Table[b].tab = "all" => b = "freshness"
  BY <1>2, TableIs, TableAssumption
<1>6. ~Silent("freshness") /\ Len(Table["freshness"].steps) = 1
  <2>1. <<"status">> # <<>> /\ Len(<<"status">>) = 1
    OBVIOUS
  <2>2. Table["freshness"].steps = <<"status">>
    BY <1>1, <1>3
  <2> QED
    BY <2>1, <2>2 DEF Silent
<1> QED
  BY <1>1, <1>3, <1>4, <1>5, <1>6

\* The rows of a component are read by one that it lies in.
LEMMA ReaderIs ==
    ASSUME NEW b \in Block
    PROVE  Reader(b) \in Path[b]
<1> DEFINE P(a) == ~Silent(a) /\ \A d \in Path[b] : ~Silent(d) => d \in Path[a]
<1>1. Table[b] \in Views /\ Path[b] = Above(Table[b])
  BY TableIs DEF Path
<1>2. PICK w \in Views :
         /\ Name(w) \in Path[b] /\ w.steps # <<>>
         /\ \A u \in Views : Name(u) \in Path[b] /\ u.steps # <<>> => Name(u) \in Above(w)
  BY <1>1, TableAssumption DEF SilentViews
<1>3. Name(w) \in Block /\ Table[Name(w)] \in Views /\ Name(Table[Name(w)]) = Name(w)
  BY <1>2, PathIs, TableIs
<1>4. Table[Name(w)] = w
  BY <1>3, TableAssumption DEF Forest
<1>5. ASSUME NEW d \in Path[b], ~Silent(d)
      PROVE  d \in Path[Name(w)]
  <2>1. d \in Block /\ Table[d] \in Views /\ Name(Table[d]) = d
    BY PathIs, TableIs
  <2> QED
    BY <1>2, <1>3, <1>4, <1>5, <2>1 DEF Silent, Path
<1>6. P(Name(w))
  BY <1>2, <1>4, <1>5 DEF Silent
<1> QED
  BY <1>2, <1>6 DEF Reader

-----------------------------------------------------------------------------
(* Contexts, effects and fetches.                                          *)

\* The context of a component, of parts that have their types.
LEMMA KeyTyped ==
    ASSUME NEW b \in Block, PageTypes
    PROVE  Key(b) \in Keys
<1>1. {<<a, opened[a]>> : a \in Path[b]} \in SUBSET (Block \X Marks)
  BY PathIs DEF PageTypes
<1>2. Nowhere \in Places
  BY DEF Nowhere, Places
<1> QED
  BY <1>1, <1>2 DEF Key, Keys, PageTypes

\* The context of a component is that of the session, its place and its path.
LEMMA KeyKept ==
    ASSUME NEW b \in Block, session'.generation = session.generation,
           place' = place \/ Table[b].tab = "all",
           \A a \in Path[b] : opened'[a] = opened[a]
    PROVE  Key(b)' = Key(b)
<1>1. {<<a, opened'[a]>> : a \in Path[b]} = {<<a, opened[a]>> : a \in Path[b]}
  OBVIOUS
<1> QED
  BY <1>1 DEF Key

LEMMA ShowingIs ==
    ASSUME NEW phase \in {"absent", "loading", "ready", "error"}, NEW key \in Keys
    PROVE  /\ Showing(phase, key) \in Shows /\ Absent \in Shows
           /\ Showing(phase, key).phase = phase /\ Showing(phase, key).key = key
           /\ Showing(phase, key).rows = {}
<1>1. NoKey \in Keys
  BY DEF NoKey, Keys, Nowhere, Places
<1> QED
  BY <1>1 DEF Showing, Absent, Shows

\* An effect begins with its first step, and has read nothing.
LEMMA RunIs ==
    ASSUME NEW b \in Block, NEW key \in Keys, served \in Nat
    PROVE  /\ Run(b, key) \in Effect /\ ~Run(b, key).aborted
           /\ Run(b, key).block = b /\ Run(b, key).key = key
           /\ Run(b, key).step = 1 /\ Run(b, key).since = served
           /\ Run(b, key).before = 0 /\ Run(b, key).rows = {}
BY DEF Run, Effect

\* The steps of a component that reads.
LEMMA StepsAre ==
    ASSUME NEW b \in Block, ~Silent(b)
    PROVE  LET s == Table[b].steps
           IN  /\ s \in Seq({"status", "resources", "collect", "page"})
               /\ Len(s) \in Nat /\ Len(s) >= 1
               /\ Len(s) = 1 => s \in {<<"page">>, <<"resources">>, <<"status">>}
               /\ Len(s) = 1 /\ s = <<"status">> => ~Table[b].guarded
               /\ Len(s) > 1 =>
                     /\ s \notin {<<"page">>, <<"resources">>, <<"status">>}
                     /\ s[Len(s)] = "status"
                     /\ \E k \in 1 .. Len(s) - 2 : \A i \in 1 .. Len(s) - 1 :
                           /\ s[i] = "status" <=> i = k
                           /\ i < k => s[i] = "resources"
<1> DEFINE s == Table[b].steps
<1>1. \/ s \in {<<>>, <<"page">>, <<"resources">>}
      \/ s = <<"status">> /\ ~Table[b].guarded
      \/ /\ s \in Seq({"status", "resources", "collect", "page"})
         /\ Len(s) > 1 /\ s[Len(s)] = "status"
         /\ \E k \in 1 .. Len(s) - 2 : \A i \in 1 .. Len(s) - 1 :
               /\ s[i] = "status" <=> i = k
               /\ i < k => s[i] = "resources"
  BY TableIs, TableAssumption DEF ReadOrders
<1>2. s # <<>>
  BY DEF Silent
<1>3. /\ Len(<<"page">>) = 1 /\ Len(<<"resources">>) = 1 /\ Len(<<"status">>) = 1
      /\ <<"page">> \in Seq({"status", "resources", "collect", "page"})
      /\ <<"resources">> \in Seq({"status", "resources", "collect", "page"})
      /\ <<"status">> \in Seq({"status", "resources", "collect", "page"})
      /\ <<"status">> # <<"page">> /\ <<"status">> # <<"resources">>
  OBVIOUS
<1> HIDE DEF s
<1>4. CASE s \in {<<"page">>, <<"resources">>}
  <2>1. /\ s \in Seq({"status", "resources", "collect", "page"})
        /\ Len(s) = 1 /\ s # <<"status">>
    BY <1>3, <1>4
  <2> QED
    BY <1>4, <2>1 DEF s
<1>5. CASE s = <<"status">> /\ ~Table[b].guarded
  BY <1>3, <1>5 DEF s
<1>6. CASE /\ s \in Seq({"status", "resources", "collect", "page"})
           /\ Len(s) > 1 /\ s[Len(s)] = "status"
           /\ \E k \in 1 .. Len(s) - 2 : \A i \in 1 .. Len(s) - 1 :
                 /\ s[i] = "status" <=> i = k
                 /\ i < k => s[i] = "resources"
  <2>1. Len(s) \in Nat /\ s \notin {<<"page">>, <<"resources">>, <<"status">>}
    BY <1>3, <1>6
  <2> QED
    BY <1>6, <2>1 DEF s
<1> QED
  BY <1>1, <1>2, <1>4, <1>5, <1>6

\* An effect that has just begun has read everything in order.
LEMMA RunInOrder ==
    ASSUME NEW b \in Block, ~Silent(b), NEW key \in Keys, served \in Nat
    PROVE  ReadsInOrder(Run(b, key))
<1>1. Len(Table[b].steps) \in Nat /\ Len(Table[b].steps) >= 1
  BY StepsAre
<1> QED
  BY <1>1, RunIs DEF ReadsInOrder, HasReport

LEMMA FetchIs ==
    ASSUME NEW rs, NEW was \in Fetches, was.since <= served, served \in Nat
    PROVE  /\ Fetch(rs, was) \in Fetches /\ Fetch(rs, was).since <= served
           /\ NoFetch \in Fetches /\ NoFetch.since <= served
BY DEF Fetch, NoFetch, Fetches

\* The effects of bs are over, and those of begin have begun.
LEMMA EffectsAre ==
    ASSUME Types, NEW bs, NEW begin \in SUBSET Effect, Effects(bs, begin)
    PROVE  /\ runs' \subseteq Effect
           /\ fetch' \in Fetches /\ fetch'.since <= served
           /\ \A r \in runs' : ~r.aborted => r \in begin \/ (r \in runs /\ r.block \notin bs)
<1> DEFINE ended == {r \in runs : r.block \in bs /\ ~r.aborted}
           now == (runs \ ended) \union Aborted(ended) \union begin
<1>1. /\ runs' = now
      /\ fetch' = Fetch(now, IF Waiting(runs \ ended) = {} THEN NoFetch ELSE fetch)
  BY DEF Effects
<1>2. \A r \in Aborted(ended) : r \in Effect /\ r.aborted
  <2>1. \A r \in ended : [Run(r.block, r.key) EXCEPT !.since = 0, !.aborted = TRUE] \in
                            [block : Block, key : Keys, step : Nat, since : Nat, before : Nat,
                             rows : SUBSET Nat, aborted : {TRUE}]
    BY DEF Types, ReadTypes, PageTypes, Effect, Run
  <2> QED
    BY <2>1 DEF Aborted, Effect
<1>3. runs' \subseteq Effect
  BY <1>1, <1>2 DEF Types, ReadTypes
<1>4. fetch' \in Fetches /\ fetch'.since <= served
  <2>1. NoFetch \in Fetches /\ NoFetch.since <= served
    BY DEF NoFetch, Fetches, Types, PageTypes
  <2> DEFINE was == IF Waiting(runs \ ended) = {} THEN NoFetch ELSE fetch
  <2>2. was \in Fetches /\ was.since <= served
    BY <2>1 DEF Types, ReadTypes
  <2> HIDE DEF was, now
  <2>3. fetch' = Fetch(now, was)
    BY <1>1 DEF was
  <2> QED
    BY <2>2, <2>3, FetchIs DEF Types, PageTypes
<1>5. ASSUME NEW r \in runs', ~r.aborted
      PROVE  r \in begin \/ (r \in runs /\ r.block \notin bs)
  BY <1>1, <1>2, <1>5
<1> QED
  BY <1>3, <1>4, <1>5

LEMMA KeyTypedAfter ==
    ASSUME NEW b \in Block, PageTypes'
    PROVE  Key(b)' \in Keys
<1>1. {<<a, opened'[a]>> : a \in Path[b]} \in SUBSET (Block \X Marks)
  BY PathIs DEF PageTypes
<1>2. Nowhere \in Places
  BY DEF Nowhere, Places
<1> QED
  BY <1>1, <1>2 DEF Key, Keys, PageTypes

-----------------------------------------------------------------------------
(* What the user does, and what is told to the views.                      *)

\* The components of S leave, those of M among them begin anew, each of them
\* beneath rows that are shown and stay.
LEMMA Restructured ==
    ASSUME IInv, served' = served, PageTypes',
           NEW S \in SUBSET Block, NEW M \in SUBSET S,
           shown' = [d \in Block |->
                       IF d \in M THEN Showing(IF Silent(d) THEN "ready" ELSE "loading", Key(d)')
                       ELSE IF d \in S THEN Absent ELSE shown[d]],
           \A d \in Block \ S :
              Path[d] \intersect S = {} /\ opened'[d] = opened[d] /\ Key(d)' = Key(d),
           \A d \in S \ M : opened'[d] = None,
           \A d \in M : opened'[d] # None,
           \A d \in M : \A a \in Path[d] : a # d => a \notin S /\ shown[a].phase = "ready",
           \A d \in S : turned'[d] = 0,
           \A d \in Block \ S :
              \/ turned'[d] = turned[d]
              \/ Mounted(d) /\ shown[d].phase = "ready" /\ turned'[d] < PageCount(d),
           Effects(S, {Run(d, Key(d)') : d \in {e \in M : ~Silent(e)}})
    PROVE  IInv'
<1> DEFINE begin == {Run(d, Key(d)') : d \in {e \in M : ~Silent(e)}}
<1>1. \A d \in Block : Key(d)' \in Keys
  BY KeyTypedAfter
<1>2. ASSUME NEW d \in Block
      PROVE  /\ d \in M => /\ shown'[d] = Showing(IF Silent(d) THEN "ready" ELSE "loading", Key(d)')
                           /\ shown'[d] \in Shows /\ shown'[d].key = Key(d)' /\ shown'[d].rows = {}
                           /\ shown'[d].phase = IF Silent(d) THEN "ready" ELSE "loading"
             /\ d \in S \ M => shown'[d] = Absent /\ shown'[d] \in Shows
             /\ d \notin S => shown'[d] = shown[d] /\ shown'[d] \in Shows
  <2>1. shown[d] \in Shows
    BY DEF IInv, Types, ReadTypes
  <2> QED
    BY <1>1, <2>1, ShowingIs
<1>3. begin \in SUBSET Effect
  BY <1>1, RunIs DEF IInv, Types, PageTypes
<1>4. /\ runs' \subseteq Effect
      /\ fetch' \in Fetches /\ fetch'.since <= served
      /\ \A r \in runs' : ~r.aborted => r \in begin \/ (r \in runs /\ r.block \notin S)
  <2> HIDE DEF begin
  <2>1. Effects(S, begin)
    BY DEF begin
  <2> QED
    BY <1>3, <2>1, EffectsAre DEF IInv
<1>5. ASSUME NEW r \in begin
      PROVE  \E d \in M : ~Silent(d) /\ r = Run(d, Key(d)') /\ r.block = d /\ r.key = Key(d)'
  BY <1>1, RunIs DEF IInv, Types, PageTypes
<1> HIDE DEF begin
<1>6. Types'
  <2>1. shown' \in [Block -> Shows]
    BY <1>2
  <2> QED
    BY <1>4, <2>1 DEF Types, ReadTypes
<1>7. ShownBelongs'
  <2> SUFFICES ASSUME NEW d \in Block
               PROVE  IF opened'[d] # None
                      THEN shown'[d].phase # "absent" /\ shown'[d].key = Key(d)'
                      ELSE shown'[d] = Absent
    BY DEF ShownBelongs, Mounted
  <2>1. CASE d \in M
    BY <1>2, <2>1
  <2>2. CASE d \in S \ M
    BY <1>2, <2>2
  <2>3. CASE d \notin S
    BY <1>2, <2>3 DEF IInv, ScreenSound, ShownBelongs, Mounted
  <2> QED
    BY <2>1, <2>2, <2>3
<1>8. AllAboveReady'
  <2> SUFFICES ASSUME NEW d \in Block, NEW a \in Path[d], opened'[d] # None, a # d
               PROVE  shown'[a].phase = "ready"
    BY DEF AllAboveReady, Mounted
  <2>1. a \in Block
    BY PathIs
  <2>2. CASE d \in M
    BY <1>2, <2>1, <2>2
  <2>3. CASE d \notin S
    <3>1. a \notin S /\ Mounted(d)
      BY <2>3 DEF Mounted
    <3> QED
      BY <1>2, <2>1, <3>1 DEF IInv, ScreenSound, AllAboveReady
  <2> QED
    BY <2>2, <2>3
<1>9. TurnedExists'
  <2> SUFFICES ASSUME NEW d \in Block, turned'[d] # 0
               PROVE  opened'[d] # None /\ shown'[d].phase = "ready" /\ turned'[d] < PageCount(d)'
    BY DEF TurnedExists, Mounted
  <2>1. d \notin S /\ Path[d] \intersect S = {} /\ opened'[d] = opened[d] /\ shown'[d] = shown[d]
    BY <1>2
  <2>2. PageCount(d)' = PageCount(d)
    <3>1. Reader(d) \in Path[d] /\ Reader(d) \in Block /\ Reader(d) \notin S
      BY <2>1, ReaderIs, PathIs
    <3>2. shown'[Reader(d)] = shown[Reader(d)]
      BY <1>2, <3>1
    <3>3. RowsOf(d)' = RowsOf(d)
      BY <3>2 DEF RowsOf
    <3> QED
      BY <3>3 DEF PageCount
  <2>3. turned'[d] = turned[d] =>
           Mounted(d) /\ shown[d].phase = "ready" /\ turned'[d] < PageCount(d)
    BY DEF IInv, ScreenSound, TurnedExists
  <2> QED
    BY <2>1, <2>2, <2>3 DEF Mounted
<1>10. \A d \in Block : FreshEnough(d)'
  <2> SUFFICES ASSUME NEW d \in Block, shown'[d].phase = "ready",
                      Table[d].steps \notin {<<>>, <<"page">>, <<"resources">>}
               PROVE  /\ \A v \in shown'[d].rows : v >= shown'[d].fresh
                      /\ Table[d].guarded => shown'[d].fresh > 0
    BY DEF FreshEnough
  <2>1. d \notin M
    BY <1>2 DEF Silent
  <2>2. d \notin S
    BY <1>2, <2>1 DEF Absent
  <2> QED
    BY <1>2, <2>2 DEF IInv, ScreenSound, FreshEnough
<1>11. RunsAreAwaited'
  <2> SUFFICES ASSUME NEW r \in runs', ~r.aborted
               PROVE  opened'[r.block] # None /\ r.key = Key(r.block)'
                      /\ shown'[r.block].phase = "loading"
    BY DEF RunsAreAwaited, Mounted
  <2>1. CASE r \in begin
    BY <1>2, <1>5, <2>1
  <2>2. CASE r \in runs /\ r.block \notin S
    <3>1. r.block \in Block
      BY <2>2 DEF IInv, Types, ReadTypes, Effect
    <3> QED
      BY <1>2, <2>2, <3>1 DEF IInv, RunsSound, RunsAreAwaited, Mounted
  <2> QED
    BY <1>4, <2>1, <2>2
<1>12. OneRunPerView'
  <2> SUFFICES ASSUME NEW q \in runs', NEW r \in runs', ~q.aborted, ~r.aborted, q.block = r.block
               PROVE  q = r
    BY DEF OneRunPerView
  <2>1. CASE q \in begin /\ r \in begin
    BY <1>5, <2>1
  <2>2. CASE q \in runs /\ q.block \notin S /\ r \in runs
    BY <2>2 DEF IInv, RunsSound, OneRunPerView
  <2>3. \A p \in begin : p.block \in S
    BY <1>5
  <2> QED
    BY <1>4, <2>1, <2>2, <2>3
<1>13. RunsInOrder'
  <2> SUFFICES ASSUME NEW r \in runs', ~r.aborted
               PROVE  ReadsInOrder(r)
    BY DEF RunsInOrder, ReadsInOrder
  <2>1. CASE r \in begin
    <3>1. PICK d \in M : ~Silent(d) /\ r = Run(d, Key(d)')
      BY <1>5, <2>1
    <3> QED
      BY <1>1, <3>1, RunInOrder DEF IInv, Types, PageTypes
  <2>2. CASE r \in runs
    BY <2>2 DEF IInv, RunsSound, RunsInOrder
  <2> QED
    BY <1>4, <2>1, <2>2
<1> QED
  BY <1>6, <1>7, <1>8, <1>9, <1>10, <1>11, <1>12, <1>13 DEF IInv, ScreenSound, RunsSound

\* The components of T, whose effects are over, show rows or a failure.
LEMMA Told ==
    ASSUME IInv, UNCHANGED <<served, session, place, opened, turned>>,
           NEW T \in SUBSET Block,
           shown' \in [Block -> Shows], runs' \subseteq Effect,
           fetch' \in Fetches, fetch'.since <= served,
           \A b \in Block \ T : shown'[b] = shown[b],
           \A b \in T : /\ \E r \in runs : ~r.aborted /\ r.block = b
                        /\ shown'[b].key = Key(b) /\ shown'[b].phase \in {"ready", "error"}
                        /\ FreshEnough(b)',
           \A q \in runs' : ~q.aborted =>
              /\ q.block \notin T /\ ReadsInOrder(q)
              /\ \E r \in runs : ~r.aborted /\ r.block = q.block /\ r.key = q.key,
           OneRunPerView'
    PROVE  IInv'
<1>1. \A b \in Block : Key(b)' = Key(b) /\ (Mounted(b)' <=> Mounted(b))
  BY KeyKept DEF Mounted
<1>2. \A b \in T : Mounted(b) /\ shown[b].phase = "loading"
  BY DEF IInv, RunsSound, RunsAreAwaited
<1>3. Types'
  BY DEF IInv, Types, PageTypes, ReadTypes
<1>4. ShownBelongs'
  <2> SUFFICES ASSUME NEW b \in Block
               PROVE  IF Mounted(b)' THEN shown'[b].phase # "absent" /\ shown'[b].key = Key(b)'
                      ELSE shown'[b] = Absent
    BY DEF ShownBelongs
  <2>1. CASE b \in T
    BY <1>1, <1>2, <2>1
  <2>2. CASE b \notin T
    BY <1>1, <2>2 DEF IInv, ScreenSound, ShownBelongs
  <2> QED
    BY <2>1, <2>2
<1>5. \A b \in Block : \A a \in Path[b] :
         Mounted(b) /\ a # b => a \in Block \ T /\ shown[a].phase = "ready"
  BY <1>2, PathIs DEF IInv, ScreenSound, AllAboveReady
<1>6. AllAboveReady'
  BY <1>1, <1>5 DEF AllAboveReady
<1>7. TurnedExists'
  <2> SUFFICES ASSUME NEW b \in Block, turned[b] # 0
               PROVE  Mounted(b) /\ shown'[b].phase = "ready" /\ turned[b] < PageCount(b)'
    BY <1>1 DEF TurnedExists
  <2>1. Mounted(b) /\ shown[b].phase = "ready" /\ turned[b] < PageCount(b)
    BY DEF IInv, ScreenSound, TurnedExists
  <2>2. b \notin T
    BY <1>2, <2>1
  <2>3. Reader(b) \in Block \ T
    BY <1>5, <2>1, <2>2, ReaderIs
  <2>4. PageCount(b)' = PageCount(b)
    <3>1. RowsOf(b)' = RowsOf(b)
      BY <2>3 DEF RowsOf
    <3> QED
      BY <3>1 DEF PageCount
  <2> QED
    BY <2>1, <2>2, <2>4
<1>8. \A b \in Block : FreshEnough(b)'
  <2> SUFFICES ASSUME NEW b \in Block, b \notin T
               PROVE  FreshEnough(b)'
    OBVIOUS
  <2>1. FreshEnough(b) /\ shown'[b] = shown[b]
    BY DEF IInv, ScreenSound
  <2> QED
    BY <2>1 DEF FreshEnough
<1>9. RunsAreAwaited'
  <2> SUFFICES ASSUME NEW q \in runs', ~q.aborted
               PROVE  Mounted(q.block)' /\ q.key = Key(q.block)' /\ shown'[q.block].phase = "loading"
    BY DEF RunsAreAwaited
  <2>1. PICK r \in runs : ~r.aborted /\ r.block = q.block /\ r.key = q.key
    OBVIOUS
  <2>2. Mounted(r.block) /\ r.key = Key(r.block) /\ shown[r.block].phase = "loading"
    BY <2>1 DEF IInv, RunsSound, RunsAreAwaited
  <2>3. q.block \in Block \ T
    BY DEF Effect
  <2> QED
    BY <1>1, <2>1, <2>2, <2>3
<1>10. RunsInOrder'
  BY DEF RunsInOrder, ReadsInOrder
<1> QED
  BY <1>3, <1>4, <1>6, <1>7, <1>8, <1>9, <1>10 DEF IInv, ScreenSound, RunsSound

-----------------------------------------------------------------------------
(* Every step preserves the invariant.                                     *)

\* A root lies in nothing else.
LEMMA RootIs ==
    ASSUME NEW b \in Block, ~Nested(b)
    PROVE  Path[b] = {b}
BY TableIs, TableAssumption DEF Forest, Nested, Path

\* What the user can open lies beneath rows that are shown.
LEMMA OfferedIs ==
    ASSUME IInv, NEW b \in Block, Offered(b)
    PROVE  \A a \in Path[b] : a # b => shown[a].phase = "ready"
<1>1. CASE Nested(b)
  <2>1. /\ Parent(b) \in Block /\ Path[b] = Path[Parent(b)] \union {b}
        /\ shown[Parent(b)].phase = "ready"
    BY <1>1, ParentIs DEF Offered
  <2>2. Mounted(Parent(b))
    BY <2>1 DEF IInv, ScreenSound, ShownBelongs, Absent
  <2> QED
    BY <2>1, <2>2 DEF IInv, ScreenSound, AllAboveReady
<1>2. CASE ~Nested(b)
  BY <1>2, RootIs
<1> QED
  BY <1>1, <1>2

LEMMA MountStep ==
    ASSUME IInv, NEW b \in Block, NEW x \in Marks, x # None, Mount(b, x),
           served' = served, place' = place, session' \in [open : BOOLEAN, generation : Nat],
           session'.generation = session.generation,
           \A a \in Path[b] : a # b => shown[a].phase = "ready"
    PROVE  IInv'
<1> DEFINE S == Subtree[b]
           M == {b}
<1>1. /\ S \in SUBSET Block /\ M \in SUBSET S
      /\ \A d \in Block : d \in S <=> b \in Path[d]
      /\ \A d \in Block \ S : Path[d] \intersect S = {}
  BY SubtreeIs
<1> HIDE DEF S
<1>2. /\ opened' = [d \in Block |-> IF d = b THEN x ELSE IF d \in S THEN None ELSE opened[d]]
      /\ turned' = [d \in Block |-> IF d \in S THEN 0 ELSE turned[d]]
      /\ shown' = [d \in Block |->
                     IF d \in M THEN Showing(IF Silent(d) THEN "ready" ELSE "loading", Key(d)')
                     ELSE IF d \in S THEN Absent ELSE shown[d]]
  BY DEF Mount, S
<1>3. Effects(S, {Run(d, Key(d)') : d \in {e \in M : ~Silent(e)}})
  <2>1. Effects(S, IF Silent(b) THEN {} ELSE {Run(b, Key(b)')})
    BY DEF Mount, S
  <2>2. CASE Silent(b)
    <3>1. {Run(d, Key(d)') : d \in {e \in M : ~Silent(e)}} = {}
      BY <2>2
    <3> QED
      BY <2>1, <2>2, <3>1
  <2>3. CASE ~Silent(b)
    <3>1. {e \in M : ~Silent(e)} = {b}
      BY <2>3
    <3>2. {Run(d, Key(d)') : d \in {e \in M : ~Silent(e)}} = {Run(b, Key(b)')}
      BY <3>1
    <3> QED
      BY <2>1, <2>3, <3>2
  <2> QED
    BY <2>2, <2>3
<1>4. PageTypes'
  <2>1. None \in Marks
    BY DEF Marks
  <2> QED
    BY <1>2, <2>1 DEF PageTypes, IInv, Types
<1>5. \A d \in Block \ S : Path[d] \intersect S = {} /\ opened'[d] = opened[d] /\ Key(d)' = Key(d)
  <2> SUFFICES ASSUME NEW d \in Block \ S
               PROVE  opened'[d] = opened[d] /\ Key(d)' = Key(d)
    BY <1>1
  <2>1. \A a \in Path[d] : a \in Block \ S
    BY <1>1, PathIs
  <2>2. \A a \in Block \ S : opened'[a] = opened[a]
    BY <1>1, <1>2
  <2> QED
    BY <2>1, <2>2, KeyKept
<1>6. /\ \A d \in S \ M : opened'[d] = None
      /\ \A d \in M : opened'[d] # None
      /\ \A d \in S : turned'[d] = 0
      /\ \A d \in Block \ S : turned'[d] = turned[d]
  <2>1. b \in S /\ x # None /\ M = {b}
    BY <1>1
  <2>2. \A d \in Block : opened'[d] = IF d = b THEN x ELSE IF d \in S THEN None ELSE opened[d]
    BY ONLY <1>2
  <2>3. \A d \in Block : turned'[d] = IF d \in S THEN 0 ELSE turned[d]
    BY ONLY <1>2
  <2> HIDE DEF M
  <2> QED
    BY ONLY <1>1, <2>1, <2>2, <2>3
<1>7. \A d \in M : \A a \in Path[d] : a # d => a \notin S /\ shown[a].phase = "ready"
  <2>1. ASSUME NEW a \in Path[b], a # b
        PROVE  a \notin S /\ shown[a].phase = "ready"
    <3>1. a \in Block /\ b \notin Path[a]
      BY ONLY <2>1, PathIs
    <3>2. a \notin S
      BY ONLY <1>1, <3>1
    <3> QED
      BY <2>1, <3>2
  <2> QED
    BY ONLY <2>1
<1> HIDE DEF M
<1>8. /\ served' = served
      /\ \A d \in Block \ S :
            \/ turned'[d] = turned[d]
            \/ Mounted(d) /\ shown[d].phase = "ready" /\ turned'[d] < PageCount(d)
  BY ONLY <1>6, served' = served
<1> QED
  BY ONLY IInv, <1>1, <1>2, <1>3, <1>4, <1>5, <1>6, <1>7, <1>8, Restructured

LEMMA UnmountStep ==
    ASSUME IInv, NEW S \in SUBSET Block, Unmount(S),
           \A d \in Block \ S : Path[d] \intersect S = {},
           served' = served, place' \in Places,
           session' \in [open : BOOLEAN, generation : Nat],
           S = Block \/ (session' = session /\ place' = place)
    PROVE  IInv'
<1> DEFINE M == {}
<1>1. /\ opened' = [d \in Block |-> IF d \in S THEN None ELSE opened[d]]
      /\ turned' = [d \in Block |-> IF d \in S THEN 0 ELSE turned[d]]
      /\ shown' = [d \in Block |->
                     IF d \in M THEN Showing(IF Silent(d) THEN "ready" ELSE "loading", Key(d)')
                     ELSE IF d \in S THEN Absent ELSE shown[d]]
  BY DEF Unmount
<1>2. Effects(S, {Run(d, Key(d)') : d \in {e \in M : ~Silent(e)}})
  <2>1. {Run(d, Key(d)') : d \in {e \in M : ~Silent(e)}} = {}
    OBVIOUS
  <2> QED
    BY <2>1 DEF Unmount
<1>3. PageTypes'
  <2>1. None \in Marks
    BY DEF Marks
  <2> QED
    BY <1>1, <2>1 DEF PageTypes, IInv, Types
<1>4. \A d \in Block \ S : Path[d] \intersect S = {} /\ opened'[d] = opened[d] /\ Key(d)' = Key(d)
  <2> SUFFICES ASSUME NEW d \in Block \ S
               PROVE  opened'[d] = opened[d] /\ Key(d)' = Key(d)
    OBVIOUS
  <2>1. \A a \in Path[d] : a \in Block \ S
    BY PathIs
  <2>2. \A a \in Block \ S : opened'[a] = opened[a]
    BY <1>1
  <2> QED
    BY <2>1, <2>2, KeyKept
<1>5. M \in SUBSET S /\ \A d \in M : FALSE
  OBVIOUS
<1>6. /\ \A d \in S \ M : opened'[d] = None
      /\ \A d \in S : turned'[d] = 0
      /\ \A d \in Block \ S : turned'[d] = turned[d]
  BY <1>1
<1> HIDE DEF M
<1> QED
  BY <1>1, <1>2, <1>3, <1>4, <1>5, <1>6, Restructured

LEMMA NavigateStep ==
    ASSUME IInv, NEW tab \in Visited, NEW site \in Site, Navigate(tab, site)
    PROVE  IInv'
<1> DEFINE S == {b \in Block : Table[b].tab # "all"}
           M == Roots(tab)
<1>1. /\ place' = [tab |-> tab, site |-> site] /\ served' = served /\ session' = session
      /\ Show
  BY DEF Navigate
<1>2. /\ M \in SUBSET S
      /\ \A b \in M : b \in Block /\ ~Nested(b) /\ ~Silent(b)
  <2>1. tab # "all"
    BY ViewsAssumption
  <2>2. \A b \in M : b \in Block /\ Table[b].tab = tab /\ ~Nested(b) /\ Table[b].open
    BY DEF Roots
  <2> QED
    BY <2>1, <2>2, TableIs, TableAssumption DEF Silent
<1>3. \A d \in Block \ S : d = "freshness" /\ Path[d] = {d} /\ d \notin S
  BY FreshnessIs
<1> HIDE DEF S, M
<1>4. /\ opened' = [b \in Block |-> IF b \in M THEN site ELSE IF b \in S THEN None ELSE opened[b]]
      /\ turned' = [b \in Block |-> IF b \in S THEN 0 ELSE turned[b]]
      /\ shown' = [b \in Block |-> IF b \in M THEN Showing("loading", Key(b)')
                                   ELSE IF b \in S THEN Absent ELSE shown[b]]
      /\ Effects(S, {Run(b, Key(b)') : b \in M})
  <2>1. place'.tab = tab /\ place'.site = site
    BY <1>1
  <2> QED
    BY <1>1, <2>1 DEF Show, S, M
<1>5. shown' = [d \in Block |->
                  IF d \in M THEN Showing(IF Silent(d) THEN "ready" ELSE "loading", Key(d)')
                  ELSE IF d \in S THEN Absent ELSE shown[d]]
  BY <1>2, <1>4
<1>6. Effects(S, {Run(d, Key(d)') : d \in {e \in M : ~Silent(e)}})
  <2>1. {e \in M : ~Silent(e)} = M
    BY <1>2
  <2> QED
    BY <1>4, <2>1
<1>7. PageTypes'
  <2>1. None \in Marks /\ site \in Marks
    BY DEF Marks
  <2>2. place' \in Places
    BY <1>1 DEF Places
  <2> QED
    BY <1>1, <1>4, <2>1, <2>2 DEF PageTypes, IInv, Types
<1>8. \A d \in Block \ S : Path[d] \intersect S = {} /\ opened'[d] = opened[d] /\ Key(d)' = Key(d)
  <2> SUFFICES ASSUME NEW d \in Block \ S
               PROVE  opened'[d] = opened[d] /\ Key(d)' = Key(d)
    BY <1>3
  <2>1. opened'[d] = opened[d]
    BY <1>2, <1>4
  <2>2. Table[d].tab = "all" /\ \A a \in Path[d] : a = d
    BY <1>3, FreshnessIs
  <2> QED
    BY <1>1, <2>1, <2>2, KeyKept
<1>9. site # None
  BY ViewsAssumption
<1>10. S \in SUBSET Block
  BY DEF S
<1>11. /\ \A d \in S \ M : opened'[d] = None
       /\ \A d \in M : opened'[d] # None
       /\ \A d \in S : turned'[d] = 0
       /\ \A d \in Block \ S : turned'[d] = turned[d]
  BY <1>2, <1>4, <1>9, <1>10
<1>12. \A d \in M : \A a \in Path[d] : a # d => a \notin S /\ shown[a].phase = "ready"
  BY <1>2, RootIs
<1> QED
  BY <1>1, <1>2, <1>5, <1>6, <1>7, <1>8, <1>10, <1>11, <1>12, Restructured

LEMMA TurnPageStep ==
    ASSUME IInv, NEW b \in Block, TurnPage(b)
    PROVE  IInv'
<1> DEFINE S == IF Table[b].closing THEN Subtree[b] \ {b} ELSE {}
           M == {}
<1>1. /\ S \in SUBSET Block /\ b \notin S
      /\ \A d \in Block \ S : Path[d] \intersect S = {}
  BY SubtreeIs
<1>2. PICK page \in Neighbours(b) :
         turned' = [d \in Block |-> IF d = b THEN page ELSE IF d \in S THEN 0 ELSE turned[d]]
  BY DEF TurnPage
<1>3. page \in Nat /\ page < PageCount(b)
  <2>1. PageCount(b) \in Nat
    BY DEF PageCount, PagesOf, Pages
  <2> QED
    BY <2>1 DEF Neighbours
<1>4. /\ opened' = [d \in Block |-> IF d \in S THEN None ELSE opened[d]]
      /\ shown' = [d \in Block |->
                     IF d \in M THEN Showing(IF Silent(d) THEN "ready" ELSE "loading", Key(d)')
                     ELSE IF d \in S THEN Absent ELSE shown[d]]
      /\ Effects(S, {}) /\ Mounted(b) /\ shown[b].phase = "ready"
      /\ served' = served /\ session' = session /\ place' = place
  BY DEF TurnPage
<1> HIDE DEF S
<1>5. Effects(S, {Run(d, Key(d)') : d \in {e \in M : ~Silent(e)}})
  <2>1. {Run(d, Key(d)') : d \in {e \in M : ~Silent(e)}} = {}
    OBVIOUS
  <2> QED
    BY <1>4, <2>1
<1>6. PageTypes'
  <2>1. None \in Marks
    BY DEF Marks
  <2> QED
    BY <1>2, <1>3, <1>4, <2>1 DEF PageTypes, IInv, Types
<1>7. \A d \in Block \ S : Path[d] \intersect S = {} /\ opened'[d] = opened[d] /\ Key(d)' = Key(d)
  <2> SUFFICES ASSUME NEW d \in Block \ S
               PROVE  opened'[d] = opened[d] /\ Key(d)' = Key(d)
    BY <1>1
  <2>1. \A a \in Path[d] : a \in Block \ S
    BY <1>1, PathIs
  <2>2. \A a \in Block \ S : opened'[a] = opened[a]
    BY <1>4
  <2> QED
    BY <1>4, <2>1, <2>2, KeyKept
<1>8. M \in SUBSET S /\ \A d \in M : FALSE
  OBVIOUS
<1>9. /\ \A d \in S \ M : opened'[d] = None
      /\ \A d \in S : turned'[d] = 0
      /\ \A d \in Block \ S :
            \/ turned'[d] = turned[d]
            \/ Mounted(d) /\ shown[d].phase = "ready" /\ turned'[d] < PageCount(d)
  BY <1>1, <1>2, <1>3, <1>4
<1> HIDE DEF M
<1> QED
  BY <1>1, <1>4, <1>5, <1>6, <1>7, <1>8, <1>9, Restructured

\* The steps of a live effect.
LEMMA LiveStep ==
    ASSUME IInv, NEW r \in runs, ~r.aborted
    PROVE  LET s == Table[r.block].steps
           IN  /\ r \in Effect /\ r.block \in Block /\ ~Silent(r.block)
               /\ ReadsInOrder(r) /\ Mounted(r.block) /\ r.key = Key(r.block)
               /\ Len(s) \in Nat /\ r.step \in 1 .. Len(s)
               /\ Len(s) = 1 =>
                     /\ s \in {<<"page">>, <<"resources">>, <<"status">>}
                     /\ s = <<"status">> => ~Table[r.block].guarded
                     /\ ~HasReport(r)
               /\ Len(s) > 1 /\ r.step = Len(s) => Step(r) = "status" /\ HasReport(r)
               /\ r.step < Len(s) /\ Step(r) = "status" => ~HasReport(r)
               /\ r.step < Len(s) /\ Step(r) \notin {"status", "resources"} => HasReport(r)
               /\ r.step < Len(s) /\ Step(r) = "status" => s[r.step + 1] # "status"
<1> DEFINE s == Table[r.block].steps
<1>1. r \in Effect /\ r.block \in Block /\ r.step \in Nat
  BY DEF IInv, Types, ReadTypes, Effect
<1>2. ReadsInOrder(r) /\ Mounted(r.block) /\ r.key = Key(r.block)
  BY DEF IInv, RunsSound, RunsInOrder, RunsAreAwaited
<1>3. r.step \in 1 .. Len(s)
  BY <1>2 DEF ReadsInOrder
<1>4. ~Silent(r.block)
  <2>1. Len(<<>>) = 0
    OBVIOUS
  <2> QED
    BY <1>1, <1>3, <2>1 DEF Silent
<1>5. /\ Len(s) \in Nat /\ Len(s) >= 1
      /\ Len(s) = 1 => s \in {<<"page">>, <<"resources">>, <<"status">>}
      /\ Len(s) = 1 /\ s = <<"status">> => ~Table[r.block].guarded
      /\ Len(s) > 1 =>
            /\ s[Len(s)] = "status"
            /\ \E k \in 1 .. Len(s) - 2 : \A i \in 1 .. Len(s) - 1 :
                  /\ s[i] = "status" <=> i = k
                  /\ i < k => s[i] = "resources"
  BY <1>1, <1>4, StepsAre
<1>6. HasReport(r) <=> \E i \in 1 .. r.step - 1 : s[i] = "status"
  BY DEF HasReport
<1>7. Step(r) = s[r.step]
  BY DEF Step
<1> HIDE DEF s
<1>8. CASE Len(s) = 1
  <2>1. ~HasReport(r)
    BY <1>3, <1>6, <1>8
  <2> QED
    BY <1>1, <1>2, <1>3, <1>4, <1>5, <1>8, <2>1 DEF s
<1>9. CASE Len(s) > 1
  <2>1. PICK k \in 1 .. Len(s) - 2 : \A i \in 1 .. Len(s) - 1 :
           /\ s[i] = "status" <=> i = k
           /\ i < k => s[i] = "resources"
    BY <1>5, <1>9
  <2>2. ASSUME r.step = Len(s)
        PROVE  Step(r) = "status" /\ HasReport(r)
    <3>1. Len(s) \in Nat /\ k \in 1 .. Len(s) - 2
      BY ONLY <1>5, <2>1
    <3>2. k \in 1 .. Len(s) - 1
      BY ONLY <3>1
    <3>3. s[k] = "status"
      BY ONLY <2>1, <3>2
    <3>4. k \in 1 .. r.step - 1
      BY ONLY <2>2, <3>2
    <3>5. HasReport(r)
      BY ONLY <1>6, <3>3, <3>4
    <3>6. Step(r) = "status"
      BY ONLY <1>5, <1>7, <1>9, <2>2
    <3> QED
      BY ONLY <3>5, <3>6
  <2>3. ASSUME r.step < Len(s), Step(r) = "status"
        PROVE  ~HasReport(r)
    <3>1. r.step \in 1 .. Len(s) - 1
      BY <1>1, <1>3, <1>5, <2>3
    <3>2. r.step = k
      BY <1>7, <2>1, <2>3, <3>1
    <3>3. \A i \in 1 .. r.step - 1 : i \in 1 .. Len(s) - 1 /\ i < k
      BY <1>5, <3>1, <3>2
    <3> QED
      BY <1>6, <2>1, <3>3
  <2>4. ASSUME r.step < Len(s), Step(r) \notin {"status", "resources"}
        PROVE  HasReport(r)
    <3>1. r.step \in 1 .. Len(s) - 1
      BY <1>1, <1>3, <1>5, <2>4
    <3>2. k < r.step
      BY <1>5, <1>7, <2>1, <2>4, <3>1
    <3> QED
      BY <1>5, <1>6, <2>1, <3>1, <3>2
  <2>5. ASSUME r.step < Len(s), Step(r) = "status"
        PROVE  s[r.step + 1] # "status"
    <3>1. r.step \in 1 .. Len(s) - 1
      BY <1>1, <1>3, <1>5, <2>5
    <3>2. r.step = k
      BY <1>7, <2>1, <2>5, <3>1
    <3>3. k + 1 \in 1 .. Len(s) - 1 /\ k + 1 # k
      BY <1>5, <2>1
    <3> QED
      BY <2>1, <3>2, <3>3
  <2> QED
    BY <1>1, <1>2, <1>3, <1>4, <1>5, <1>9, <2>2, <2>3, <2>4, <2>5 DEF s
<1>10. Len(s) = 1 \/ Len(s) > 1
  <2>1. \A n \in Nat : n >= 1 => n = 1 \/ n > 1
    OBVIOUS
  <2> QED
    BY <1>5, <2>1, Zenon
<1> QED
  BY <1>8, <1>9, <1>10

\* What an effect shows in the end, rows or a failure, is of its own context.
LEMMA ResultIs ==
    ASSUME NEW r \in Effect, NEW fresh \in Nat
    PROVE  /\ Success(r, fresh) \in Shows /\ Failure(r) \in Shows
           /\ Success(r, fresh).key = r.key /\ Failure(r).key = r.key
           /\ Success(r, fresh).phase = "ready" /\ Failure(r).phase = "error"
           /\ Success(r, fresh).rows = r.rows /\ Success(r, fresh).fresh = fresh
<1>1. r.key \in Keys /\ r.rows \in SUBSET Nat
  BY DEF Effect
<1>2. /\ Showing("ready", r.key) \in Shows /\ Showing("error", r.key) \in Shows
      /\ Showing("ready", r.key).phase = "ready" /\ Showing("ready", r.key).key = r.key
      /\ Showing("error", r.key).phase = "error" /\ Showing("error", r.key).key = r.key
  BY <1>1, ShowingIs
<1> DEFINE base == Showing("ready", r.key)
<1> HIDE DEF base
<1>3. Success(r, fresh) = [base EXCEPT !.rows = r.rows, !.fresh = fresh]
  BY DEF Success, base
<1>4. base \in Shows /\ base.phase = "ready" /\ base.key = r.key
  BY <1>2 DEF base
<1> QED
  BY <1>1, <1>2, <1>3, <1>4 DEF Failure, Shows

\* A fetch for those who wait after an effect has gone on or is over.
LEMMA FetchTyped ==
    ASSUME IInv, NEW rs
    PROVE  /\ Fetch(rs, fetch) \in Fetches /\ Fetch(rs, fetch).since <= served
           /\ NoFetch \in Fetches /\ NoFetch.since <= served
BY FetchIs DEF IInv, Types, PageTypes, ReadTypes

\* The next step of an effect that goes on.
LEMMA AdvancedIs ==
    ASSUME NEW r \in Effect, served \in Nat
    PROVE  /\ Advanced(r) \in Effect /\ Advanced(r).aborted = r.aborted
           /\ Advanced(r).block = r.block /\ Advanced(r).key = r.key
           /\ Advanced(r).step = r.step + 1 /\ Advanced(r).since = served
           /\ Advanced(r).before = r.before /\ Advanced(r).rows = r.rows
<1>1. Advanced(r) = [r EXCEPT !.step = r.step + 1, !.since = served]
  BY DEF Advanced
<1>2. r.step \in Nat /\ r.step + 1 \in Nat
  BY DEF Effect
<1>3. Advanced(r) \in Effect
  BY <1>1, <1>2 DEF Effect
<1>4. /\ Advanced(r).step = r.step + 1 /\ Advanced(r).since = served
      /\ Advanced(r).before = r.before /\ Advanced(r).rows = r.rows
      /\ Advanced(r).block = r.block /\ Advanced(r).key = r.key
  BY <1>1, <1>2 DEF Effect
<1>5. Advanced(r).aborted = r.aborted
  BY <1>1, <1>2 DEF Effect
<1> QED
  BY <1>3, <1>4, <1>5

LEMMA AnswerStep ==
    ASSUME IInv, NEW r \in runs, Answer(r)
    PROVE  IInv'
<1> DEFINE s == Table[r.block].steps
<1>1. ~r.aborted /\ Step(r) # "status"
      /\ UNCHANGED <<served, session, place, opened, turned>>
  BY DEF Answer
<1>2. /\ r \in Effect /\ r.block \in Block
      /\ ReadsInOrder(r) /\ Mounted(r.block) /\ r.key = Key(r.block)
      /\ Len(s) \in Nat /\ r.step \in 1 .. Len(s)
      /\ r.step = Len(s) => s \in {<<"page">>, <<"resources">>}
      /\ r.step < Len(s) /\ Step(r) # "resources" => HasReport(r)
  <2>1. <<"status">>[1] = "status"
    OBVIOUS
  <2>2. Step(r) = s[r.step]
    BY DEF Step
  <2>3. /\ r \in Effect /\ r.block \in Block
        /\ ReadsInOrder(r) /\ Mounted(r.block) /\ r.key = Key(r.block)
        /\ Len(s) \in Nat /\ r.step \in 1 .. Len(s)
        /\ Len(s) = 1 => s \in {<<"page">>, <<"resources">>, <<"status">>}
        /\ Len(s) > 1 /\ r.step = Len(s) => Step(r) = "status"
        /\ r.step < Len(s) /\ Step(r) \notin {"status", "resources"} => HasReport(r)
    BY <1>1, LiveStep
  <2> HIDE DEF s
  <2>4. ASSUME r.step = Len(s)
        PROVE  s \in {<<"page">>, <<"resources">>}
    <3>1. ~(Len(s) > 1)
      BY <1>1, <2>3, <2>4
    <3>2. Len(s) = 1
      <4>1. \A n \in Nat : \A i \in 1 .. n : n = 1 \/ n > 1
        OBVIOUS
      <4> QED
        BY <2>3, <3>1, <4>1, Zenon
    <3>3. s # <<"status">>
      BY <1>1, <2>1, <2>2, <2>4, <3>2
    <3> QED
      BY <2>3, <3>2, <3>3
  <2>5. r.step < Len(s) /\ Step(r) # "resources" => HasReport(r)
    BY <1>1, <2>3
  <2> QED
    BY <2>3, <2>4, <2>5
<1>3. r.rows \in SUBSET Nat /\ r.step \in Nat /\ r.since \in Nat /\ r.before \in Nat /\ served \in Nat
  BY <1>2 DEF Effect, IInv, Types, PageTypes
<1>4. /\ r.before <= r.since /\ r.since <= served
      /\ \A v \in r.rows : v >= r.before
      /\ r.rows # {} => HasReport(r)
      /\ HasReport(r) /\ Table[r.block].guarded => r.before > 0
  BY <1>2 DEF ReadsInOrder
<1>5. PICK read \in (IF Step(r) = "resources" THEN {} ELSE {{v} : v \in r.since .. served})
                    \union (IF Optional(r) THEN {{}} ELSE {}) :
         LET holding == [r EXCEPT !.rows = @ \union read]
         IN  IF IsLast(r)
             THEN /\ runs' = runs \ {r}
                  /\ Conclude(r, Success(holding, r.before))
                  /\ UNCHANGED fetch
             ELSE /\ runs' = (runs \ {r}) \union {Advanced(holding)}
                  /\ fetch' = Fetch(runs', fetch)
                  /\ UNCHANGED shown
  BY DEF Answer
<1>6. /\ read \in SUBSET Nat /\ \A v \in read : v >= r.since
      /\ read # {} => Step(r) # "resources"
  BY <1>3, <1>5
<1> DEFINE holding == [r EXCEPT !.rows = @ \union read]
<1>7. /\ holding \in Effect /\ holding.key = r.key /\ holding.block = r.block
      /\ holding.step = r.step /\ holding.before = r.before /\ ~holding.aborted
      /\ holding.rows = r.rows \union read
  BY <1>1, <1>2, <1>6 DEF Effect
<1>8. \A q \in runs \ {r} : ~q.aborted =>
         /\ q.block # r.block /\ ReadsInOrder(q) /\ q \in Effect
  BY <1>1 DEF IInv, RunsSound, OneRunPerView, RunsInOrder, Types, ReadTypes
<1>9. runs \subseteq Effect /\ shown \in [Block -> Shows] /\ fetch \in Fetches /\ fetch.since <= served
  BY DEF IInv, Types, ReadTypes
<1>10. CASE IsLast(r)
  <2> DEFINE T == {r.block}
  <2>1. runs' = runs \ {r} /\ shown' = [shown EXCEPT ![r.block] = Success(holding, r.before)]
        /\ fetch' = fetch
    BY <1>1, <1>5, <1>10 DEF Conclude
  <2> HIDE DEF holding
  <2>2. /\ Success(holding, r.before) \in Shows /\ Success(holding, r.before).key = r.key
        /\ Success(holding, r.before).phase = "ready"
    BY <1>3, <1>7, ResultIs
  <2>3. s \in {<<"page">>, <<"resources">>}
    BY <1>2, <1>10 DEF IsLast
  <2>4. FreshEnough(r.block)'
    BY <2>3 DEF FreshEnough
  <2>5. OneRunPerView'
    BY <2>1 DEF OneRunPerView, IInv, RunsSound
  <2>6. /\ shown' \in [Block -> Shows] /\ runs' \subseteq Effect
        /\ fetch' \in Fetches /\ fetch'.since <= served
        /\ \A b \in Block \ T : shown'[b] = shown[b]
        /\ shown'[r.block] = Success(holding, r.before)
    BY <1>2, <1>9, <2>1, <2>2
  <2>7. \A q \in runs' : ~q.aborted =>
           /\ q.block \notin T /\ ReadsInOrder(q)
           /\ \E p \in runs : ~p.aborted /\ p.block = q.block /\ p.key = q.key
    BY <1>8, <2>1
  <2>8. \A b \in T : /\ \E p \in runs : ~p.aborted /\ p.block = b
                     /\ shown'[b].key = Key(b) /\ shown'[b].phase \in {"ready", "error"}
                     /\ FreshEnough(b)'
    BY <1>1, <1>2, <2>2, <2>4, <2>6
  <2>9. T \in SUBSET Block
    BY <1>2
  <2> HIDE DEF T
  <2> QED
    BY <1>1, <2>5, <2>6, <2>7, <2>8, <2>9, Told
<1>11. CASE ~IsLast(r)
  <2>1. runs' = (runs \ {r}) \union {Advanced(holding)} /\ shown' = shown
        /\ fetch' = Fetch(runs', fetch)
    BY <1>5, <1>11
  <2> DEFINE next == Advanced(holding)
  <2> HIDE DEF holding
  <2>2. /\ next \in Effect /\ ~next.aborted /\ next.block = r.block /\ next.key = r.key
        /\ next.step = r.step + 1 /\ next.since = served /\ next.before = r.before
        /\ next.rows = r.rows \union read
    BY <1>3, <1>7, AdvancedIs DEF next
  <2>3. r.step < Len(s)
    BY <1>2, <1>3, <1>11 DEF IsLast
  <2>4. ReadsInOrder(next)
    <3>1. HasReport(next) <=> HasReport(r)
      <4>1. Step(r) = s[r.step]
        BY DEF Step
      <4>2. HasReport(r) <=> \E i \in 1 .. r.step - 1 : s[i] = "status"
        BY DEF HasReport
      <4>3. HasReport(next) <=> \E i \in 1 .. r.step : s[i] = "status"
        BY <1>3, <2>2 DEF HasReport
      <4>4. 1 .. r.step = (1 .. r.step - 1) \union {r.step}
        BY <1>2, <1>3
      <4> QED
        BY <1>1, <4>1, <4>2, <4>3, <4>4
    <3>2. next.step \in 1 .. Len(s)
      BY <1>2, <1>3, <2>2, <2>3
    <3>3. next.rows # {} => HasReport(next)
      BY <1>2, <1>4, <1>6, <2>2, <2>3, <3>1
    <3>4. \A v \in next.rows : v >= next.before
      <4> SUFFICES ASSUME NEW v \in r.rows \union read
                   PROVE  v >= r.before
        BY <2>2
      <4>1. CASE v \in r.rows
        BY <1>4, <4>1
      <4>2. CASE v \in read
        <5>1. v \in Nat /\ v >= r.since
          BY <1>6, <4>2
        <5> QED
          BY <1>3, <1>4, <5>1
      <4> QED
        BY <4>1, <4>2
    <3> QED
      BY <1>3, <1>4, <2>2, <3>1, <3>2, <3>3, <3>4 DEF ReadsInOrder
  <2> HIDE DEF next
  <2>5. runs' = (runs \ {r}) \union {next}
    BY <2>1 DEF next
  <2>6. /\ shown' \in [Block -> Shows] /\ runs' \subseteq Effect
        /\ fetch' \in Fetches /\ fetch'.since <= served
        /\ \A b \in Block \ {} : shown'[b] = shown[b]
    BY <1>9, <2>1, <2>2, <2>5, FetchTyped
  <2>7. \A q \in runs' : ~q.aborted =>
           /\ q.block \notin {} /\ ReadsInOrder(q)
           /\ \E p \in runs : ~p.aborted /\ p.block = q.block /\ p.key = q.key
    BY <1>1, <1>8, <2>2, <2>4, <2>5
  <2>8. OneRunPerView'
    <3>1. \A p, q \in runs \ {r} : ~p.aborted /\ ~q.aborted /\ p.block = q.block => p = q
      BY DEF IInv, RunsSound, OneRunPerView
    <3> QED
      BY <1>8, <2>2, <2>5, <3>1 DEF OneRunPerView
  <2> QED
    BY <1>1, <2>6, <2>7, <2>8, Told
<1> QED
  BY <1>10, <1>11

LEMMA FailStep ==
    ASSUME IInv, NEW r \in runs, Fail(r)
    PROVE  IInv'
<1> DEFINE T == IF r.aborted THEN {} ELSE {r.block}
<1>1. /\ runs' = runs \ {r} /\ fetch' = IF Waiting(runs') = {} THEN NoFetch ELSE fetch
      /\ shown' = IF r.aborted THEN shown ELSE [shown EXCEPT ![r.block] = Failure(r)]
      /\ UNCHANGED <<served, session, place, opened, turned>>
  BY DEF Fail, Conclude
<1>2. /\ r \in Effect /\ r.block \in Block /\ runs \subseteq Effect
      /\ shown \in [Block -> Shows] /\ fetch \in Fetches /\ fetch.since <= served
      /\ NoFetch \in Fetches /\ NoFetch.since <= served
  BY FetchTyped DEF IInv, Types, ReadTypes, Effect
<1>3. Failure(r) \in Shows /\ Failure(r).key = r.key /\ Failure(r).phase = "error"
  BY <1>2, ResultIs
<1>4. /\ shown' \in [Block -> Shows] /\ runs' \subseteq Effect
      /\ fetch' \in Fetches /\ fetch'.since <= served
      /\ \A b \in Block \ T : shown'[b] = shown[b]
      /\ \A b \in T : b = r.block /\ ~r.aborted /\ shown'[b] = Failure(r)
  BY <1>1, <1>2, <1>3
<1>5. \A b \in T : /\ \E p \in runs : ~p.aborted /\ p.block = b
                   /\ shown'[b].key = Key(b) /\ shown'[b].phase \in {"ready", "error"}
                   /\ FreshEnough(b)'
  BY <1>3, <1>4 DEF FreshEnough, IInv, RunsSound, RunsAreAwaited
<1>6. \A q \in runs' : ~q.aborted =>
         /\ q.block \notin T /\ ReadsInOrder(q)
         /\ \E p \in runs : ~p.aborted /\ p.block = q.block /\ p.key = q.key
  BY <1>1 DEF IInv, RunsSound, OneRunPerView, RunsInOrder
<1>7. OneRunPerView'
  BY <1>1 DEF OneRunPerView, IInv, RunsSound
<1>8. T \in SUBSET Block
  BY <1>2
<1> HIDE DEF T
<1> QED
  BY <1>1, <1>4, <1>5, <1>6, <1>7, <1>8, Told

LEMMA LateStep ==
    ASSUME IInv, NEW r \in runs, Late(r)
    PROVE  IInv'
<1> DEFINE T == {}
<1>1. /\ runs' = runs \ {r} /\ shown' = shown /\ fetch' = fetch
      /\ UNCHANGED <<served, session, place, opened, turned>>
  BY DEF Late, Conclude
<1>2. /\ runs \subseteq Effect
      /\ shown \in [Block -> Shows] /\ fetch \in Fetches /\ fetch.since <= served
  BY DEF IInv, Types, ReadTypes
<1>3. \A q \in runs' : ~q.aborted =>
         /\ q.block \notin T /\ ReadsInOrder(q)
         /\ \E p \in runs : ~p.aborted /\ p.block = q.block /\ p.key = q.key
  BY <1>1 DEF IInv, RunsSound, RunsInOrder
<1>4. OneRunPerView'
  BY <1>1 DEF OneRunPerView, IInv, RunsSound
<1>5. /\ shown' \in [Block -> Shows] /\ runs' \subseteq Effect
      /\ fetch' \in Fetches /\ fetch'.since <= served
      /\ \A b \in Block \ T : shown'[b] = shown[b]
  BY <1>1, <1>2
<1>6. T \in SUBSET Block /\ \A b \in T : FALSE
  OBVIOUS
<1> HIDE DEF T
<1> QED
  BY <1>1, <1>3, <1>4, <1>5, <1>6, Told

\* What a report v makes of a live effect that waits for it.
LEMMA VerdictIs ==
    ASSUME IInv, NEW r \in runs, ~r.aborted, Step(r) = "status", NEW v \in Nat, v <= served
    PROVE  /\ Verdict(r, v) = "shown" => 
                 /\ \A u \in r.rows : u >= v
                 /\ Table[r.block].guarded => v > 0
           /\ Verdict(r, v) = "going on" =>
                 /\ ReadsInOrder([Advanced(r) EXCEPT !.before = v])
                 /\ [Advanced(r) EXCEPT !.before = v] \in Effect
                 /\ [Advanced(r) EXCEPT !.before = v].block = r.block
                 /\ [Advanced(r) EXCEPT !.before = v].key = r.key
                 /\ ~[Advanced(r) EXCEPT !.before = v].aborted
<1> DEFINE s == Table[r.block].steps
<1>1. /\ r \in Effect /\ ReadsInOrder(r)
      /\ Len(s) \in Nat /\ r.step \in 1 .. Len(s)
      /\ Len(s) = 1 =>
            /\ s \in {<<"page">>, <<"resources">>, <<"status">>}
            /\ s = <<"status">> => ~Table[r.block].guarded
            /\ ~HasReport(r)
      /\ Len(s) > 1 /\ r.step = Len(s) => HasReport(r)
      /\ r.step < Len(s) => ~HasReport(r)
  BY LiveStep
<1>2. Step(r) = s[r.step] /\ (IsLast(r) <=> r.step = Len(s))
  BY DEF Step, IsLast
<1>3. r.rows \in SUBSET Nat /\ r.step \in Nat /\ r.before \in Nat /\ served \in Nat
  BY <1>1 DEF Effect, IInv, Types, PageTypes
<1>4. /\ \A u \in r.rows : u >= r.before
      /\ r.rows # {} => HasReport(r)
      /\ HasReport(r) /\ Table[r.block].guarded => r.before > 0
  BY <1>1 DEF ReadsInOrder
<1>5. Verdict(r, v) =
         IF Len(s) = 1 THEN "shown"
         ELSE IF r.step = Len(s) THEN IF r.before = v THEN "shown" ELSE "changed"
         ELSE IF v = 0 /\ Table[r.block].guarded THEN "uninitialized"
         ELSE "going on"
  BY <1>2 DEF Verdict
<1>6. \A n \in Nat : \A i \in 1 .. n : (n = 1 \/ n > 1) /\ (i = n \/ i < n) /\ (n = 1 => i = 1)
  OBVIOUS
<1> HIDE DEF s
<1>7. (Len(s) = 1 \/ Len(s) > 1) /\ (r.step = Len(s) \/ r.step < Len(s))
      /\ (Len(s) = 1 => r.step = 1)
  BY <1>1, <1>6, Zenon
<1>8. ASSUME Verdict(r, v) = "shown"
      PROVE  (\A u \in r.rows : u >= v) /\ (Table[r.block].guarded => v > 0)
  <2>1. CASE Len(s) = 1
    <3>1. <<"page">>[1] = "page" /\ <<"resources">>[1] = "resources"
      OBVIOUS
    <3>2. s = <<"status">>
      BY <1>1, <1>2, <1>7, <2>1, <3>1
    <3> QED
      BY <1>1, <1>4, <2>1, <3>2
  <2>2. CASE Len(s) # 1
    <3>1. r.before = v /\ HasReport(r)
      BY <1>1, <1>5, <1>7, <1>8, <2>2
    <3> QED
      BY <1>4, <3>1
  <2> QED
    BY <2>1, <2>2
<1>9. ASSUME Verdict(r, v) = "going on"
      PROVE  LET q == [Advanced(r) EXCEPT !.before = v]
             IN  /\ ReadsInOrder(q) /\ q \in Effect
                 /\ q.block = r.block /\ q.key = r.key /\ ~q.aborted
  <2> DEFINE q == [Advanced(r) EXCEPT !.before = v]
  <2>1. r.step < Len(s) /\ ~(v = 0 /\ Table[r.block].guarded) /\ r.rows = {}
    BY <1>1, <1>4, <1>5, <1>7, <1>9
  <2>2. /\ Advanced(r) \in Effect /\ Advanced(r).aborted = r.aborted
        /\ Advanced(r).block = r.block /\ Advanced(r).key = r.key
        /\ Advanced(r).step = r.step + 1 /\ Advanced(r).since = served
        /\ Advanced(r).rows = r.rows
    BY <1>1, <1>3, AdvancedIs
  <2>3. /\ q \in Effect /\ q.block = r.block /\ q.key = r.key
        /\ q.step = r.step + 1 /\ q.since = served /\ q.before = v /\ q.rows = {}
    BY <2>1, <2>2 DEF Effect
  <2>4. ~q.aborted
    BY <2>2 DEF Effect
  <2> HIDE DEF q
  <2>5. q.step \in 1 .. Len(s)
    BY <1>1, <1>3, <2>1, <2>3
  <2>6. ReadsInOrder(q)
    BY <1>3, <2>1, <2>3, <2>5 DEF ReadsInOrder, s
  <2> QED
    BY <2>3, <2>4, <2>6 DEF q
<1> QED
  BY <1>8, <1>9

LEMMA AnswerStatusStep ==
    ASSUME IInv, AnswerStatus
    PROVE  IInv'
<1> DEFINE asked == Waiting(runs)
<1>1. PICK v \in fetch.since .. served :
         LET going == {r \in asked : Verdict(r, v) = "going on"}
             over == asked \ going
         IN  /\ runs' = (runs \ asked) \union {[Advanced(r) EXCEPT !.before = v] : r \in going}
             /\ shown' = [b \in Block |->
                            IF \E r \in over : r.block = b
                            THEN LET r == CHOOSE q \in over : q.block = b
                                 IN  IF Verdict(r, v) = "shown" THEN Success(r, v) ELSE Failure(r)
                            ELSE shown[b]]
             /\ fetch' = NoFetch
  BY DEF AnswerStatus
<1> DEFINE going == {r \in asked : Verdict(r, v) = "going on"}
           over == asked \ going
           T == {r.block : r \in over}
           Next1(r) == [Advanced(r) EXCEPT !.before = v]
<1>2. UNCHANGED <<served, session, place, opened, turned>>
  BY DEF AnswerStatus
<1>3. /\ runs \subseteq Effect /\ shown \in [Block -> Shows]
      /\ served \in Nat /\ v \in Nat /\ v <= served
      /\ NoFetch \in Fetches /\ NoFetch.since <= served
  BY FetchTyped DEF IInv, Types, ReadTypes, PageTypes, Fetches
<1>4. \A r \in asked : r \in runs /\ ~r.aborted /\ Step(r) = "status"
  BY DEF Waiting
<1> HIDE DEF asked
<1>5. \A r \in going : /\ r \in runs /\ ~r.aborted /\ ReadsInOrder(Next1(r)) /\ Next1(r) \in Effect
                       /\ Next1(r).block = r.block /\ Next1(r).key = r.key /\ ~Next1(r).aborted
  BY <1>3, <1>4, VerdictIs
<1>6. \A r \in over : /\ r \in runs /\ ~r.aborted /\ r \in Effect /\ r.block \in Block
                      /\ r.key = Key(r.block)
                      /\ Verdict(r, v) = "shown" =>
                            /\ \A u \in r.rows : u >= v
                            /\ Table[r.block].guarded => v > 0
  BY <1>3, <1>4, VerdictIs, LiveStep
<1>7. /\ runs' = (runs \ asked) \union {Next1(r) : r \in going} /\ fetch' = NoFetch
      /\ shown' = [b \in Block |->
                     IF \E r \in over : r.block = b
                     THEN LET r == CHOOSE q \in over : q.block = b
                          IN  IF Verdict(r, v) = "shown" THEN Success(r, v) ELSE Failure(r)
                     ELSE shown[b]]
  BY <1>1
<1>8. going \subseteq asked /\ over \subseteq asked /\ going \intersect over = {}
      /\ asked = going \union over
  OBVIOUS
<1> HIDE DEF going, over, Next1
<1>9. \A b \in T : \E r \in over :
         /\ r.block = b
         /\ shown'[b] = IF Verdict(r, v) = "shown" THEN Success(r, v) ELSE Failure(r)
  <2> SUFFICES ASSUME NEW b \in T
               PROVE  \E r \in over :
                         /\ r.block = b
                         /\ shown'[b] = IF Verdict(r, v) = "shown" THEN Success(r, v) ELSE Failure(r)
    OBVIOUS
  <2>1. b \in Block /\ \E r \in over : r.block = b
    BY <1>6
  <2> DEFINE r == CHOOSE q \in over : q.block = b
  <2>2. r \in over /\ r.block = b
    BY <2>1, Zenon
  <2>3. shown'[b] = IF Verdict(r, v) = "shown" THEN Success(r, v) ELSE Failure(r)
    BY <1>7, <2>1
  <2> HIDE DEF r
  <2> QED
    BY <2>2, <2>3
<1>10. \A b \in Block \ T : shown'[b] = shown[b]
  BY <1>7
<1>11. \A b \in T : /\ \E r \in runs : ~r.aborted /\ r.block = b
                    /\ shown'[b].key = Key(b) /\ shown'[b].phase \in {"ready", "error"}
                    /\ shown'[b] \in Shows /\ FreshEnough(b)'
  <2> SUFFICES ASSUME NEW b \in T
               PROVE  /\ \E r \in runs : ~r.aborted /\ r.block = b
                      /\ shown'[b].key = Key(b) /\ shown'[b].phase \in {"ready", "error"}
                      /\ shown'[b] \in Shows /\ FreshEnough(b)'
    OBVIOUS
  <2>1. PICK r \in over :
           /\ r.block = b
           /\ shown'[b] = IF Verdict(r, v) = "shown" THEN Success(r, v) ELSE Failure(r)
    BY <1>9
  <2>2. /\ Success(r, v) \in Shows /\ Failure(r) \in Shows
        /\ Success(r, v).key = r.key /\ Failure(r).key = r.key
        /\ Success(r, v).phase = "ready" /\ Failure(r).phase = "error"
        /\ Success(r, v).rows = r.rows /\ Success(r, v).fresh = v
    BY <1>3, <1>6, ResultIs
  <2>3. FreshEnough(b)'
    <3>1. CASE Verdict(r, v) = "shown"
      <4>1. /\ shown'[b].rows = r.rows /\ shown'[b].fresh = v
            /\ \A u \in r.rows : u >= v
            /\ Table[b].guarded => v > 0
        BY <1>6, <2>1, <2>2, <3>1
      <4> QED
        BY <4>1 DEF FreshEnough
    <3>2. CASE Verdict(r, v) # "shown"
      BY <2>1, <2>2, <3>2 DEF FreshEnough
    <3> QED
      BY <3>1, <3>2
  <2> QED
    BY <1>6, <2>1, <2>2, <2>3
<1>12. /\ shown' \in [Block -> Shows] /\ runs' \subseteq Effect
       /\ fetch' \in Fetches /\ fetch'.since <= served /\ T \in SUBSET Block
  <2>1. \A b \in Block : shown'[b] \in Shows
    BY <1>3, <1>10, <1>11
  <2>2. shown' \in [Block -> Shows]
    BY <1>7, <2>1
  <2> QED
    BY <1>3, <1>5, <1>6, <1>7, <2>2
\* Every live effect of now is one of before, as it was or one step on.
<1>13. ASSUME NEW q \in runs', ~q.aborted
       PROVE  \E r \in runs : /\ ~r.aborted /\ r.block = q.block /\ r.key = q.key
                              /\ \/ q = r /\ r \notin asked
                                 \/ q = Next1(r) /\ r \in going
  BY <1>5, <1>7, <1>13
<1>14. OneRunPerView'
  <2> SUFFICES ASSUME NEW p \in runs', NEW q \in runs', ~p.aborted, ~q.aborted, p.block = q.block
               PROVE  p = q
    BY DEF OneRunPerView
  <2>1. PICK a \in runs : /\ ~a.aborted /\ a.block = p.block
                          /\ (p = a /\ a \notin asked) \/ (p = Next1(a) /\ a \in going)
    BY <1>13
  <2>2. PICK b \in runs : /\ ~b.aborted /\ b.block = q.block
                          /\ (q = b /\ b \notin asked) \/ (q = Next1(b) /\ b \in going)
    BY <1>13
  <2>3. a = b
    BY <2>1, <2>2 DEF IInv, RunsSound, OneRunPerView
  <2> QED
    BY <1>8, <2>1, <2>2, <2>3
<1>15. \A q \in runs' : ~q.aborted =>
          /\ q.block \notin T /\ ReadsInOrder(q)
          /\ \E p \in runs : ~p.aborted /\ p.block = q.block /\ p.key = q.key
  <2> SUFFICES ASSUME NEW q \in runs', ~q.aborted
               PROVE  q.block \notin T /\ ReadsInOrder(q)
    BY <1>13
  <2>1. PICK r \in runs : /\ ~r.aborted /\ r.block = q.block
                          /\ (q = r /\ r \notin asked) \/ (q = Next1(r) /\ r \in going)
    BY <1>13
  <2>2. ReadsInOrder(q)
    BY <1>5, <2>1 DEF IInv, RunsSound, RunsInOrder
  <2>3. \A o \in over : o \in runs /\ ~o.aborted /\ o # r
    BY <1>6, <1>8, <2>1
  <2>4. \A o \in over : o.block # r.block
    BY <2>1, <2>3 DEF IInv, RunsSound, OneRunPerView
  <2> QED
    BY <2>1, <2>2, <2>4
<1> HIDE DEF T
<1> QED
  BY <1>2, <1>10, <1>11, <1>12, <1>14, <1>15, Told

LEMMA PublishStep ==
    ASSUME IInv, Publish
    PROVE  IInv'
<1>1. /\ served' = served + 1 /\ served \in Nat
      /\ UNCHANGED <<session, place, opened, shown, runs, fetch, turned, started>>
  BY DEF Publish, IInv, Types, PageTypes
<1>2. \A b \in Block : Key(b)' = Key(b)
  BY <1>1, KeyKept
<1>3. Types'
  <2>1. fetch.since \in Nat
    BY DEF IInv, Types, ReadTypes, Fetches
  <2> QED
    BY <1>1, <2>1 DEF IInv, Types, PageTypes, ReadTypes
<1>4. RunsInOrder'
  <2> SUFFICES ASSUME NEW r \in runs, ~r.aborted
               PROVE  ReadsInOrder(r)'
    BY <1>1 DEF RunsInOrder
  <2>1. ReadsInOrder(r) /\ r.since \in Nat
    BY DEF IInv, RunsSound, RunsInOrder, Types, ReadTypes, Effect
  <2> QED
    BY <1>1, <2>1 DEF ReadsInOrder, HasReport
<1>5. ShownBelongs' /\ AllAboveReady'
  BY <1>1, <1>2 DEF IInv, ScreenSound, ShownBelongs, AllAboveReady, Mounted
<1>6. TurnedExists'
  <2>1. \A b \in Block : PageCount(b)' = PageCount(b)
    BY <1>1 DEF PageCount, RowsOf
  <2> QED
    BY <1>1, <2>1 DEF IInv, ScreenSound, TurnedExists, Mounted
<1>7. \A b \in Block : FreshEnough(b)'
  BY <1>1 DEF IInv, ScreenSound, FreshEnough
<1>8. RunsAreAwaited'
  <2>1. \A r \in runs : r.block \in Block
    BY DEF IInv, Types, ReadTypes, Effect
  <2> QED
    BY <1>1, <1>2, <2>1 DEF IInv, RunsSound, RunsAreAwaited, Mounted
<1>9. OneRunPerView'
  BY <1>1 DEF IInv, RunsSound, OneRunPerView
<1> QED
  BY <1>3, <1>4, <1>5, <1>6, <1>7, <1>8, <1>9 DEF IInv, ScreenSound, RunsSound

LEMMA StutterStep ==
    ASSUME IInv, UNCHANGED vars
    PROVE  IInv'
<1>1. UNCHANGED <<served, session, place, opened, shown, runs, fetch, turned, started>>
  BY DEF vars
<1>2. \A b \in Block : Key(b)' = Key(b)
  BY <1>1, KeyKept
<1>3. Types' /\ RunsInOrder'
  BY <1>1 DEF IInv, Types, PageTypes, ReadTypes, RunsSound, RunsInOrder, ReadsInOrder
<1>4. ShownBelongs' /\ AllAboveReady'
  BY <1>1, <1>2 DEF IInv, ScreenSound, ShownBelongs, AllAboveReady, Mounted
<1>5. TurnedExists'
  <2>1. \A b \in Block : PageCount(b)' = PageCount(b)
    BY <1>1 DEF PageCount, RowsOf
  <2> QED
    BY <1>1, <2>1 DEF IInv, ScreenSound, TurnedExists, Mounted
<1>6. \A b \in Block : FreshEnough(b)'
  BY <1>1 DEF IInv, ScreenSound, FreshEnough
<1>7. RunsAreAwaited' /\ OneRunPerView'
  <2>1. \A r \in runs : r.block \in Block
    BY DEF IInv, Types, ReadTypes, Effect
  <2> QED
    BY <1>1, <1>2, <2>1 DEF IInv, RunsSound, RunsAreAwaited, OneRunPerView, Mounted
<1> QED
  BY <1>3, <1>4, <1>5, <1>6, <1>7 DEF IInv, ScreenSound, RunsSound

\* The user's steps.
LEMMA EndSessionStep ==
    ASSUME IInv, EndSession
    PROVE  IInv'
<1>1. /\ session' = [open |-> FALSE, generation |-> session.generation + 1]
      /\ place' = Nowhere /\ served' = served /\ Unmount(Block)
      /\ session \in [open : BOOLEAN, generation : Nat]
  BY DEF EndSession, IInv, Types, PageTypes
<1>2. place' \in Places /\ session' \in [open : BOOLEAN, generation : Nat]
  BY <1>1 DEF Places, Nowhere
<1>3. \A d \in Block \ Block : Path[d] \intersect Block = {}
  OBVIOUS
<1> QED
  BY <1>1, <1>2, <1>3, UnmountStep

LEMMA SignInStep ==
    ASSUME IInv, SignIn
    PROVE  IInv'
<1>1. /\ session' = [session EXCEPT !.open = TRUE] /\ served' = served /\ place' = place
      /\ Mount("freshness", "page") /\ session \in [open : BOOLEAN, generation : Nat]
  BY DEF SignIn, IInv, Types, PageTypes
<1>2. session' \in [open : BOOLEAN, generation : Nat] /\ session'.generation = session.generation
  BY <1>1
<1>3. "page" \in Marks /\ "page" # None
  BY ViewsAssumption DEF Marks
<1>4. "freshness" \in Block /\ \A a \in Path["freshness"] : a = "freshness"
  BY FreshnessIs
<1> QED
  BY <1>1, <1>2, <1>3, <1>4, MountStep

LEMMA OpenStep ==
    ASSUME IInv, NEW b \in Block, NEW x \in Arg, Open(b, x)
    PROVE  IInv'
<1>1. /\ Offered(b) /\ UNCHANGED <<served, session, place>> /\ Mount(b, x)
      /\ session \in [open : BOOLEAN, generation : Nat]
  BY DEF Open, IInv, Types, PageTypes
<1>2. x \in Marks /\ x # None
  BY ViewsAssumption DEF Marks
<1>3. \A a \in Path[b] : a # b => shown[a].phase = "ready"
  BY <1>1, OfferedIs
<1> QED
  BY <1>1, <1>2, <1>3, MountStep

LEMMA CloseStep ==
    ASSUME IInv, NEW b \in Block, Close(b)
    PROVE  IInv'
<1>1. UNCHANGED <<served, session, place>> /\ Unmount(Subtree[b])
      /\ session \in [open : BOOLEAN, generation : Nat] /\ place \in Places
  BY DEF Close, IInv, Types, PageTypes
<1>2. /\ Subtree[b] \in SUBSET Block
      /\ \A d \in Block \ Subtree[b] : Path[d] \intersect Subtree[b] = {}
  BY SubtreeIs
<1> QED
  BY <1>1, <1>2, UnmountStep

LEMMA RetryStep ==
    ASSUME IInv, NEW b \in Block, Retry(b)
    PROVE  IInv'
<1>1. /\ Mounted(b) /\ UNCHANGED <<served, session, place>> /\ Mount(b, opened[b])
      /\ session \in [open : BOOLEAN, generation : Nat]
      /\ opened[b] \in Marks /\ opened[b] # None
  BY DEF Retry, Mounted, IInv, Types, PageTypes
<1>2. \A a \in Path[b] : a # b => shown[a].phase = "ready"
  BY <1>1 DEF IInv, ScreenSound, AllAboveReady
<1> QED
  BY <1>1, <1>2, MountStep

-----------------------------------------------------------------------------
(* The invariant, and what follows from it.                                *)

LEMMA InitHolds ==
    ASSUME Init
    PROVE  IInv
<1> DEFINE f == "freshness"
           first == Run(f, Key(f))
<1>1. /\ served \in {0, 1} /\ session = [open |-> TRUE, generation |-> 0] /\ place = Nowhere
      /\ opened = [b \in Block |-> IF b = f THEN "page" ELSE None]
      /\ shown = [b \in Block |-> IF b = f THEN Showing("loading", Key(b)) ELSE Absent]
      /\ runs = {first} /\ fetch = [open |-> TRUE, since |-> served]
      /\ turned = [b \in Block |-> 0]
  BY DEF Init
<1>2. f \in Block /\ Path[f] = {f} /\ ~Silent(f)
  BY FreshnessIs
<1>3. PageTypes
  BY <1>1 DEF PageTypes, Marks, Places, Nowhere
<1>4. \A b \in Block : Key(b) \in Keys
  BY <1>3, KeyTyped
<1>5. /\ Showing("loading", Key(f)) \in Shows /\ Absent \in Shows
      /\ Showing("loading", Key(f)).phase = "loading" /\ Showing("loading", Key(f)).key = Key(f)
      /\ Absent.phase = "absent"
  BY <1>2, <1>4, ShowingIs DEF Absent
<1>6. /\ first \in Effect /\ ~first.aborted /\ first.block = f /\ first.key = Key(f)
      /\ ReadsInOrder(first)
  BY <1>2, <1>3, <1>4, RunIs, RunInOrder DEF PageTypes
<1> HIDE DEF first
<1>7. Types
  <2>1. served \in Nat /\ fetch \in Fetches /\ fetch.since <= served
    BY <1>1 DEF Fetches
  <2> QED
    BY <1>1, <1>3, <1>5, <1>6, <2>1 DEF Types, ReadTypes
<1>8. None # "page"
  BY ViewsAssumption
<1>9. ShownBelongs
  BY <1>1, <1>2, <1>5, <1>8 DEF ShownBelongs, Mounted
<1>10. AllAboveReady
  BY <1>1, <1>2 DEF AllAboveReady, Mounted
<1>11. TurnedExists /\ \A b \in Block : FreshEnough(b)
  BY <1>1, <1>2, <1>5 DEF TurnedExists, FreshEnough
<1>12. RunsSound
  BY <1>1, <1>2, <1>5, <1>6, <1>8
     DEF RunsSound, RunsAreAwaited, OneRunPerView, RunsInOrder, Mounted
<1> QED
  BY <1>7, <1>9, <1>10, <1>11, <1>12 DEF IInv, ScreenSound

LEMMA StepHolds ==
    ASSUME IInv, [Next]_vars
    PROVE  IInv'
<1>1. CASE \E r \in runs : Answer(r) \/ Fail(r) \/ Late(r)
  BY <1>1, AnswerStep, FailStep, LateStep
<1>2. CASE AnswerStatus
  BY <1>2, AnswerStatusStep
<1>3. CASE \E tab \in Visited, site \in Site : Navigate(tab, site)
  BY <1>3, NavigateStep
<1>4. CASE EndSession
  BY <1>4, EndSessionStep
<1>5. CASE SignIn
  BY <1>5, SignInStep
<1>6. CASE \E b \in Block : Close(b) \/ Retry(b) \/ TurnPage(b) \/ \E x \in Arg : Open(b, x)
  BY <1>6, CloseStep, RetryStep, TurnPageStep, OpenStep
<1>7. CASE Publish
  BY <1>7, PublishStep
<1>8. CASE UNCHANGED vars
  BY <1>8, StutterStep
<1> QED
  BY <1>1, <1>2, <1>3, <1>4, <1>5, <1>6, <1>7, <1>8 DEF Next, Turn, User

-----------------------------------------------------------------------------
(* Nobody is forgotten: an inductive property on top of the invariant.     *)

\* The fetch that is shared among readers rs is open while one of them waits.
LEMMA FetchShared ==
    ASSUME NEW rs, NEW was
    PROVE  Fetch(rs, was).open <=> Waiting(rs) # {}
BY DEF Fetch, NoFetch

\* Effects of S end and those of begin begin: what loads afterwards, loads by an
\* effect of begin or by one that goes on outside S.
LEMMA EffectsServe ==
    ASSUME NobodyForgotten, NEW S, NEW begin, Effects(S, begin),
           \A r \in begin : ~r.aborted,
           \A b \in Block : shown'[b].phase = "loading" =>
              \/ \E r \in begin : r.block = b
              \/ b \notin S /\ shown[b].phase = "loading"
    PROVE  NobodyForgotten'
<1> DEFINE ended == {r \in runs : r.block \in S /\ ~r.aborted}
           now == (runs \ ended) \union Aborted(ended) \union begin
<1>1. runs' = now /\ fetch' = Fetch(now, IF Waiting(runs \ ended) = {} THEN NoFetch ELSE fetch)
  BY DEF Effects
<1>2. fetch'.open <=> Waiting(runs') # {}
  <2> HIDE DEF now, ended
  <2> QED
    BY <1>1, FetchShared
<1>3. ASSUME NEW b \in Block, shown'[b].phase = "loading"
      PROVE  \E r \in runs' : r.block = b /\ ~r.aborted
  <2>1. CASE \E r \in begin : r.block = b
    BY <1>1, <2>1
  <2>2. CASE b \notin S /\ shown[b].phase = "loading"
    <3>1. PICK r \in runs : r.block = b /\ ~r.aborted
      BY <2>2 DEF NobodyForgotten, LiveRuns
    <3>2. r \notin ended
      BY <2>2, <3>1
    <3> QED
      BY <1>1, <3>1, <3>2
  <2> QED
    BY <1>3, <2>1, <2>2
<1> QED
  BY <1>2, <1>3 DEF NobodyForgotten, LiveRuns, Waiting

\* What is not loading.
LEMMA NotLoading ==
    /\ Absent.phase # "loading"
    /\ \A key : Showing("ready", key).phase # "loading" /\ Showing("error", key).phase # "loading"
BY DEF Absent, Showing

LEMMA MountServes ==
    ASSUME NobodyForgotten, NEW b \in Block, NEW x, Mount(b, x)
    PROVE  NobodyForgotten'
<1> DEFINE begin == IF Silent(b) THEN {} ELSE {Run(b, Key(b)')}
<1>1. /\ Effects(Subtree[b], begin)
      /\ shown' = [d \in Block |->
                     IF d = b THEN Showing(IF Silent(b) THEN "ready" ELSE "loading", Key(b)')
                     ELSE IF d \in Subtree[b] THEN Absent ELSE shown[d]]
  BY DEF Mount
<1>2. \A r \in begin : ~r.aborted /\ r.block = b
  BY DEF Run
<1>3. ASSUME NEW d \in Block, shown'[d].phase = "loading"
      PROVE  (\E r \in begin : r.block = d) \/ (d \notin Subtree[b] /\ shown[d].phase = "loading")
  <2>1. CASE d = b
    <3>1. ~Silent(b)
      BY <1>1, <1>3, <2>1, NotLoading
    <3> QED
      BY <1>2, <2>1, <3>1
  <2>2. CASE d # b
    BY <1>1, <1>3, <2>2, NotLoading
  <2> QED
    BY <2>1, <2>2
<1> HIDE DEF begin
<1> QED
  BY <1>1, <1>2, <1>3, EffectsServe

LEMMA UnmountServes ==
    ASSUME NobodyForgotten, NEW S, Unmount(S)
    PROVE  NobodyForgotten'
<1>1. /\ Effects(S, {})
      /\ shown' = [d \in Block |-> IF d \in S THEN Absent ELSE shown[d]]
  BY DEF Unmount
<1>2. \A d \in Block : shown'[d].phase = "loading" => d \notin S /\ shown[d].phase = "loading"
  BY <1>1, NotLoading
<1> QED
  BY <1>1, <1>2, EffectsServe

LEMMA NavigateServes ==
    ASSUME NobodyForgotten, NEW tab, NEW site, Navigate(tab, site)
    PROVE  NobodyForgotten'
<1> DEFINE gone == {b \in Block : Table[b].tab # "all"}
           roots == Roots(place'.tab)
           begin == {Run(b, Key(b)') : b \in roots}
<1>1. /\ Effects(gone, begin)
      /\ shown' = [b \in Block |-> IF b \in roots THEN Showing("loading", Key(b)')
                                   ELSE IF b \in gone THEN Absent ELSE shown[b]]
  BY DEF Navigate, Show
<1>2. /\ \A r \in begin : ~r.aborted
      /\ \A b \in roots : \E r \in begin : r.block = b
  <2>1. \A b : Run(b, Key(b)').block = b /\ ~Run(b, Key(b)').aborted
    BY DEF Run
  <2> HIDE DEF roots
  <2> QED
    BY ONLY <2>1
<1> HIDE DEF gone, begin, roots
<1>3. \A d \in Block : shown'[d].phase = "loading" =>
         (\E r \in begin : r.block = d) \/ (d \notin gone /\ shown[d].phase = "loading")
  BY <1>1, <1>2, NotLoading
<1> QED
  BY <1>1, <1>2, <1>3, EffectsServe

LEMMA TurnPageServes ==
    ASSUME NobodyForgotten, NEW b \in Block, TurnPage(b)
    PROVE  NobodyForgotten'
<1> DEFINE closed == IF Table[b].closing THEN Subtree[b] \ {b} ELSE {}
<1>1. /\ Effects(closed, {})
      /\ shown' = [d \in Block |-> IF d \in closed THEN Absent ELSE shown[d]]
  BY DEF TurnPage
<1> HIDE DEF closed
<1>2. \A d \in Block : shown'[d].phase = "loading" => d \notin closed /\ shown[d].phase = "loading"
  BY <1>1, NotLoading
<1>3. \A r \in {} : ~r.aborted
  OBVIOUS
<1> QED
  BY <1>1, <1>2, <1>3, EffectsServe

\* One effect r ends, and its view, if r is live, loads no more; all others go on.
LEMMA EndServes ==
    ASSUME IInv, NobodyForgotten, NEW r \in runs, runs' = runs \ {r},
           fetch'.open <=> Waiting(runs') # {},
           NEW result, result.phase # "loading", Conclude(r, result)
    PROVE  NobodyForgotten'
<1>1. ASSUME NEW b \in Block, shown'[b].phase = "loading"
      PROVE  \E q \in runs' : q.block = b /\ ~q.aborted
  <2>1. shown[b].phase = "loading" /\ (r.block = b => r.aborted)
    <3>1. CASE r.aborted
      BY <1>1, <3>1 DEF Conclude
    <3>2. CASE ~r.aborted
      <4>1. shown' = [shown EXCEPT ![r.block] = result] /\ shown \in [Block -> Shows]
        BY <3>2 DEF Conclude, IInv, Types, ReadTypes
      <4>2. shown'[b] = IF r.block = b THEN result ELSE shown[b]
        BY ONLY <1>1, <4>1
      <4> QED
        BY ONLY <1>1, <4>2, result.phase # "loading"
    <3> QED
      BY <3>1, <3>2
  <2>2. PICK q \in runs : q.block = b /\ ~q.aborted
    BY <2>1 DEF NobodyForgotten, LiveRuns
  <2> QED
    BY <2>1, <2>2
<1> QED
  BY <1>1 DEF NobodyForgotten, LiveRuns, Waiting

LEMMA AnswerServes ==
    ASSUME IInv, NobodyForgotten, NEW r \in runs, Answer(r)
    PROVE  NobodyForgotten'
<1>1. PICK read :
         LET holding == [r EXCEPT !.rows = @ \union read]
         IN  IF IsLast(r)
             THEN /\ runs' = runs \ {r}
                  /\ Conclude(r, Success(holding, r.before))
                  /\ UNCHANGED fetch
             ELSE /\ runs' = (runs \ {r}) \union {Advanced(holding)}
                  /\ fetch' = Fetch(runs', fetch)
                  /\ UNCHANGED shown
  BY DEF Answer
<1>2. ~r.aborted /\ Step(r) # "status" /\ r \in Effect
  BY DEF Answer, IInv, Types, ReadTypes
<1> DEFINE holding == [r EXCEPT !.rows = @ \union read]
<1>3. CASE IsLast(r)
  <2>1. runs' = runs \ {r} /\ fetch' = fetch /\ Conclude(r, Success(holding, r.before))
    BY <1>1, <1>3
  <2>2. Success(holding, r.before).phase # "loading"
    BY DEF Success, Showing, Absent
  <2>3. Waiting(runs') = Waiting(runs)
    BY <1>2, <2>1 DEF Waiting
  <2>4. fetch'.open <=> Waiting(runs') # {}
    BY <2>1, <2>3 DEF NobodyForgotten
  <2> HIDE DEF holding
  <2> QED
    BY <2>1, <2>2, <2>4, EndServes
<1>4. CASE ~IsLast(r)
  <2>1. /\ runs' = (runs \ {r}) \union {Advanced(holding)}
        /\ fetch' = Fetch(runs', fetch) /\ shown' = shown
    BY <1>1, <1>4
  <2>2. Advanced(holding).block = r.block /\ ~Advanced(holding).aborted
    BY <1>2 DEF Advanced, Effect
  <2> HIDE DEF holding
  <2>3. fetch'.open <=> Waiting(runs') # {}
    BY <2>1, FetchShared
  <2>4. ASSUME NEW b \in Block, shown'[b].phase = "loading"
        PROVE  \E q \in runs' : q.block = b /\ ~q.aborted
    <3>1. PICK q \in runs : q.block = b /\ ~q.aborted
      BY <2>1, <2>4 DEF NobodyForgotten, LiveRuns
    <3> QED
      BY <2>1, <2>2, <3>1
  <2> QED
    BY <2>3, <2>4 DEF NobodyForgotten, LiveRuns, Waiting
<1> QED
  BY <1>3, <1>4

LEMMA FailServes ==
    ASSUME IInv, NobodyForgotten, NEW r \in runs, Fail(r)
    PROVE  NobodyForgotten'
<1>1. /\ runs' = runs \ {r} /\ Conclude(r, Failure(r))
      /\ fetch' = IF Waiting(runs') = {} THEN NoFetch ELSE fetch
  BY DEF Fail
<1>2. Waiting(runs') \subseteq Waiting(runs)
  BY <1>1 DEF Waiting
<1>3. fetch'.open <=> Waiting(runs') # {}
  BY <1>1, <1>2 DEF NobodyForgotten, NoFetch
<1>4. Failure(r).phase # "loading"
  BY NotLoading DEF Failure
<1> QED
  BY <1>1, <1>3, <1>4, EndServes

LEMMA LateServes ==
    ASSUME IInv, NobodyForgotten, NEW r \in runs, Late(r)
    PROVE  NobodyForgotten'
<1> DEFINE result == Success([r EXCEPT !.rows = {served}], served)
<1>1. runs' = runs \ {r} /\ Conclude(r, result) /\ fetch' = fetch /\ r.aborted
  BY DEF Late
<1>2. Waiting(runs') = Waiting(runs)
  BY <1>1 DEF Waiting
<1>3. fetch'.open <=> Waiting(runs') # {}
  BY <1>1, <1>2 DEF NobodyForgotten
<1>4. result.phase # "loading"
  BY DEF Success, Showing, Absent
<1> HIDE DEF result
<1> QED
  BY <1>1, <1>3, <1>4, EndServes

\* The report answers all who wait; those that go on read next, and wait for none.
LEMMA AnswerStatusServes ==
    ASSUME IInv, NobodyForgotten, AnswerStatus
    PROVE  NobodyForgotten'
<1>1. PICK v \in fetch.since .. served :
        LET asked == Waiting(runs)
            going == {r \in asked : Verdict(r, v) = "going on"}
            over == asked \ going
        IN  /\ runs' = (runs \ asked) \union {[Advanced(r) EXCEPT !.before = v] : r \in going}
            /\ shown' = [b \in Block |->
                           IF \E r \in over : r.block = b
                           THEN LET r == CHOOSE q \in over : q.block = b
                                IN  IF Verdict(r, v) = "shown" THEN Success(r, v) ELSE Failure(r)
                           ELSE shown[b]]
            /\ fetch' = NoFetch
  BY DEF AnswerStatus
<1> DEFINE asked == Waiting(runs)
           going == {r \in asked : Verdict(r, v) = "going on"}
           over == asked \ going
           Next1(r) == [Advanced(r) EXCEPT !.before = v]
<1>2. v \in Nat /\ v <= served
  <2>1. fetch.since \in Nat /\ served \in Nat
    BY DEF IInv, Types, PageTypes, ReadTypes, Fetches
  <2>2. v \in fetch.since .. served
    OBVIOUS
  <2> QED
    BY ONLY <2>1, <2>2
<1>3. \A r \in asked : r \in runs /\ ~r.aborted /\ Step(r) = "status"
  BY DEF Waiting
<1>4. ASSUME NEW r \in going
      PROVE  /\ Next1(r).block = r.block /\ ~Next1(r).aborted
             /\ Step(Next1(r)) # "status"
  <2>1. r \in runs /\ ~r.aborted /\ Step(r) = "status" /\ Verdict(r, v) = "going on"
    BY <1>3
  <2>2. Next1(r).block = r.block /\ ~Next1(r).aborted
    BY <1>2, <2>1, VerdictIs
  <2>3. /\ r \in Effect /\ r.step \in 1 .. Len(Table[r.block].steps)
        /\ Len(Table[r.block].steps) \in Nat
        /\ r.step < Len(Table[r.block].steps) => Table[r.block].steps[r.step + 1] # "status"
    BY <2>1, LiveStep
  <2>4. r.step < Len(Table[r.block].steps)
    BY <2>1, <2>3 DEF Verdict, IsLast
  <2>5. Next1(r).step = r.step + 1
    BY <2>3 DEF Advanced, Effect
  <2> QED
    BY <2>2, <2>3, <2>4, <2>5 DEF Step
<1>5. /\ runs' = (runs \ asked) \union {Next1(r) : r \in going} /\ fetch' = NoFetch
      /\ \A b \in Block : shown'[b].phase = "loading" =>
            shown[b].phase = "loading" /\ ~\E r \in over : r.block = b
  <2>1. \A r : Success(r, v).phase # "loading" /\ Failure(r).phase # "loading"
    BY DEF Success, Failure, Showing, Absent
  <2> QED
    BY <1>1, <2>1
<1>6. \A r \in runs : r \in asked \/ (r \in runs' /\ r \notin asked)
  BY <1>5
<1>7. \A r \in asked : r \in going \/ r \in over
  OBVIOUS
<1>8. \A r \in runs \ asked : r.aborted \/ Step(r) # "status"
  BY DEF Waiting
<1> HIDE DEF asked, going, over, Next1
<1>9. Waiting(runs') = {}
  BY <1>4, <1>5, <1>8 DEF Waiting
<1>10. ASSUME NEW b \in Block, shown'[b].phase = "loading"
       PROVE  \E q \in runs' : q.block = b /\ ~q.aborted
  <2>1. PICK r \in runs : r.block = b /\ ~r.aborted
    BY <1>5, <1>10 DEF NobodyForgotten, LiveRuns
  <2>2. CASE r \in going
    BY <1>4, <1>5, <2>1, <2>2
  <2>3. CASE r \notin going
    BY <1>5, <1>6, <1>7, <1>10, <2>1, <2>3
  <2> QED
    BY <2>2, <2>3
<1>11. fetch'.open <=> Waiting(runs') # {}
  BY <1>5, <1>9 DEF NoFetch
<1> QED
  BY <1>10, <1>11 DEF NobodyForgotten, LiveRuns

LEMMA NobodyForgottenStep ==
    ASSUME IInv, NobodyForgotten, [Next]_vars
    PROVE  NobodyForgotten'
<1>1. CASE \E r \in runs : Answer(r) \/ Fail(r) \/ Late(r)
  BY <1>1, AnswerServes, FailServes, LateServes
<1>2. CASE AnswerStatus
  BY <1>2, AnswerStatusServes
<1>3. CASE \E tab \in Visited, site \in Site : Navigate(tab, site)
  BY <1>3, NavigateServes
<1>4. CASE EndSession
  BY <1>4, UnmountServes DEF EndSession
<1>5. CASE SignIn
  BY <1>5, MountServes, FreshnessIs DEF SignIn
<1>6. CASE \E b \in Block : Close(b) \/ Retry(b) \/ TurnPage(b) \/ \E x \in Arg : Open(b, x)
  <2> SUFFICES ASSUME NEW b \in Block,
                      Close(b) \/ Retry(b) \/ TurnPage(b) \/ \E x \in Arg : Open(b, x)
               PROVE  NobodyForgotten'
    BY <1>6
  <2>1. CASE Close(b)
    BY <2>1, UnmountServes DEF Close
  <2>2. CASE Retry(b)
    BY <2>2, MountServes DEF Retry
  <2>3. CASE TurnPage(b)
    BY <2>3, TurnPageServes
  <2>4. CASE \E x \in Arg : Open(b, x)
    BY <2>4, MountServes DEF Open
  <2> QED
    BY <2>1, <2>2, <2>3, <2>4
<1>7. CASE Publish \/ UNCHANGED vars
  <2>1. shown' = shown /\ runs' = runs /\ fetch' = fetch
    BY <1>7 DEF Publish, vars
  <2> QED
    BY <2>1 DEF NobodyForgotten, LiveRuns, Waiting, Step
<1> QED
  BY <1>1, <1>2, <1>3, <1>4, <1>5, <1>6, <1>7 DEF Next, Turn, User

\* The first effect asks for the freshness, and the fetch is open for it.
LEMMA NobodyForgottenFirst ==
    ASSUME Init
    PROVE  NobodyForgotten
<1> DEFINE f == "freshness"
           first == Run(f, Key(f))
<1>1. /\ runs = {first} /\ fetch.open
      /\ shown = [b \in Block |-> IF b = f THEN Showing("loading", Key(b)) ELSE Absent]
  BY DEF Init
<1>2. first.block = f /\ first.step = 1 /\ ~first.aborted
  BY DEF Run
<1>3. Step(first) = "status"
  <2>1. <<"status">>[1] = "status"
    OBVIOUS
  <2> QED
    BY <1>2, <2>1, FreshnessIs DEF Step, FreshnessBanner, View
<1> HIDE DEF first
<1>4. Waiting(runs) = {first}
  BY <1>1, <1>2, <1>3 DEF Waiting
<1>5. \A b \in Block : shown[b].phase = "loading" => b = f
  BY <1>1, NotLoading
<1> QED
  BY <1>1, <1>2, <1>4, <1>5 DEF NobodyForgotten, LiveRuns

\* The invariant holds of every behaviour.
THEOREM Invariance == Spec => []IInv
BY InitHolds, StepHolds, PTL DEF Spec

\* A view that loads has an effect that reads for it, and the shared fetch of the
\* freshness lasts as long as somebody waits for it: no view loads for ever because
\* its reading or the fetch it waited for left with another (Activity.tsx useBlock;
\* frontend/src/api ReadScheduler's shared reads).  It is the safety half of LoadingEnds.
THEOREM NobodyIsForgotten == Spec => []NobodyForgotten
<1>1. Init => NobodyForgotten
  BY NobodyForgottenFirst
<1>2. IInv /\ NobodyForgotten /\ [Next]_vars => NobodyForgotten'
  BY NobodyForgottenStep
<1> QED
  BY <1>1, <1>2, Invariance, PTL DEF Spec

\* No view of the browser ever shows rows, a failure or its loading of another
\* session, store, period or row than it stands for (the effects' cancellation,
\* Activity.tsx useBlock, and the keys of the components).
THEOREM ShownBelongsHolds == Spec => []ShownBelongs
<1>1. IInv => ShownBelongs
  BY DEF IInv, ScreenSound
<1> QED
  BY <1>1, Invariance, PTL

\* Nothing stays open beneath a view that loads or has failed.
THEOREM OpenedUnderRowsHolds == Spec => []OpenedUnderRows
<1>1. IInv => OpenedUnderRows
  <2> SUFFICES ASSUME IInv, NEW b \in Block, Mounted(b), Nested(b)
               PROVE  shown[Parent(b)].phase = "ready"
    BY DEF OpenedUnderRows
  <2>1. Parent(b) \in Path[b] /\ Parent(b) # b
    BY ParentIs
  <2> QED
    BY <2>1 DEF IInv, ScreenSound, AllAboveReady
<1> QED
  BY <1>1, Invariance, PTL

\* Rows are never older than the freshness shown with them, although the reports
\* are answered by fetches that others began (the two status reads around each
\* collection, Presence.tsx load).
THEOREM NotOlderThanFreshnessHolds == Spec => []NotOlderThanFreshness
<1>1. IInv => NotOlderThanFreshness
  BY DEF IInv, ScreenSound, NotOlderThanFreshness, FreshEnough
<1> QED
  BY <1>1, Invariance, PTL

\* The page of a list that is shown exists, whatever a new reading found (the
\* lists of Typologies.tsx Rows, whose page is their own state).
THEOREM PageExistsHolds == Spec => []PageExists
<1>1. IInv => PageExists
  <2> SUFFICES ASSUME IInv, NEW b \in Block, Mounted(b), shown[b].phase = "ready"
               PROVE  turned[b] < PageCount(b)
    BY DEF PageExists
  <2>1. PageCount(b) \in {1, 2}
    BY DEF PageCount, PagesOf, Pages
  <2> QED
    BY <2>1 DEF IInv, ScreenSound, TurnedExists
<1> QED
  BY <1>1, Invariance, PTL

-----------------------------------------------------------------------------
(* The session that is assumed.                                            *)

\* The session of the views is one that BrowserSession provides: they assume
\* nothing of it but what SessionLife promises (the generation that keys the page,
\* SessionBoundary).
THEOREM SessionIsThatOfTheBrowser == Spec => SessionAssumed
<1>1. Init => Life!Init
  BY DEF Init, Life!Init
<1>2. ASSUME IInv, [Next]_vars
      PROVE  [Life!Next]_(Life!lifeVars)
  <2>1. CASE EndSession
    BY <2>1 DEF EndSession, Life!Next, Life!End
  <2>2. CASE SignIn
    <3>1. session' = [session EXCEPT !.open = TRUE] /\ ~session.open
      BY <2>2 DEF SignIn
    <3>2. session \in [open : BOOLEAN, generation : Nat]
      BY <1>2 DEF IInv, Types, PageTypes
    <3>3. session'.open = TRUE /\ session'.generation = session.generation /\ session.open = FALSE
      BY ONLY <3>1, <3>2
    <3> QED
      BY <3>3 DEF Life!Next, Life!Accept
  <2>3. CASE UNCHANGED session
    BY <2>3 DEF Life!lifeVars
  <2>4. CASE Turn \/ Publish
    BY <2>3, <2>4 DEF Turn, Answer, Fail, Late, AnswerStatus, Publish
  <2>5. CASE \E tab \in Visited, site \in Site : Navigate(tab, site)
    BY <2>3, <2>5 DEF Navigate
  <2>6. CASE \E b \in Block : Close(b) \/ Retry(b) \/ TurnPage(b) \/ \E x \in Arg : Open(b, x)
    BY <2>3, <2>6 DEF Close, Retry, TurnPage, Open
  <2>7. CASE UNCHANGED vars
    BY <2>3, <2>7 DEF vars
  <2> QED
    BY <1>2, <2>1, <2>2, <2>4, <2>5, <2>6, <2>7 DEF Next, User
<1> QED
  BY <1>1, <1>2, Invariance, PTL DEF Spec, SessionAssumed, Life!Spec
=============================================================================
