----------------------- MODULE CollectionPagesProofs -----------------------
(***************************************************************************)
(* Proofs about CollectionPages, for any number of rows, any limit and any *)
(* lists, however long the user turns pages while rows are imported.       *)
(***************************************************************************)
EXTENDS CollectionPages, SequenceTheorems, FiniteSetTheorems,
        WellFoundedInduction, TLAPS

-----------------------------------------------------------------------------
(* The inductive invariant.                                                *)

Filters == [store : {Any} \union {e.store : e \in Entries}, tag : Tag \union {Any}]
Cursors == [at : Nat, filters : Filters]
Requests == [query : Filters, after : Cursors, opened : Row \union {Any}, revision : Nat]
Runs == [request : Requests, aborted : BOOLEAN, cached : BOOLEAN]
Whys == {"none", "refused", "unopenable", "undecodable", "invalid", "failed"}
States == [phase : {"loading", "error", "ready"}, why : Whys, request : Requests,
           rows : SUBSET (Row \X Tag), next : Cursors]

Types ==
    /\ held \in Contents /\ formerly \in Contents /\ touched \subseteq Row
    /\ query \in Filters /\ query.store = entry.store
    /\ position \in [index : Nat, cursors : Seq(Cursors)]
    /\ opened \in Row \union {Any} /\ revision \in Nat
    /\ state \in States
    /\ runs \subseteq Runs
    /\ walk \in Seq(SUBSET Row)

\* The cursors ascend from the first page on and are those of the query that is
\* applied, and the index is that of one of them.
PlaceSound ==
    /\ position.index \in 1 .. Len(position.cursors)
    /\ position.cursors[1] = Start
    /\ \A i, j \in 1 .. Len(position.cursors) :
          i < j => position.cursors[i].at < position.cursors[j].at
    /\ \A i \in 2 .. Len(position.cursors) : position.cursors[i].filters = query

\* What was walked over lies between the cursors that led on, and is all that no
\* import has touched.
WalkSound ==
    /\ Len(walk) = position.index - 1
    /\ \A i \in 1 .. Len(walk) : \A r \in walk[i] :
          position.cursors[i].at < r /\ r <= position.cursors[i + 1].at
    /\ \A i \in 1 .. position.index : \A r \in Fits(held, query) \ touched :
          r <= position.cursors[i].at => \E j \in 1 .. i - 1 : r \in walk[j]

ImportSound == \A r \in Row \ touched : held[r] = formerly[r]

DetailFits == opened # Any => query.store \in {Any, StoreOf(opened)}

\* An effect that was not ended reads what is asked for now.
RunsPresent == \A run \in runs : ~run.aborted => run.request = Request

\* The rows of an answer are those of its request, and its cursor leads beyond
\* them, over no other row that stayed.
Answers(s) ==
    /\ \A row \in s.rows :
          /\ s.request.query.store \in {Any, StoreOf(row[1])}
          /\ IF s.request.opened # Any THEN row[1] = s.request.opened
             ELSE row[1] > s.request.after.at /\ s.request.query.tag \in {Any, row[2]}
    /\ Cardinality(s.rows) <= Limit
    /\ s.next # End =>
          /\ s.request.opened = Any
          /\ s.next.filters = s.request.query
          /\ s.next.at > s.request.after.at
          /\ \A row \in s.rows : row[1] <= s.next.at

LeadsOver(s) ==
    s.next # End =>
        \A r \in Fits(held, s.request.query) \ touched :
            s.request.after.at < r /\ r <= s.next.at => \E row \in s.rows : row[1] = r

StateSound ==
    /\ state.phase = "ready" => Answers(state) /\ LeadsOver(state)
    /\ state.why \notin {"refused", "invalid"}

IInv == Types /\ PlaceSound /\ WalkSound /\ ImportSound /\ DetailFits /\ RunsPresent /\ StateSound

-----------------------------------------------------------------------------
(* Rows in their order.                                                    *)

\* A set of rows that is not empty has a last one, after which the cursor is named
\* (api/query.py).
LEMMA LastIsLast ==
    ASSUME NEW rows \in SUBSET Row, rows # {}
    PROVE  LastOf(rows) \in rows /\ \A s \in rows : s <= LastOf(rows)
<1>1. MaxRow \in Nat
  BY PagesAssumption
<1> DEFINE T == {MaxRow - r : r \in rows}
<1>2. T \subseteq Nat /\ T # {}
  <2>1. \A r \in rows : MaxRow - r \in Nat
    BY <1>1 DEF Row
  <2> QED
    BY <2>1
<1>3. PICK m \in T : \A n \in T : ~(<<n, m>> \in OpToRel(<, Nat))
  BY <1>2, NatLessThanWellFounded, WFMin
<1>4. \A n \in T : ~(n < m)
  BY <1>2, <1>3 DEF OpToRel
<1>5. PICK r \in rows : m = MaxRow - r
  BY <1>3
<1>6. ASSUME NEW s \in rows
      PROVE  s <= r
  <2>1. MaxRow - s \in T /\ s \in Nat /\ r \in Nat
    BY DEF Row
  <2>2. ~(MaxRow - s < MaxRow - r)
    BY <1>4, <1>5, <2>1
  <2> QED
    BY <1>1, <2>1, <2>2
<1> QED
  BY <1>6 DEF LastOf

\* The rows of a set of rows are finitely many.
LEMMA RowsFinite ==
    ASSUME NEW rows \in SUBSET Row
    PROVE  IsFiniteSet(rows) /\ Cardinality(rows) \in Nat
<1>1. IsFiniteSet(1 .. MaxRow)
  BY FS_Interval, PagesAssumption
<1> QED
  BY <1>1, FS_Subset, FS_CardinalityType DEF Row

\* A page takes the first rows, as many as its limit and at least one (the LIMIT of
\* api/query.py).
LEMMA FirstAreFirst ==
    ASSUME NEW rows \in SUBSET Row, NEW n \in Nat \ {0}
    PROVE  /\ FirstOf(rows, n) \subseteq rows
           /\ rows # {} => FirstOf(rows, n) # {}
           /\ Cardinality(FirstOf(rows, n)) <= n
           /\ \A r \in FirstOf(rows, n) : \A s \in rows : s <= r => s \in FirstOf(rows, n)
<1> DEFINE UpTo(r) == {s \in rows : s <= r}
<1>1. FirstOf(rows, n) = {r \in rows : Cardinality(UpTo(r)) <= n}
  BY DEF FirstOf
<1>2. \A r \in rows : UpTo(r) \in SUBSET Row /\ IsFiniteSet(UpTo(r)) /\ Cardinality(UpTo(r)) \in Nat
  BY RowsFinite
<1>3. \A r, s \in rows : s <= r => Cardinality(UpTo(s)) <= Cardinality(UpTo(r))
  <2> SUFFICES ASSUME NEW r \in rows, NEW s \in rows, s <= r
               PROVE  Cardinality(UpTo(s)) <= Cardinality(UpTo(r))
    OBVIOUS
  <2>1. UpTo(s) \subseteq UpTo(r)
    <3>1. \A q \in rows : q <= s => q <= r
      <4>1. \A q \in rows : q \in Nat
        BY DEF Row
      <4> QED
        BY <4>1
    <3> QED
      BY <3>1
  <2> HIDE DEF UpTo
  <2> QED
    BY <1>2, <2>1, FS_Subset
<1>4. ASSUME NEW r \in FirstOf(rows, n), NEW s \in rows, s <= r
      PROVE  s \in FirstOf(rows, n)
  <2> HIDE DEF UpTo
  <2>1. Cardinality(UpTo(r)) <= n /\ Cardinality(UpTo(s)) <= Cardinality(UpTo(r)) /\ r \in rows
    BY <1>1, <1>3, <1>4
  <2> QED
    BY <1>1, <1>2, <2>1
<1>5. rows # {} => FirstOf(rows, n) # {}
  <2> SUFFICES ASSUME rows # {}
               PROVE  FirstOf(rows, n) # {}
    OBVIOUS
  <2> DEFINE T == rows
  <2>1. T \subseteq Nat
    BY PagesAssumption DEF Row
  <2>2. PICK m \in T : \A k \in T : ~(<<k, m>> \in OpToRel(<, Nat))
    BY <2>1, NatLessThanWellFounded, WFMin
  <2>3. UpTo(m) = {m}
    <3>1. \A k \in T : ~(k < m) /\ k \in Nat /\ m \in Nat
      BY <2>1, <2>2 DEF OpToRel
    <3>2. \A k \in T : k <= m <=> k = m
      BY <3>1
    <3> QED
      BY <3>2
  <2>4. Cardinality(UpTo(m)) = 1
    BY <2>3, FS_Singleton
  <2> QED
    BY <1>1, <2>4
<1>6. Cardinality(FirstOf(rows, n)) <= n
  <2> DEFINE first == FirstOf(rows, n)
  <2>1. first \in SUBSET Row /\ first \subseteq rows
    BY <1>1
  <2>2. CASE first = {}
    BY <2>2, FS_EmptySet
  <2>3. CASE first # {}
    <3> HIDE DEF first
    <3>1. PICK m \in first : \A s \in first : s <= m
      BY <2>1, <2>3, LastIsLast
    <3>2. first \subseteq UpTo(m) /\ m \in rows
      BY <2>1, <3>1
    <3>3. Cardinality(UpTo(m)) <= n
      BY <1>1, <3>1 DEF first
    <3> HIDE DEF UpTo
    <3>4. Cardinality(first) <= Cardinality(UpTo(m)) /\ Cardinality(first) \in Nat
      BY <1>2, <2>1, <3>2, FS_Subset, RowsFinite
    <3> QED
      BY <1>2, <3>2, <3>3, <3>4 DEF first
  <2> QED
    BY <2>2, <2>3
<1> QED
  BY <1>1, <1>4, <1>5, <1>6

\* A page shows each of its rows once.
LEMMA RowsCounted ==
    ASSUME NEW content, NEW rows \in SUBSET Row
    PROVE  Cardinality({<<r, content[r]>> : r \in rows}) = Cardinality(rows)
<1> DEFINE T == {<<r, content[r]>> : r \in rows}
           f == [r \in rows |-> <<r, content[r]>>]
<1>1. f \in Bijection(rows, T)
  BY DEF Bijection, Injection, Surjection, IsInjective
<1>2. ExistsBijection(rows, T)
  BY <1>1 DEF ExistsBijection
<1> QED
  BY <1>2, RowsFinite, FS_Bijection

-----------------------------------------------------------------------------
(* What the service answers, and what the screen makes of it.              *)

\* Rows that fit a query are rows, with their tags.
LEMMA FitsAreRows ==
    ASSUME NEW content \in Contents, NEW q
    PROVE  /\ Fits(content, q) \in SUBSET Row
           /\ \A r \in Fits(content, q) :
                 content[r] \in Tag /\ q.store \in {Any, StoreOf(r)} /\ q.tag \in {Any, content[r]}
BY DEF Fits, Contents

\* A page has the rows of its query beyond its cursor, and a cursor behind them
\* that leads over no row that fits (api/query.py).
LEMMA PageIsSound ==
    ASSUME NEW content \in Contents, NEW req \in Requests, NEW n \in 1 .. Limit,
           NEW page, page = Page(content, req, n)
    PROVE  /\ page.rows \in SUBSET (Row \X Tag)
           /\ page.next \in Cursors
           /\ \A row \in page.rows :
                 /\ req.query.store \in {Any, StoreOf(row[1])}
                 /\ req.query.tag \in {Any, row[2]}
                 /\ row[1] > req.after.at
           /\ Cardinality(page.rows) <= Limit
           /\ page.next # End =>
                 /\ page.rows # {}
                 /\ page.next.filters = req.query
                 /\ page.next.at > req.after.at
                 /\ \A row \in page.rows : row[1] <= page.next.at
                 /\ \A r \in Fits(content, req.query) :
                       req.after.at < r /\ r <= page.next.at => \E row \in page.rows : row[1] = r
<1> DEFINE fits == Fits(content, req.query)
           all == Beyond(fits, req.after)
           rows == FirstOf(all, n)
<1>1. page = [rows |-> {<<r, content[r]>> : r \in rows},
              next |-> IF rows = all THEN End ELSE [at |-> LastOf(rows), filters |-> req.query]]
  BY DEF Page
<1>2. fits \in SUBSET Row
      /\ \A r \in fits : /\ content[r] \in Tag /\ req.query.store \in {Any, StoreOf(r)}
                         /\ req.query.tag \in {Any, content[r]}
  BY FitsAreRows
<1> HIDE DEF fits
<1>3. all \in SUBSET Row /\ all \subseteq fits /\ \A r \in all : r > req.after.at
  BY <1>2 DEF Beyond
<1>4. \A r \in fits : r > req.after.at => r \in all
  BY DEF Beyond
<1> HIDE DEF all
<1>5. n \in Nat \ {0} /\ Limit \in Nat /\ MaxRow \in Nat
  BY PagesAssumption
<1>6. /\ rows \subseteq all /\ (all # {} => rows # {}) /\ Cardinality(rows) <= n
      /\ \A r \in rows : \A s \in all : s <= r => s \in rows
  BY <1>3, <1>5, FirstAreFirst
<1> HIDE DEF rows
<1>7. rows \in SUBSET Row
  BY <1>3, <1>6
<1>8. page.rows = {<<r, content[r]>> : r \in rows}
      /\ page.next = IF rows = all THEN End ELSE [at |-> LastOf(rows), filters |-> req.query]
  BY <1>1
<1>9. page.rows \in SUBSET (Row \X Tag)
  BY <1>2, <1>3, <1>6, <1>7, <1>8
<1>10. ASSUME NEW row \in page.rows
       PROVE  /\ req.query.store \in {Any, StoreOf(row[1])}
              /\ req.query.tag \in {Any, row[2]}
              /\ row[1] > req.after.at /\ row[1] \in rows
  <2>1. PICK r \in rows : row = <<r, content[r]>>
    BY <1>8
  <2>2. row[1] = r /\ row[2] = content[r] /\ r \in fits /\ r > req.after.at
    BY <1>3, <1>6, <2>1
  <2> QED
    BY <1>2, <2>2
<1>11. Cardinality(page.rows) <= Limit
  <2>1. Cardinality(page.rows) = Cardinality(rows) /\ Cardinality(rows) \in Nat
    BY <1>7, <1>8, RowsCounted, RowsFinite
  <2> QED
    BY <1>5, <1>6, <2>1
<1>12. page.next \in Cursors
  <2>1. End \in Cursors
    BY <1>5 DEF End, Start, Cursors, Filters
  <2>2. CASE rows # all
    <3>1. LastOf(rows) \in Row
      BY <1>3, <1>6, <1>7, <2>2, LastIsLast
    <3>2. LastOf(rows) \in Nat /\ req.query \in Filters
      BY <3>1 DEF Row, Requests
    <3> QED
      BY <1>8, <2>2, <3>2 DEF Cursors
  <2> QED
    BY <1>8, <2>1, <2>2
<1>13. ASSUME page.next # End
       PROVE  /\ page.rows # {}
              /\ page.next.filters = req.query
              /\ page.next.at > req.after.at
              /\ \A row \in page.rows : row[1] <= page.next.at
              /\ \A r \in fits :
                    req.after.at < r /\ r <= page.next.at => \E row \in page.rows : row[1] = r
  <2>1. page.next = [at |-> LastOf(rows), filters |-> req.query] /\ rows # {}
    BY <1>6, <1>8, <1>13
  <2>2. LastOf(rows) \in rows /\ \A r \in rows : r <= LastOf(rows)
    BY <1>7, <2>1, LastIsLast
  <2>3. page.next.at = LastOf(rows) /\ page.next.filters = req.query /\ page.rows # {}
    <3>1. page.next.at = LastOf(rows) /\ page.next.filters = req.query
      BY <2>1
    <3>2. page.rows # {}
      BY <1>8, <2>1
    <3> QED
      BY <3>1, <3>2
  <2>4. page.next.at > req.after.at
    BY <1>3, <1>6, <2>2, <2>3
  <2>5. \A row \in page.rows : row[1] <= page.next.at
    BY <1>10, <2>2, <2>3
  <2>6. ASSUME NEW r \in fits, req.after.at < r, r <= page.next.at
        PROVE  \E row \in page.rows : row[1] = r
    <3>1. r \in all
      <4>1. r \in Nat /\ req.after.at \in Nat
        BY <1>2 DEF Row, Requests, Cursors
      <4> QED
        BY <1>4, <2>6, <4>1
    <3>2. r \in rows
      BY <1>6, <2>2, <2>3, <2>6, <3>1
    <3>3. <<r, content[r]>> \in page.rows /\ <<r, content[r]>>[1] = r
      BY <1>8, <3>2
    <3> QED
      BY <3>3
  <2> QED
    BY <2>3, <2>4, <2>5, <2>6
<1> QED
  BY <1>9, <1>10, <1>11, <1>12, <1>13 DEF fits

\* What is asked for has its types.
LEMMA RequestTyped ==
    ASSUME IInv
    PROVE  /\ After = position.cursors[position.index] /\ After \in Cursors
           /\ Request \in Requests
           /\ Request.query = query /\ Request.after = After
           /\ Request.opened = opened /\ Request.revision = revision
<1>1. position.index \in DOMAIN position.cursors /\ position.cursors[position.index] \in Cursors
  BY LenProperties, ElementOfSeq DEF IInv, Types, PlaceSound
<1>2. After = position.cursors[position.index]
  BY <1>1 DEF After
<1> QED
  BY <1>1, <1>2 DEF Request, Requests, IInv, Types

\* The service never refuses a cursor of the screen: it is the first page's, or of
\* the query that is applied.
LEMMA NeverRefused ==
    ASSUME IInv
    PROVE  ~Refuses(Request)
<1>1. After = position.cursors[position.index] /\ Request.query = query /\ Request.after = After
  BY RequestTyped
<1>2. CASE position.index = 1
  BY <1>1, <1>2 DEF Refuses, IInv, PlaceSound
<1>3. CASE position.index # 1
  <2>1. position.index \in 2 .. Len(position.cursors)
    BY <1>3 DEF IInv, PlaceSound, Types
  <2> QED
    BY <1>1, <2>1 DEF Refuses, IInv, PlaceSound
<1> QED
  BY <1>2, <1>3

\* An effect that was not ended leaves a sound answer, and never takes a page of the
\* service for one that it cannot be (DataExplorer.tsx, the checks of a page).
LEMMA OutcomeSound ==
    ASSUME IInv, NEW content \in {held, formerly}, NEW n \in Limits,
           NEW s, s = Outcome(Request, content, n)
    PROVE  /\ s \in States
           /\ s.phase = "ready" => Answers(s) /\ LeadsOver(s)
           /\ s.why \notin {"refused", "invalid"}
<1> DEFINE req == Request
           listed == Page(content, req, n)
           detail == DetailPage(content, opened)
           page == IF opened = Any THEN listed ELSE detail
<1>1. content \in Contents /\ n \in 1 .. Limit /\ Limit \in Nat \ {0}
      /\ req \in Requests /\ req.query = query /\ req.after = After /\ req.opened = opened
      /\ After = position.cursors[position.index]
  BY RequestTyped, PagesAssumption DEF IInv, Types, Limits
<1>2. /\ opened = Any => /\ listed.rows \in SUBSET (Row \X Tag)
                         /\ listed.next \in Cursors
      /\ opened # Any => /\ opened \in Row /\ query.store \in {Any, StoreOf(opened)}
                         /\ content[opened] \in Tag \union {Gone}
  BY <1>1, PageIsSound DEF IInv, Types, DetailFits, Contents
<1>3. opened # Any => /\ detail.next = End
                      /\ detail.rows = IF content[opened] = Gone THEN {} ELSE {<<opened, content[opened]>>}
  BY DEF DetailPage
<1>4. page.rows \in SUBSET (Row \X Tag) /\ page.next \in Cursors
  <2>1. End \in Cursors
    BY PagesAssumption DEF End, Start, Cursors, Filters
  <2>2. CASE opened # Any
    <3>1. content[opened] # Gone => <<opened, content[opened]>> \in Row \X Tag
      BY <1>2, <2>2
    <3>2. detail.rows \in SUBSET (Row \X Tag)
      BY <1>3, <2>2, <3>1
    <3> QED
      BY <1>3, <2>1, <2>2, <3>2
  <2> QED
    BY <1>2, <2>2
<1>5. /\ \A row \in page.rows :
            /\ query.store \in {Any, StoreOf(row[1])}
            /\ IF opened # Any THEN row[1] = opened
               ELSE row[1] > After.at /\ query.tag \in {Any, row[2]}
      /\ Cardinality(page.rows) <= Limit
      /\ page.next # End =>
            /\ opened = Any
            /\ page.rows # {}
            /\ page.next.filters = query
            /\ page.next.at > After.at
            /\ \A row \in page.rows : row[1] <= page.next.at
            /\ \A r \in Fits(content, query) :
                  After.at < r /\ r <= page.next.at => \E row \in page.rows : row[1] = r
  <2>1. CASE opened = Any
    BY <1>1, <2>1, PageIsSound
  <2>2. CASE opened # Any
    <3>1. \A row \in detail.rows : row[1] = opened
      BY <1>3, <2>2
    <3>2. Cardinality(detail.rows) <= Limit
      <4>1. Cardinality({}) = 0 /\ Cardinality({<<opened, content[opened]>>}) = 1
        BY FS_EmptySet, FS_Singleton
      <4>2. 0 <= Limit /\ 1 <= Limit
        BY <1>1
      <4>3. detail.rows = {} \/ detail.rows = {<<opened, content[opened]>>}
        BY <1>3, <2>2
      <4> HIDE DEF detail
      <4> QED
        BY <4>1, <4>2, <4>3
    <3> QED
      BY <1>2, <1>3, <2>2, <3>1, <3>2
  <2> QED
    BY <2>1, <2>2
<1> HIDE DEF page
<1>6. Credible(req, page)
  <2>1. \A i \in 1 .. position.index : page.next # End => position.cursors[i] # page.next
    <3> SUFFICES ASSUME NEW i \in 1 .. position.index, page.next # End
                 PROVE  position.cursors[i] # page.next
      OBVIOUS
    <3>1. position.index \in 1 .. Len(position.cursors) /\ Len(position.cursors) \in Nat
          /\ i \in 1 .. Len(position.cursors)
      BY DEF IInv, PlaceSound, Types
    <3>2. position.cursors[i] \in Cursors /\ position.cursors[position.index] \in Cursors
      BY <3>1, ElementOfSeq DEF IInv, Types
    <3>3. position.cursors[i].at <= After.at
      <4>1. CASE i = position.index
        BY <1>1, <3>2, <4>1 DEF Cursors
      <4>2. CASE i # position.index
        <5>1. i < position.index
          BY <3>1, <4>2
        <5>2. position.cursors[i].at < position.cursors[position.index].at
          BY <3>1, <5>1 DEF IInv, PlaceSound
        <5> QED
          BY <1>1, <3>2, <5>2 DEF Cursors
      <4> QED
        BY <4>1, <4>2
    <3>4. position.cursors[i].at < page.next.at
      BY <1>1, <1>4, <1>5, <3>2, <3>3 DEF Cursors
    <3> QED
      BY <3>2, <3>4 DEF Cursors
  <2> QED
    BY <1>1, <1>5, <2>1 DEF Credible
<1>7. \/ s = Failed(req, "unopenable")
      \/ s = Failed(req, "undecodable")
      \/ s = Shown(req, page)
  BY <1>1, <1>6, NeverRefused DEF Outcome, page
<1>8. ASSUME NEW why \in {"unopenable", "undecodable"}, s = Failed(req, why)
      PROVE  s \in States /\ s.phase = "error" /\ s.why = why
  <2>1. s = [phase |-> "error", why |-> why, request |-> req, rows |-> {}, next |-> End]
    BY <1>8 DEF Failed, NoState
  <2>2. End \in Cursors
    BY PagesAssumption DEF End, Start, Cursors, Filters
  <2> QED
    BY <1>1, <2>1, <2>2 DEF States, Whys
<1>9. ASSUME s = Shown(req, page)
      PROVE  s \in States /\ Answers(s) /\ LeadsOver(s) /\ s.why = "none"
  <2>1. s = [phase |-> "ready", why |-> "none", request |-> req, rows |-> page.rows, next |-> page.next]
    BY <1>9 DEF Shown
  <2>2. s.request = req /\ s.rows = page.rows /\ s.next = page.next /\ s.why = "none"
    BY <2>1
  <2>3. s \in States
    BY <1>1, <1>4, <2>1 DEF States, Whys
  <2>4. Answers(s)
    BY <1>1, <1>5, <2>2 DEF Answers
  <2>5. \A r \in Fits(held, query) \ touched : r \in Fits(content, query)
    BY DEF Fits, IInv, ImportSound
  <2>6. LeadsOver(s)
    BY <1>1, <1>5, <2>2, <2>5 DEF LeadsOver
  <2> QED
    BY <2>2, <2>3, <2>4, <2>6
<1> QED
  BY <1>7, <1>8, <1>9

-----------------------------------------------------------------------------
(* The user's steps.                                                       *)

Placed ==
    /\ position \in [index : Nat, cursors : Seq(Cursors)]
    /\ walk \in Seq(SUBSET Row)
    /\ PlaceSound /\ WalkSound

\* A step of the user that leaves the place in the pages sound keeps the invariant:
\* every effect but the one that begins has been ended.
LEMMA StepKeeps ==
    ASSUME IInv, Restart, UNCHANGED <<held, formerly, touched, entry>>,
           state' = state \/ state' = NoState,
           query' \in Filters, query'.store = entry.store,
           opened' \in Row \union {Any}, revision' \in Nat,
           Placed', DetailFits'
    PROVE  IInv'
<1>1. position'.index \in DOMAIN position'.cursors /\ position'.cursors[position'.index] \in Cursors
  BY LenProperties, ElementOfSeq DEF Placed, PlaceSound
<1>2. Request' \in Requests
  <2>1. After' \in Cursors
    BY <1>1 DEF After
  <2> QED
    BY <2>1 DEF Request, Requests
<1>3. NoState \in States /\ NoState.phase = "loading" /\ NoState.why = "none"
  <2>1. Start \in Cursors /\ End \in Cursors /\ Start.filters \in Filters
    BY PagesAssumption DEF End, Start, Cursors, Filters
  <2> QED
    BY <2>1 DEF NoState, States, Whys, Requests
<1> DEFINE new == [request |-> Request', aborted |-> FALSE,
                   cached |-> entry.screen = "stores" /\ revision' = 0 /\ opened' = Any]
<1>4. runs' = {[r EXCEPT !.aborted = TRUE] : r \in runs} \union {new}
  BY DEF Restart
<1>5. new \in Runs /\ new.request = Request'
  <2>1. (entry.screen = "stores" /\ revision' = 0 /\ opened' = Any) \in BOOLEAN
    OBVIOUS
  <2> QED
    BY <1>2, <2>1 DEF Runs
<1>6. \A r \in runs : [r EXCEPT !.aborted = TRUE] \in Runs /\ [r EXCEPT !.aborted = TRUE].aborted
  BY DEF Runs, IInv, Types
<1> HIDE DEF new
<1>7. runs' \subseteq Runs /\ RunsPresent'
  BY <1>4, <1>5, <1>6 DEF RunsPresent
<1>8. Types'
  BY <1>3, <1>7 DEF IInv, Types, Placed
<1>9. ImportSound' /\ StateSound'
  <2>1. ImportSound'
    BY DEF IInv, ImportSound
  <2>2. CASE state' = state
    BY <2>1, <2>2 DEF IInv, StateSound, Answers, LeadsOver, Fits
  <2>3. CASE state' = NoState
    BY <1>3, <2>1, <2>3 DEF StateSound
  <2> QED
    BY <2>1, <2>2, <2>3
<1> QED
  BY <1>7, <1>8, <1>9 DEF IInv, Placed

\* The first page is a sound place, whatever the query (ToFirstPage).
LEMMA FirstPagePlaced ==
    ASSUME ToFirstPage, held' \in Contents
    PROVE  Placed'
<1>1. position' = [index |-> 1, cursors |-> <<Start>>] /\ walk' = <<>>
  BY DEF ToFirstPage
<1>2. Start \in Cursors /\ Start.at = 0
  BY DEF Start, Cursors, Filters
<1>3. /\ position'.index = 1 /\ position'.cursors = <<Start>>
      /\ position' \in [index : Nat, cursors : Seq(Cursors)]
  <2>1. <<Start>> \in Seq(Cursors)
    BY <1>2
  <2> QED
    BY <1>1, <2>1
<1>4. Len(position'.cursors) = 1 /\ position'.cursors[1] = Start
  BY <1>3
<1>5. walk' \in Seq(SUBSET Row) /\ Len(walk') = 0
  BY <1>1
<1>6. PlaceSound'
  BY <1>3, <1>4 DEF PlaceSound
<1>7. WalkSound'
  <2>1. \A r \in Row : ~(r <= 0)
    BY PagesAssumption DEF Row
  <2>2. Fits(held', query') \in SUBSET Row
    BY FitsAreRows
  <2>3. \A r \in Fits(held, query)' : ~(r <= 0)
    BY <2>1, <2>2 DEF Fits
  <2> QED
    BY <1>2, <1>3, <1>4, <1>5, <2>3 DEF WalkSound
<1> QED
  BY <1>3, <1>5, <1>6, <1>7 DEF Placed

\* A place that stays is as sound as it was.
LEMMA PlaceStays ==
    ASSUME IInv, UNCHANGED <<held, touched, query, position, walk>>
    PROVE  Placed'
BY DEF IInv, Types, Placed, PlaceSound, WalkSound, Fits

\* Applying filters keeps the invariant (the submit handler of DataExplorer.tsx).
LEMMA ApplyKeeps ==
    ASSUME IInv, NEW tag \in Tag \union {Any}, Apply(tag)
    PROVE  IInv'
<1>1. /\ Restart /\ ToFirstPage /\ UNCHANGED <<held, formerly, touched, entry, opened, state>>
      /\ query' = [store |-> entry.store, tag |-> tag] /\ revision' = revision + 1 /\ opened = Any
  BY DEF Apply
<1>2. query' \in Filters /\ query'.store = entry.store
  BY <1>1 DEF IInv, Types, Filters
<1>3. held' \in Contents /\ opened' \in Row \union {Any} /\ revision' \in Nat /\ DetailFits'
  BY <1>1 DEF IInv, Types, DetailFits
<1> QED
  BY <1>1, <1>2, <1>3, FirstPagePlaced, StepKeeps

\* Reading again from the first page keeps it.
LEMMA ReloadKeeps ==
    ASSUME IInv, ReloadFromFirst
    PROVE  IInv'
<1>1. /\ Restart /\ ToFirstPage /\ UNCHANGED <<held, formerly, touched, entry, query, opened, state>>
      /\ revision' = revision + 1
  BY DEF ReloadFromFirst
<1>2. /\ query' \in Filters /\ query'.store = entry.store
      /\ held' \in Contents /\ opened' \in Row \union {Any} /\ revision' \in Nat /\ DetailFits'
  BY <1>1 DEF IInv, Types, DetailFits
<1> QED
  BY <1>1, <1>2, FirstPagePlaced, StepKeeps

\* So does showing the view again, from its start or, for the stores, where it was
\* left (Stores.tsx, Workspace.tsx).
LEMMA ShowAgainKeeps ==
    ASSUME IInv, ShowAgain
    PROVE  IInv'
<1>1. /\ Restart /\ UNCHANGED <<held, formerly, touched, entry>> /\ state' = NoState
      /\ revision' = 0
  BY DEF ShowAgain
<1>2. CASE entry.screen = "stores"
  <2>1. UNCHANGED <<query, position, opened, walk>>
    BY <1>2 DEF ShowAgain
  <2>2. /\ query' \in Filters /\ query'.store = entry.store
        /\ opened' \in Row \union {Any} /\ revision' \in Nat /\ DetailFits'
    BY <1>1, <2>1 DEF IInv, Types, DetailFits
  <2> QED
    BY <1>1, <2>1, <2>2, PlaceStays, StepKeeps
<1>3. CASE entry.screen # "stores"
  <2>1. query' = [store |-> entry.store, tag |-> Any] /\ opened' = Any /\ ToFirstPage
    BY <1>3 DEF ShowAgain
  <2>2. query' \in Filters /\ query'.store = entry.store
    BY <2>1 DEF IInv, Types, Filters
  <2>3. held' \in Contents /\ opened' \in Row \union {Any} /\ revision' \in Nat /\ DetailFits'
    BY <1>1, <2>1 DEF IInv, Types, DetailFits
  <2> QED
    BY <1>1, <2>1, <2>2, <2>3, FirstPagePlaced, StepKeeps
<1> QED
  BY <1>2, <1>3

\* What is shown is the answer to what is asked for.
LEMMA ReadyIsAnswered ==
    ASSUME IInv, Ready
    PROVE  /\ Current = state /\ state.phase = "ready" /\ Answers(state) /\ LeadsOver(state)
           /\ state.request.query = query /\ state.request.after = After
           /\ state.request.opened = opened /\ state \in States
<1>1. Current = state /\ state.request = Request /\ state.phase = "ready"
  BY DEF Ready, Current, NoState
<1> QED
  BY <1>1, RequestTyped DEF IInv, StateSound, Types

\* So does opening a row that is shown.
LEMMA OpenKeeps ==
    ASSUME IInv, NEW r \in Row, Open(r)
    PROVE  IInv'
<1>1. /\ Restart /\ UNCHANGED <<held, formerly, touched, entry, query, position, revision, state, walk>>
      /\ opened' = r /\ Ready
  BY DEF Open
<1>2. PICK row \in Current.rows : row[1] = r
  BY DEF Open
<1>3. query.store \in {Any, StoreOf(r)}
  BY <1>1, <1>2, ReadyIsAnswered DEF Answers
<1>4. /\ query' \in Filters /\ query'.store = entry.store
      /\ opened' \in Row \union {Any} /\ revision' \in Nat /\ DetailFits'
  BY <1>1, <1>3 DEF IInv, Types, DetailFits
<1> QED
  BY <1>1, <1>4, PlaceStays, StepKeeps

\* Leaving the row or trying again keeps it.
LEMMA InPlaceKeeps ==
    ASSUME IInv, CloseDetail \/ Retry
    PROVE  IInv'
<1>1. /\ Restart /\ UNCHANGED <<held, formerly, touched, entry, query, position, state, walk>>
      /\ opened' \in {opened, Any} /\ revision' \in {revision, revision + 1}
  BY DEF CloseDetail, Retry
<1>2. /\ query' \in Filters /\ query'.store = entry.store
      /\ opened' \in Row \union {Any} /\ revision' \in Nat /\ DetailFits'
  BY <1>1 DEF IInv, Types, DetailFits
<1> QED
  BY <1>1, <1>2, PlaceStays, StepKeeps

\* Turning back keeps it: the walk ends where the page begins.
LEMMA PreviousPageKeeps ==
    ASSUME IInv, PreviousPage
    PROVE  IInv'
<1>1. /\ Restart /\ UNCHANGED <<held, formerly, touched, entry, query, opened, revision, state>>
      /\ position' = [position EXCEPT !.index = @ - 1]
      /\ walk' = SubSeq(walk, 1, position.index - 2)
      /\ position.index > 1
  BY DEF PreviousPage
<1> DEFINE m == position.index
<1>2. m \in Nat /\ m - 1 \in 1 .. Len(position.cursors) /\ Len(position.cursors) \in Nat /\ m > 1
      /\ Len(walk) = m - 1
  BY <1>1 DEF IInv, Types, PlaceSound, WalkSound
<1>3. position'.index = m - 1 /\ position'.cursors = position.cursors
      /\ position' \in [index : Nat, cursors : Seq(Cursors)]
  <2>1. position \in [index : Nat, cursors : Seq(Cursors)]
    BY DEF IInv, Types
  <2>2. position' = [index |-> m - 1, cursors |-> position.cursors]
    BY ONLY <1>1, <2>1
  <2>3. m - 1 \in Nat /\ position.cursors \in Seq(Cursors)
    BY ONLY <1>2, <2>1
  <2> QED
    BY ONLY <2>2, <2>3
<1>4. /\ walk' \in Seq(SUBSET Row) /\ Len(walk') = m - 2
      /\ \A i \in 1 .. m - 2 : walk'[i] = walk[i]
  <2>1. 1 \in Int /\ m - 2 \in Int /\ \A i \in 1 .. m - 2 : walk[i] \in SUBSET Row
    BY <1>2, ElementOfSeq DEF IInv, Types
  <2>2. walk' = SubSeq(walk, 1, m - 2)
    BY <1>1
  <2> HIDE DEF m
  <2>3. /\ walk' \in Seq(SUBSET Row)
        /\ Len(walk') = IF 1 <= m - 2 THEN (m - 2) - 1 + 1 ELSE 0
        /\ \A i \in 1 .. (m - 2) - 1 + 1 : walk'[i] = walk[1 + i - 1]
    BY <2>1, <2>2, SubSeqProperties
  <2> QED
    BY <1>2, <2>3
<1> HIDE DEF m
<1>5. PlaceSound'
  BY <1>1, <1>2, <1>3 DEF IInv, PlaceSound
<1>6. WalkSound'
  <2>1. Len(walk') = position'.index - 1
    BY <1>2, <1>3, <1>4
  <2>2. ASSUME NEW i \in 1 .. Len(walk'), NEW r \in walk'[i]
        PROVE  position'.cursors[i].at < r /\ r <= position'.cursors[i + 1].at
    <3>1. i \in 1 .. m - 2 /\ i \in 1 .. Len(walk)
      BY <1>2, <1>4
    <3>2. r \in walk[i]
      BY <1>4, <3>1
    <3> QED
      BY <1>3, <3>1, <3>2 DEF IInv, WalkSound
  <2>3. ASSUME NEW i \in 1 .. position'.index, NEW r \in Fits(held, query) \ touched,
               r <= position'.cursors[i].at
        PROVE  \E j \in 1 .. i - 1 : r \in walk'[j]
    <3>1. i \in 1 .. m /\ i \in 1 .. m - 1
      BY <1>2, <1>3
    <3>2. PICK j \in 1 .. i - 1 : r \in walk[j]
      BY <1>3, <2>3, <3>1 DEF IInv, WalkSound, m
    <3>3. j \in 1 .. m - 2
      BY <1>2, <3>1
    <3> QED
      BY <1>4, <3>2, <3>3
  <2>4. (Fits(held, query) \ touched)' = Fits(held, query) \ touched
    BY <1>1 DEF Fits
  <2> QED
    BY <2>1, <2>2, <2>3, <2>4 DEF WalkSound
<1>7. /\ query' \in Filters /\ query'.store = entry.store
      /\ opened' \in Row \union {Any} /\ revision' \in Nat /\ DetailFits'
  BY <1>1 DEF IInv, Types, DetailFits
<1> QED
  BY <1>1, <1>3, <1>4, <1>5, <1>6, <1>7, StepKeeps DEF Placed

\* What the cursors are after the page is turned.
LEMMA ContinuedIs ==
    ASSUME IInv, NEW next \in Cursors
    PROVE  /\ Continued(next) \in Seq(Cursors)
           /\ Len(Continued(next)) = position.index + 1
           /\ \A i \in 1 .. position.index : Continued(next)[i] = position.cursors[i]
           /\ Continued(next)[position.index + 1] = next
<1> DEFINE m == position.index
           front == SubSeq(position.cursors, 1, m)
<1>1. m \in Nat /\ m \in 1 .. Len(position.cursors) /\ Len(position.cursors) \in Nat
      /\ position.cursors \in Seq(Cursors)
  BY DEF IInv, Types, PlaceSound
<1>2. 1 \in Int /\ m \in Int /\ \A i \in 1 .. m : position.cursors[i] \in Cursors
  BY <1>1, ElementOfSeq
<1> HIDE DEF m
<1>3. /\ front \in Seq(Cursors)
      /\ Len(front) = IF 1 <= m THEN m - 1 + 1 ELSE 0
      /\ \A i \in 1 .. m - 1 + 1 : front[i] = position.cursors[1 + i - 1]
  BY <1>2, SubSeqProperties
<1> HIDE DEF front
<1>4. Len(front) = m /\ \A i \in 1 .. m : front[i] = position.cursors[i]
  BY <1>1, <1>3
<1>5. Continued(next) = Append(front, next)
  BY DEF Continued, front, m
<1>6. /\ Append(front, next) \in Seq(Cursors) /\ Len(Append(front, next)) = Len(front) + 1
      /\ \A i \in 1 .. Len(front) : Append(front, next)[i] = front[i]
      /\ Append(front, next)[Len(front) + 1] = next
  BY <1>3, AppendProperties
<1> QED
  BY <1>1, <1>4, <1>5, <1>6 DEF m

\* Turning on keeps it: the cursor of the page leads beyond its rows and over none
\* that no import has touched (the next button of the list).
LEMMA NextPageKeeps ==
    ASSUME IInv, NextPage
    PROVE  IInv'
<1> DEFINE next == state.next
           shown == {row[1] : row \in state.rows}
           m == position.index
<1>1. /\ Restart /\ UNCHANGED <<held, formerly, touched, entry, query, opened, revision, state>>
      /\ opened = Any /\ Ready
      /\ position' = [index |-> position.index + 1, cursors |-> Continued(Current.next)]
      /\ walk' = Append(walk, {row[1] : row \in Current.rows})
      /\ Current.next # End
  BY DEF NextPage
<1>2. /\ Current = state /\ Answers(state) /\ LeadsOver(state)
      /\ state.request.query = query /\ state.request.after = After
      /\ state.request.opened = opened /\ state \in States
  BY <1>1, ReadyIsAnswered
<1>3. After = position.cursors[m] /\ After \in Cursors
  BY RequestTyped
<1>4. /\ next \in Cursors /\ next.filters = query /\ next.at > After.at
      /\ \A r \in shown : After.at < r /\ r <= next.at
      /\ \A r \in Fits(held, query) \ touched : After.at < r /\ r <= next.at => r \in shown
  BY <1>1, <1>2 DEF Answers, LeadsOver, States
<1>5. shown \in SUBSET Row
  BY <1>2 DEF States
<1>6. m \in Nat /\ m \in 1 .. Len(position.cursors) /\ Len(position.cursors) \in Nat
      /\ walk \in Seq(SUBSET Row) /\ Len(walk) = m - 1
  BY DEF IInv, Types, PlaceSound, WalkSound
<1>16. /\ \A i, j \in 1 .. Len(position.cursors) :
             i < j => position.cursors[i].at < position.cursors[j].at
       /\ \A i \in 2 .. Len(position.cursors) : position.cursors[i].filters = query
       /\ position.cursors[1] = Start
       /\ \A i \in 1 .. Len(walk) : \A r \in walk[i] :
             position.cursors[i].at < r /\ r <= position.cursors[i + 1].at
       /\ \A i \in 1 .. m : \A r \in Fits(held, query) \ touched :
             r <= position.cursors[i].at => \E j \in 1 .. i - 1 : r \in walk[j]
  BY DEF IInv, PlaceSound, WalkSound
<1>17. \A i \in 1 .. m : i \in 1 .. Len(position.cursors)
  BY <1>6
<1>7. /\ position'.index = m + 1
      /\ position'.cursors = Continued(next)
      /\ walk' = Append(walk, shown)
  BY <1>1, <1>2
<1> HIDE DEF next, shown
<1>8. /\ position'.cursors \in Seq(Cursors) /\ Len(position'.cursors) = m + 1
      /\ \A i \in 1 .. m : position'.cursors[i] = position.cursors[i]
      /\ position'.cursors[m + 1] = next
  BY <1>4, <1>7, ContinuedIs
<1>18. position'.cursors = Continued(next) /\ position' = [index |-> m + 1, cursors |-> position'.cursors]
  BY <1>1, <1>2 DEF next
<1> HIDE DEF m
<1>9. position' \in [index : Nat, cursors : Seq(Cursors)]
  BY <1>6, <1>8, <1>18
<1>10. /\ walk' \in Seq(SUBSET Row) /\ Len(walk') = m
       /\ \A i \in 1 .. m - 1 : walk'[i] = walk[i]
       /\ walk'[m] = shown
  <2>1. /\ Append(walk, shown) \in Seq(SUBSET Row) /\ Len(Append(walk, shown)) = Len(walk) + 1
        /\ \A i \in 1 .. Len(walk) : Append(walk, shown)[i] = walk[i]
        /\ Append(walk, shown)[Len(walk) + 1] = shown
    BY <1>5, <1>6, AppendProperties
  <2> QED
    BY <1>6, <1>7, <2>1
<1>11. \A i \in 1 .. Len(position.cursors) : position.cursors[i].at \in Nat
  <2>1. \A i \in 1 .. Len(position.cursors) : position.cursors[i] \in Cursors
    BY ElementOfSeq DEF IInv, Types
  <2> QED
    BY <2>1 DEF Cursors
<1>12. PlaceSound'
  <2>1. position'.index \in 1 .. Len(position'.cursors)
    BY <1>6, <1>7, <1>8
  <2>2. position'.cursors[1] = Start
    BY <1>6, <1>8, <1>16
  <2>3. ASSUME NEW i \in 1 .. m + 1, NEW j \in 1 .. m + 1, i < j
        PROVE  position'.cursors[i].at < position'.cursors[j].at
    <3>1. i \in 1 .. m
      BY <1>6, <2>3
    <3>2. CASE j \in 1 .. m
      BY <1>8, <1>16, <1>17, <2>3, <3>1, <3>2
    <3>3. CASE j = m + 1
      <4>1. position.cursors[i].at <= position.cursors[m].at
        <5>1. CASE i = m
          <6>1. position.cursors[m].at \in Nat
            BY <1>6, <1>11
          <6> QED
            BY <5>1, <6>1
        <5>2. CASE i < m
          <6>1. i \in 1 .. Len(position.cursors) /\ m \in 1 .. Len(position.cursors)
            BY <1>6, <1>17, <3>1
          <6>2. position.cursors[i].at < position.cursors[m].at
            BY <1>16, <5>2, <6>1
          <6>3. position.cursors[i].at \in Nat /\ position.cursors[m].at \in Nat
            BY <1>11, <6>1
          <6> QED
            BY <6>2, <6>3
        <5> QED
          BY <1>6, <3>1, <5>1, <5>2
      <4>2. next.at \in Nat
        BY <1>4 DEF Cursors
      <4>3. position.cursors[i].at \in Nat /\ position.cursors[m].at \in Nat
            /\ position.cursors[m].at < next.at
        <5>1. position.cursors[i].at \in Nat /\ position.cursors[m].at \in Nat
          BY <1>6, <1>11, <1>17, <3>1
        <5> QED
          BY <1>3, <1>4, <4>2, <5>1 DEF m
      <4>4. position.cursors[i].at < next.at
        BY <4>1, <4>2, <4>3
      <4> QED
        BY <1>8, <3>1, <3>3, <4>4
    <3> QED
      BY <1>6, <3>2, <3>3
  <2>4. ASSUME NEW i \in 2 .. m + 1
        PROVE  position'.cursors[i].filters = query
    <3>1. CASE i \in 1 .. m
      <4>1. i \in 2 .. Len(position.cursors)
        BY <1>6, <3>1
      <4> QED
        BY <1>8, <1>16, <3>1, <4>1
    <3>2. CASE i = m + 1
      BY <1>4, <1>8, <3>2
    <3> QED
      BY <1>6, <3>1, <3>2
  <2> QED
    BY <1>1, <1>8, <2>1, <2>2, <2>3, <2>4 DEF PlaceSound
<1>13. WalkSound'
  <2>1. Len(walk') = position'.index - 1
    BY <1>6, <1>7, <1>10
  <2>2. ASSUME NEW i \in 1 .. Len(walk'), NEW r \in walk'[i]
        PROVE  position'.cursors[i].at < r /\ r <= position'.cursors[i + 1].at
    <3>1. CASE i \in 1 .. m - 1
      <4>1. i \in 1 .. Len(walk) /\ i \in 1 .. m /\ i + 1 \in 1 .. m
        BY <1>6, <3>1
      <4>2. r \in walk[i]
        BY <1>10, <2>2, <3>1
      <4> QED
        BY <1>8, <1>16, <4>1, <4>2
    <3>2. CASE i = m
      <4>1. r \in shown /\ position'.cursors[i] = After /\ position'.cursors[i + 1] = next
        BY <1>3, <1>6, <1>8, <1>10, <2>2, <3>2 DEF m
      <4> QED
        BY <1>4, <4>1
    <3> QED
      BY <1>6, <1>10, <3>1, <3>2
  <2>3. ASSUME NEW i \in 1 .. position'.index, NEW r \in Fits(held, query) \ touched,
               r <= position'.cursors[i].at
        PROVE  \E j \in 1 .. i - 1 : r \in walk'[j]
    <3>1. CASE i \in 1 .. m
      <4>1. PICK j \in 1 .. i - 1 : r \in walk[j]
        BY <1>8, <1>16, <2>3, <3>1
      <4>2. j \in 1 .. m - 1
        BY <1>6, <3>1, <4>1
      <4> QED
        BY <1>10, <4>1, <4>2
    <3>2. CASE i = m + 1 /\ r <= After.at
      <4>1. PICK j \in 1 .. m - 1 : r \in walk[j]
        <5>1. m \in 1 .. m /\ r <= position.cursors[m].at
          BY <1>3, <1>6, <3>2 DEF m
        <5> QED
          BY <1>16, <5>1
      <4>2. j \in 1 .. i - 1
        BY <1>6, <3>2
      <4> QED
        BY <1>10, <4>1, <4>2
    <3>3. CASE i = m + 1 /\ ~(r <= After.at)
      <4>1. r \in Row /\ held \in Contents
        BY FitsAreRows DEF IInv, Types
      <4>2. r \in Nat /\ After.at \in Nat
        BY <1>3, <4>1 DEF Row, Cursors
      <4>3. After.at < r /\ r <= next.at
        BY <1>8, <2>3, <3>3, <4>2
      <4>4. r \in walk'[m] /\ m \in 1 .. i - 1
        BY <1>4, <1>6, <1>10, <3>3, <4>3
      <4> QED
        BY <4>4
    <3> QED
      BY <1>6, <1>7, <3>1, <3>2, <3>3
  <2>4. (Fits(held, query) \ touched)' = Fits(held, query) \ touched
    BY <1>1 DEF Fits
  <2> QED
    BY <2>1, <2>2, <2>3, <2>4 DEF WalkSound
<1>14. /\ query' \in Filters /\ query'.store = entry.store
       /\ opened' \in Row \union {Any} /\ revision' \in Nat /\ DetailFits'
  BY <1>1 DEF IInv, Types, DetailFits
<1> QED
  BY <1>1, <1>9, <1>10, <1>12, <1>13, <1>14, StepKeeps DEF Placed

-----------------------------------------------------------------------------
(* Steps of the effects and of the service.                                *)

\* An effect that ends leaves a sound answer, or none.
LEMMA ResultKeeps ==
    ASSUME IInv, NEW run \in runs, NEW result, Leave(run, result),
           ~run.aborted => /\ result \in States
                           /\ result.phase = "ready" => Answers(result) /\ LeadsOver(result)
                           /\ result.why \notin {"refused", "invalid"},
           runs' = runs \ {run},
           UNCHANGED <<held, formerly, touched, screen, walk>>
    PROVE  IInv'
<1>1. UNCHANGED <<entry, query, position, opened, revision>>
  BY DEF screen
<1>2. After' = After /\ Request' = Request
  BY <1>1 DEF Request, After
<1>3. state' = state \/ (~run.aborted /\ state' = result)
  BY DEF Leave
<1>4. Types' /\ PlaceSound' /\ WalkSound' /\ ImportSound' /\ DetailFits'
  BY <1>1, <1>3 DEF IInv, Types, PlaceSound, WalkSound, ImportSound, DetailFits, Fits
<1>5. RunsPresent'
  BY <1>2 DEF IInv, RunsPresent
<1>6. StateSound'
  <2>1. \A q : Fits(held, q)' = Fits(held, q)
    OBVIOUS
  <2> QED
    BY <1>3 DEF IInv, StateSound, Answers, LeadsOver, Fits
<1> QED
  BY <1>4, <1>5, <1>6 DEF IInv

\* A failure shows no rows and leads nowhere.
LEMMA FailedIsEmpty ==
    ASSUME NEW req \in Requests, NEW why \in Whys, NEW s, s = Failed(req, why)
    PROVE  s \in States /\ s.phase = "error" /\ s.why = why
<1>1. End \in Cursors
  BY PagesAssumption DEF End, Start, Cursors, Filters
<1>2. s = [phase |-> "error", why |-> why, request |-> req, rows |-> {}, next |-> End]
  BY DEF Failed, NoState
<1> QED
  BY <1>1, <1>2 DEF States

\* An effect that answers or fails keeps it.
LEMMA TurnKeeps ==
    ASSUME IInv, NEW run \in runs, Answer(run) \/ Fail(run)
    PROVE  IInv'
<1>1. runs' = runs \ {run} /\ UNCHANGED <<held, formerly, touched, screen, walk>>
  BY DEF Answer, Fail
<1>2. ~run.aborted => run.request = Request
  BY DEF IInv, RunsPresent
<1>3. CASE Answer(run)
  <2>1. PICK content \in {held} \union (IF run.cached THEN {formerly} ELSE {}), n \in Limits :
           Leave(run, Outcome(run.request, content, n))
    BY <1>3 DEF Answer
  <2>2. content \in {held, formerly}
    BY <2>1
  <2> QED
    BY <1>1, <1>2, <2>1, <2>2, OutcomeSound, ResultKeeps
<1>4. CASE Fail(run)
  <2> DEFINE result == Failed(run.request, "failed")
  <2>1. Leave(run, result)
    BY <1>4 DEF Fail
  <2>2. run.request \in Requests
    BY DEF IInv, Types, Runs
  <2>3. "failed" \in Whys
    BY DEF Whys
  <2>4. result \in States /\ result.phase = "error" /\ result.why = "failed"
    BY <2>2, <2>3, FailedIsEmpty
  <2> HIDE DEF result
  <2> QED
    BY <1>1, <2>1, <2>4, ResultKeeps
<1> QED
  BY <1>3, <1>4

\* An import keeps it: whatever it does not touch stays as it was read.
LEMMA ImportKeeps ==
    ASSUME IInv, NEW r \in Row, Import(r)
    PROVE  IInv'
<1>1. /\ UNCHANGED <<entry, query, position, opened, revision, state, runs, walk>>
      /\ formerly' = held /\ touched' = touched \union {r}
  BY DEF Import, screen
<1>2. PICK tag \in Tag \union {Gone} : held' = [held EXCEPT ![r] = tag]
  BY DEF Import
<1>3. held \in Contents /\ held' \in Contents /\ \A s \in Row \ {r} : held'[s] = held[s]
  BY <1>2 DEF IInv, Types, Contents
<1>4. \A q : Fits(held', q) \ touched' \subseteq Fits(held, q) \ touched
  BY <1>1, <1>3 DEF Fits
<1>5. Types' /\ PlaceSound' /\ DetailFits'
  BY <1>1, <1>3 DEF IInv, Types, PlaceSound, DetailFits
<1>6. ImportSound'
  BY <1>1, <1>3 DEF ImportSound
<1>7. WalkSound'
  <2>1. (Fits(held, query) \ touched)' \subseteq Fits(held, query) \ touched
    BY <1>1, <1>4 DEF Fits
  <2> QED
    BY <1>1, <2>1 DEF IInv, WalkSound
<1>8. RunsPresent'
  <2>1. After' = After /\ Request' = Request
    BY <1>1 DEF Request, After
  <2> QED
    BY <1>1, <2>1 DEF IInv, RunsPresent
<1>9. StateSound'
  <2>1. (Fits(held, state.request.query) \ touched)' \subseteq Fits(held, state.request.query) \ touched
    BY <1>1, <1>4 DEF Fits
  <2> QED
    BY <1>1, <2>1 DEF IInv, StateSound, Answers, LeadsOver
<1> QED
  BY <1>5, <1>6, <1>7, <1>8, <1>9 DEF IInv

-----------------------------------------------------------------------------
(* The invariant, and what it says.                                        *)

\* A list that is shown for the first time stands on its first page.
LEMMA InitInvariant ==
    ASSUME Init
    PROVE  IInv
<1>1. /\ held \in Contents /\ formerly = held /\ touched = {}
      /\ query = [store |-> entry.store, tag |-> Any]
      /\ position = [index |-> 1, cursors |-> <<Start>>]
      /\ opened = Any /\ revision = 0 /\ state = NoState
      /\ runs = {[request |-> Request, aborted |-> FALSE, cached |-> entry.screen = "stores"]}
      /\ walk = <<>>
  BY DEF Init
<1>2. entry.store \in {Any} \union {e.store : e \in Entries}
  <2>1. PICK e \in Entries : \E r \in Menu(e.screen, e.name) :
           entry = [screen |-> e.screen, resource |-> r,
                    store |-> IF "store_id" \in r.filters THEN e.store ELSE Any]
    BY DEF Init
  <2>2. PICK r : entry = [screen |-> e.screen, resource |-> r,
                          store |-> IF "store_id" \in r.filters THEN e.store ELSE Any]
    BY <2>1
  <2> QED
    BY <2>2
<1>3. query \in Filters /\ query.store = entry.store
  BY <1>1, <1>2 DEF Filters
<1>4. Start \in Cursors /\ End \in Cursors
  BY PagesAssumption DEF Start, End, Cursors, Filters
<1>5. /\ position.index = 1 /\ position.cursors = <<Start>> /\ Len(position.cursors) = 1
      /\ position.cursors[1] = Start
  BY <1>1
<1>6. position \in [index : Nat, cursors : Seq(Cursors)]
  BY <1>1, <1>4
<1>7. After = Start
  BY <1>5 DEF After
<1>8. Request \in Requests
  BY <1>1, <1>3, <1>4, <1>7 DEF Request, Requests
<1>9. runs \subseteq Runs /\ RunsPresent
  BY <1>1, <1>8 DEF Runs, RunsPresent
<1>10. state \in States /\ state.phase = "loading" /\ state.why = "none"
  <2>1. Start.filters \in Filters
    BY DEF Start, Filters
  <2>2. [query |-> Start.filters, after |-> Start, opened |-> Any, revision |-> 0] \in Requests
    BY <1>4, <2>1 DEF Requests
  <2> QED
    BY <1>1, <1>4, <2>2 DEF NoState, States, Whys
<1>11. StateSound
  BY <1>10 DEF StateSound
<1>12. Types
  <2>1. walk \in Seq(SUBSET Row)
    BY <1>1
  <2> QED
    BY <1>1, <1>3, <1>6, <1>9, <1>10, <2>1 DEF Types
<1>13. PlaceSound
  BY <1>5 DEF PlaceSound
<1>14. WalkSound
  <2>1. Len(walk) = 0
    BY <1>1
  <2>2. \A r \in Row : ~(r <= 0)
    BY PagesAssumption DEF Row
  <2> QED
    BY <1>5, <2>1, <2>2 DEF WalkSound, Fits, Start
<1>15. ImportSound /\ DetailFits
  BY <1>1 DEF ImportSound, DetailFits
<1> QED
  BY <1>9, <1>11, <1>12, <1>13, <1>14, <1>15 DEF IInv

\* So does a step that changes nothing.
LEMMA StutterKeeps ==
    ASSUME IInv, UNCHANGED vars
    PROVE  IInv'
<1>1. UNCHANGED <<held, formerly, touched, entry, query, position, opened, revision, state, runs, walk>>
  BY DEF vars, screen
<1>2. After' = After /\ Request' = Request
  BY <1>1 DEF Request, After
<1>3. Types' /\ PlaceSound' /\ WalkSound' /\ ImportSound' /\ DetailFits'
  BY <1>1 DEF IInv, Types, PlaceSound, WalkSound, ImportSound, DetailFits, Fits
<1>4. RunsPresent' /\ StateSound'
  BY <1>1, <1>2 DEF IInv, RunsPresent, StateSound, Answers, LeadsOver, Fits
<1> QED
  BY <1>3, <1>4 DEF IInv

\* Every step of the screen, its effects, the service and its imports keeps it.
LEMMA NextInvariant ==
    ASSUME IInv, [Next]_vars
    PROVE  IInv'
<1>1. CASE Turn
  BY <1>1, TurnKeeps DEF Turn
<1>2. CASE User
  BY <1>2, ApplyKeeps, OpenKeeps, InPlaceKeeps, ReloadKeeps, PreviousPageKeeps, NextPageKeeps,
     ShowAgainKeeps DEF User
<1>3. CASE \E r \in Row : Import(r)
  BY <1>3, ImportKeeps
<1>4. CASE UNCHANGED vars
  BY <1>4, StutterKeeps
<1> QED
  BY <1>1, <1>2, <1>3, <1>4 DEF Next

\* The invariant holds throughout, whatever is imported and however pages are turned.
THEOREM Invariance == Spec => []IInv
<1>1. IInv /\ [Next]_vars => IInv'
  BY NextInvariant
<1> QED
  BY <1>1, InitInvariant, PTL DEF Spec

\* The cursors of a walk ascend and are those of the applied query, in every list of
\* any length (setPosition in DataExplorer.tsx and Stores.tsx).
THEOREM PagesAscend == Spec => []CursorsAscend
<1>1. ASSUME IInv
      PROVE  CursorsAscend
  <2>1. ASSUME NEW i \in 2 .. Len(position.cursors)
        PROVE  /\ position.cursors[i].at > position.cursors[i - 1].at
               /\ position.cursors[i].filters = query
    <3>1. Len(position.cursors) \in Nat
      BY <1>1, LenProperties DEF IInv, Types
    <3>2. i \in 1 .. Len(position.cursors) /\ i - 1 \in 1 .. Len(position.cursors) /\ i - 1 < i
      BY <3>1
    <3>3. position.cursors[i - 1].at < position.cursors[i].at
      BY <1>1, <3>2 DEF IInv, PlaceSound
    <3>4. position.cursors[i].at \in Nat /\ position.cursors[i - 1].at \in Nat
      <4>1. position.cursors[i] \in Cursors /\ position.cursors[i - 1] \in Cursors
        BY <1>1, <3>2, ElementOfSeq DEF IInv, Types
      <4> QED
        BY <4>1 DEF Cursors
    <3> QED
      BY <1>1, <3>3, <3>4 DEF IInv, PlaceSound
  <2> QED
    BY <2>1 DEF CursorsAscend
<1> QED
  BY <1>1, Invariance, PTL

\* What the screen shows is what is asked for, also between late answers to earlier
\* requests (the effects and their controllers in DataExplorer.tsx and Stores.tsx).
THEOREM WhatIsShownIsAsked == Spec => []ShownIsAsked
<1>1. ASSUME IInv
      PROVE  ShownIsAsked
  <2> SUFFICES ASSUME Ready
               PROVE  /\ \A row \in state.rows :
                            /\ entry.store \in {Any, StoreOf(row[1])}
                            /\ IF opened # Any THEN row[1] = opened
                               ELSE row[1] > After.at /\ query.tag \in {Any, row[2]}
                      /\ Cardinality(state.rows) <= Limit
    BY <1>1, ReadyIsAnswered DEF ShownIsAsked
  <2>1. query.store = entry.store
    BY <1>1 DEF IInv, Types
  <2> QED
    BY <1>1, <2>1, ReadyIsAnswered DEF Answers
<1> QED
  BY <1>1, Invariance, PTL

\* Who walks from page to page sees every row that no import touched, and no row
\* twice, whatever changes around them (the keyset pages of api/query.py).
THEOREM NoRowSkipped == Spec => []NothingSkipped
<1>1. ASSUME IInv
      PROVE  NothingSkipped
  <2> DEFINE m == position.index
             at == [i \in 1 .. Len(position.cursors) |-> position.cursors[i].at]
  <2>1. m \in 1 .. Len(position.cursors) /\ Len(position.cursors) \in Nat /\ Len(walk) = m - 1
        /\ DOMAIN walk = 1 .. Len(walk) /\ \A i \in DOMAIN walk : walk[i] \in SUBSET Row
    BY <1>1, LenProperties, ElementOfSeq DEF IInv, Types, PlaceSound, WalkSound
  <2>2. \A i \in 1 .. Len(position.cursors) : at[i] \in Nat
    <3>1. \A i \in 1 .. Len(position.cursors) : position.cursors[i] \in Cursors
      BY <1>1, ElementOfSeq DEF IInv, Types
    <3> QED
      BY <3>1 DEF Cursors
  <2>3. \A i, j \in 1 .. Len(position.cursors) : i < j => at[i] < at[j]
    BY <1>1 DEF IInv, PlaceSound
  <2>4. \A i \in 1 .. Len(walk) : \A r \in walk[i] : at[i] < r /\ r <= at[i + 1]
    <3>1. ASSUME NEW i \in 1 .. Len(walk)
          PROVE  at[i] = position.cursors[i].at /\ at[i + 1] = position.cursors[i + 1].at
      <4>1. i \in 1 .. Len(position.cursors) /\ i + 1 \in 1 .. Len(position.cursors)
        BY <2>1
      <4> QED
        BY <4>1
    <3>2. \A i \in 1 .. Len(walk) : \A r \in walk[i] :
             position.cursors[i].at < r /\ r <= position.cursors[i + 1].at
      BY <1>1 DEF IInv, WalkSound
    <3> HIDE DEF at
    <3> QED
      BY <3>1, <3>2
  <2>5. After.at = at[m]
    BY <1>1, <2>1, RequestTyped
  <2>6. \A r \in Fits(held, query) \ touched : r <= at[m] => \E j \in 1 .. m - 1 : r \in walk[j]
    <3>1. m \in 1 .. m /\ at[m] = position.cursors[m].at
      BY <2>1
    <3>2. \A i \in 1 .. m : \A r \in Fits(held, query) \ touched :
             r <= position.cursors[i].at => \E j \in 1 .. i - 1 : r \in walk[j]
      BY <1>1 DEF IInv, WalkSound
    <3> HIDE DEF m, at
    <3> QED
      BY <3>1, <3>2
  <2> HIDE DEF m, at
  <2>7. \A i, j \in 1 .. Len(walk) : \A r \in walk[i] : i < j => r \notin walk[j]
    <3> SUFFICES ASSUME NEW i \in 1 .. Len(walk), NEW j \in 1 .. Len(walk), i < j,
                        NEW r \in walk[i], r \in walk[j]
                 PROVE  FALSE
      OBVIOUS
    <3>1. r \in Nat
      BY <2>1 DEF Row
    <3>2. r <= at[i + 1] /\ at[j] < r
      BY <2>4
    <3>3. i + 1 \in 1 .. Len(position.cursors) /\ j \in 1 .. Len(position.cursors)
          /\ (i + 1 = j \/ i + 1 < j)
      BY <2>1
    <3>4. at[i + 1] <= at[j] /\ at[i + 1] \in Nat /\ at[j] \in Nat
      BY <2>2, <2>3, <3>3
    <3> QED
      BY <3>1, <3>2, <3>4
  <2>8. \A i, j \in DOMAIN walk : i # j => walk[i] \intersect walk[j] = {}
    <3>1. \A i, j \in 1 .. Len(walk) : i # j => i < j \/ j < i
      OBVIOUS
    <3> QED
      BY <2>1, <2>7, <3>1
  <2>9. \A i \in 1 .. Len(walk) : \A r \in walk[i] : r <= at[m]
    <3> SUFFICES ASSUME NEW i \in 1 .. Len(walk), NEW r \in walk[i]
                 PROVE  r <= at[m]
      OBVIOUS
    <3>1. r \in Nat /\ r <= at[i + 1]
      BY <2>1, <2>4 DEF Row
    <3>2. i + 1 \in 1 .. Len(position.cursors) /\ (i + 1 = m \/ i + 1 < m)
      BY <2>1
    <3>3. at[i + 1] <= at[m] /\ at[i + 1] \in Nat /\ at[m] \in Nat
      BY <2>1, <2>2, <2>3, <3>2
    <3> QED
      BY <3>1, <3>3
  <2>10. ASSUME opened = Any, Ready, NEW i \in DOMAIN walk, NEW row \in Current.rows
         PROVE  row[1] \notin walk[i]
    <3>1. row[1] > at[m] /\ row[1] \in Nat /\ at[m] \in Nat
      <4>1. Current = state /\ state.request.opened = Any /\ state.request.after = After
            /\ Answers(state) /\ state.rows \subseteq Row \X Tag
        BY <1>1, <2>10, ReadyIsAnswered DEF States
      <4>2. row[1] > at[m] /\ row[1] \in Row
        BY <2>5, <2>10, <4>1 DEF Answers
      <4> QED
        BY <2>1, <2>2, <4>2 DEF Row
    <3>2. i \in 1 .. Len(walk)
      BY <2>1
    <3> QED
      BY <2>9, <3>1, <3>2
  <2>11. \A r \in Fits(held, query) \ touched : r <= After.at => \E i \in DOMAIN walk : r \in walk[i]
    BY <2>1, <2>5, <2>6
  <2> QED
    BY <2>8, <2>10, <2>11 DEF NothingSkipped
<1> QED
  BY <1>1, Invariance, PTL

-----------------------------------------------------------------------------
(* What the screen offers is never refused.                                *)

\* The rows of the list can be opened and decoded, and no read found otherwise.
Offered ==
    /\ DetailQuery(entry.resource) # {}
    /\ ContractOf(entry.resource.name).kinds \subseteq DecodedKinds
    /\ state.why \notin {"unopenable", "undecodable"}

\* A collection is the only one of its name.
LEMMA NamedByContract ==
    ASSUME NEW name \in Names
    PROVE  ContractOf(name) \in Contract /\ ContractOf(name).name = name
<1>1. PICK c \in Contract : c.name = name
  BY DEF Names
<1>2. ContractOf(name) = c
  BY <1>1, ContractAssumption
<1> QED
  BY <1>1, <1>2

\* However the service varies the filters besides the keys, the rows of a collection
\* can be opened by their key (detailQuery of published-contract.ts).
LEMMA VariantsOpen ==
    ASSUME NEW c \in Contract, NEW r \in Variants(c)
    PROVE  DetailQuery(r) # {} /\ r.name = c.name
<1>1. r.name = c.name /\ r.keys = c.keys
      /\ \A f \in c.filters : f \in Keys(c) => f \in r.filters
  BY DEF Variants, Advertised
<1>2. DetailQuery(Advertised(c)) = Keys(c) /\ Keys(c) # {}
  BY ContractAssumption
<1>3. ContractOf(Advertised(c).name) = ContractOf(r.name)
      /\ Advertised(c).keys = c.keys /\ Advertised(c).filters = c.filters
  BY <1>1 DEF Advertised
<1>4. \A i \in DOMAIN c.keys : c.keys[i] \in c.filters /\ c.keys[i] \notin ContractOf(r.name).nullable
  BY <1>2, <1>3 DEF DetailQuery
<1>5. \A i \in DOMAIN r.keys : r.keys[i] \in r.filters /\ r.keys[i] \notin ContractOf(r.name).nullable
  BY <1>1, <1>4 DEF Keys
<1>6. DetailQuery(r) = Keys(c)
  BY <1>1, <1>5 DEF DetailQuery, Keys
<1> QED
  BY <1>1, <1>2, <1>6

\* A menu leads to variants of the collection that it names.
LEMMA MenuLeadsToVariants ==
    ASSUME NEW shows, NEW name \in Names, NEW r \in Menu(shows, name)
    PROVE  r \in Variants(ContractOf(name))
<1> DEFINE c == ContractOf(name)
           catalogs == {{v} : v \in Variants(c)}
<1>1. \A catalog \in catalogs : catalog \subseteq Variants(c)
  OBVIOUS
<1>2. Advertised(c) \in Variants(c)
  BY DEF Variants
<1>3. \A catalog : AvailableResources(catalog) \in (SUBSET catalog) \union {Refused}
  BY DEF AvailableResources
<1>4. \A catalog : QualityResources(catalog) \in (SUBSET catalog) \union {Refused}
  BY DEF QualityResources
<1> DEFINE accepted == CASE shows = "explorer" -> {AvailableResources(k) : k \in catalogs}
                         [] shows = "quality" -> {QualityResources(k) : k \in catalogs}
                         [] OTHER -> {{Advertised(c)}}
<1>5. r \in UNION (accepted \ {Refused})
  BY DEF Menu
<1> HIDE DEF c, catalogs
<1>6. \A list \in accepted \ {Refused} : list \subseteq Variants(c)
  <2>1. CASE shows = "explorer"
    BY <1>1, <1>3, <2>1
  <2>2. CASE shows = "quality"
    BY <1>1, <1>4, <2>2
  <2>3. CASE shows \notin {"explorer", "quality"}
    BY <1>2, <2>3
  <2> QED
    BY <2>1, <2>2, <2>3
<1> HIDE DEF accepted
<1> QED
  BY <1>5, <1>6 DEF c

\* What an effect leaves says nothing against what was offered.
LEMMA OutcomeOffered ==
    ASSUME Offered, NEW req, NEW content, NEW n, NEW s, s = Outcome(req, content, n)
    PROVE  s.why \notin {"unopenable", "undecodable"}
<1>1. s \in {Failed(req, "refused"), Failed(req, "invalid")} \/ \E page : s = Shown(req, page)
  BY DEF Outcome, Offered
<1>2. \A why : Failed(req, why).why = why
  BY DEF Failed, NoState
<1>3. \A page : Shown(req, page).why = "none"
  BY DEF Shown
<1> QED
  BY <1>1, <1>2, <1>3

\* Nothing that the screen offers is refused, in whichever list of whichever
\* collection (published-contract.ts, DataExplorer.tsx, QualityData.tsx, Stores.tsx).
THEOREM NothingOfferedIsRefused == Spec => []NothingRefused
<1>1. ASSUME Init
      PROVE  Offered
  <2>1. PICK e \in Entries : \E r \in Menu(e.screen, e.name) :
           entry = [screen |-> e.screen, resource |-> r,
                    store |-> IF "store_id" \in r.filters THEN e.store ELSE Any]
    BY <1>1 DEF Init
  <2>2. PICK r \in Menu(e.screen, e.name) :
           entry = [screen |-> e.screen, resource |-> r,
                    store |-> IF "store_id" \in r.filters THEN e.store ELSE Any]
    BY <2>1
  <2>3. e.name \in Names
    BY PagesAssumption
  <2>4. ContractOf(e.name) \in Contract /\ ContractOf(e.name).name = e.name
    BY <2>3, NamedByContract
  <2>5. DetailQuery(r) # {} /\ r.name = e.name
    BY <2>3, <2>4, MenuLeadsToVariants, VariantsOpen
  <2>6. ContractOf(r.name).kinds \subseteq DecodedKinds
    BY <2>4, <2>5, ContractAssumption
  <2>7. state.why = "none"
    BY <1>1 DEF Init, NoState
  <2> QED
    BY <2>2, <2>5, <2>6, <2>7 DEF Offered
<1>2. ASSUME Offered, [Next]_vars
      PROVE  Offered'
  <2>1. entry' = entry
    BY <1>2 DEF Next, Turn, User, Answer, Fail, Apply, Open, CloseDetail, Retry, ReloadFromFirst,
       PreviousPage, NextPage, ShowAgain, Import, vars, screen
  <2>2. state'.why \notin {"unopenable", "undecodable"}
    <3>1. CASE Turn
      <4>1. PICK run \in runs : Answer(run) \/ Fail(run)
        BY <3>1 DEF Turn
      <4>2. state' = state \/ state' = Failed(run.request, "failed")
            \/ \E content, n : state' = Outcome(run.request, content, n)
        BY <4>1 DEF Answer, Fail, Leave
      <4>3. Failed(run.request, "failed").why = "failed"
        BY DEF Failed, NoState
      <4> QED
        BY <1>2, <4>2, <4>3, OutcomeOffered DEF Offered
    <3>2. CASE User
      <4>1. state' = state \/ state' = NoState
        BY <3>2 DEF User, Apply, Open, CloseDetail, Retry, ReloadFromFirst, PreviousPage, NextPage, ShowAgain
      <4>2. NoState.why = "none"
        BY DEF NoState
      <4> QED
        BY <1>2, <4>1, <4>2 DEF Offered
    <3>3. CASE (\E r \in Row : Import(r)) \/ UNCHANGED vars
      BY <1>2, <3>3 DEF Import, vars, Offered
    <3> QED
      BY <1>2, <3>1, <3>2, <3>3 DEF Next
  <2> QED
    BY <1>2, <2>1, <2>2 DEF Offered
<1>3. Spec => []Offered
  BY <1>1, <1>2, PTL DEF Spec
<1>4. IInv /\ Offered => NothingRefused
  BY DEF IInv, StateSound, Offered, NothingRefused
<1> QED
  BY <1>3, <1>4, Invariance, PTL


-----------------------------------------------------------------------------
(* Whatever loads is read.                                                 *)

\* An effect that begins is the only one that is left (useEffect's cleanup).
LEMMA RestartReads ==
    ASSUME IInv, Restart
    PROVE  SomebodyReads'
<1> DEFINE new == [request |-> Request', aborted |-> FALSE,
                   cached |-> entry.screen = "stores" /\ revision' = 0 /\ opened' = Any]
<1>1. runs' = {[r EXCEPT !.aborted = TRUE] : r \in runs} \union {new}
  BY DEF Restart
<1>2. \A r \in runs : [r EXCEPT !.aborted = TRUE].aborted
  BY DEF Runs, IInv, Types
<1>3. ~new.aborted /\ new.request = Request'
  OBVIOUS
<1> HIDE DEF new
<1>4. LiveRuns' = {new}
  BY <1>1, <1>2, <1>3 DEF LiveRuns
<1> QED
  BY <1>3, <1>4 DEF SomebodyReads

\* Every act of the user begins an effect.
LEMMA UserReads ==
    ASSUME IInv, User
    PROVE  SomebodyReads'
<1>1. Restart
  BY DEF User, Apply, Open, CloseDetail, Retry, ReloadFromFirst, PreviousPage, NextPage, ShowAgain
<1> QED
  BY <1>1, RestartReads

\* A result is of the request that it answers, and no result says that it loads.
LEMMA FailedTells ==
    ASSUME NEW req, NEW why
    PROVE  Failed(req, why).phase # "loading" /\ Failed(req, why).request = req
BY DEF Failed, NoState

LEMMA OutcomeTells ==
    ASSUME NEW req, NEW content, NEW n
    PROVE  /\ Outcome(req, content, n).phase # "loading"
           /\ Outcome(req, content, n).request = req
<1>1. \A page : Shown(req, page).phase # "loading" /\ Shown(req, page).request = req
  BY DEF Shown
<1>2. \E page, why : Outcome(req, content, n) \in {Failed(req, why), Shown(req, page)}
  BY DEF Outcome
<1> QED
  BY <1>1, <1>2, FailedTells

\* What an effect leaves ends the loading, if it reads what is asked for now, and
\* otherwise leaves the one that does.
LEMMA TurnReads ==
    ASSUME IInv, SomebodyReads, NEW run \in runs, Answer(run) \/ Fail(run)
    PROVE  SomebodyReads'
<1>1. runs' = runs \ {run} /\ UNCHANGED screen
  BY DEF Answer, Fail
<1>2. Request' = Request
  BY <1>1 DEF Request, After, screen
<1>3. LiveRuns' = LiveRuns \ {run}
  BY <1>1 DEF LiveRuns
<1>4. CASE run.aborted
  <2>1. state' = state
    BY <1>4 DEF Answer, Fail, Leave
  <2>2. Current' = Current
    BY <1>2, <2>1 DEF Current
  <2>3. LiveRuns' = LiveRuns
    BY <1>3, <1>4 DEF LiveRuns
  <2> QED
    BY <1>2, <2>2, <2>3 DEF SomebodyReads
<1>5. CASE ~run.aborted
  <2>1. run.request = Request
    BY <1>5 DEF IInv, RunsPresent
  <2>2. state'.phase # "loading" /\ state'.request = Request
    <3>1. CASE Fail(run)
      <4>1. state' = Failed(Request, "failed")
        BY <1>5, <2>1, <3>1 DEF Fail, Leave
      <4> QED
        BY <4>1, FailedTells
    <3>2. CASE Answer(run)
      <4>1. PICK content, n : state' = Outcome(Request, content, n)
        BY <1>5, <2>1, <3>2 DEF Answer, Leave
      <4> QED
        BY <4>1, OutcomeTells
    <3> QED
      BY <3>1, <3>2
  <2>3. Current'.phase # "loading"
    BY <1>2, <2>2 DEF Current
  <2> QED
    BY <1>3, <2>3 DEF SomebodyReads
<1> QED
  BY <1>4, <1>5

\* A list that says that it loads is being read, and by one effect only, after any
\* number of acts of the user and late answers (useEffect of DataExplorer.tsx and
\* Stores.tsx).
THEOREM LoadingIsReading == Spec => []SomebodyReads
<1>1. ASSUME Init
      PROVE  SomebodyReads
  <2> DEFINE first == [request |-> Request, aborted |-> FALSE, cached |-> entry.screen = "stores"]
  <2>1. runs = {first}
    BY <1>1 DEF Init
  <2>2. ~first.aborted /\ first.request = Request
    OBVIOUS
  <2> HIDE DEF first
  <2>3. LiveRuns = {first}
    BY <2>1, <2>2 DEF LiveRuns
  <2> QED
    BY <2>2, <2>3 DEF SomebodyReads
<1>2. ASSUME IInv, SomebodyReads, [Next]_vars
      PROVE  SomebodyReads'
  <2>1. CASE Turn
    BY <1>2, <2>1, TurnReads DEF Turn
  <2>2. CASE User
    BY <1>2, <2>2, UserReads
  <2>3. ASSUME UNCHANGED <<screen, state, runs>>
        PROVE  SomebodyReads'
    <3>1. Request' = Request
      BY <2>3 DEF Request, After, screen
    <3>2. Current' = Current /\ LiveRuns' = LiveRuns
      BY <2>3, <3>1 DEF Current, LiveRuns
    <3> QED
      BY <1>2, <3>1, <3>2 DEF SomebodyReads
  <2>4. CASE \E r \in Row : Import(r)
    BY <2>3, <2>4 DEF Import
  <2>5. CASE UNCHANGED vars
    BY <2>3, <2>5 DEF vars
  <2> QED
    BY <1>2, <2>1, <2>2, <2>4, <2>5 DEF Next
<1> QED
  BY <1>1, <1>2, Invariance, PTL DEF Spec
=============================================================================
