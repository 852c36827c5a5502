----------------------- MODULE AnalyticsRefreshProofs -----------------------
(***************************************************************************)
(* Proofs about AnalyticsRefresh, for any datasets, imports, attempts,      *)
(* refresh commands and readers.                                            *)
(***************************************************************************)
EXTENDS AnalyticsRefresh, TLAPS

N == Len(ANALYTICAL_VIEWS)

Stages == {"idle", "recording", "capturing", "refreshing", "committing", "failing", "unlocking"}

\* The list of analytics.py names seventeen views.
LEMMA ViewList ==
    /\ N = 17
    /\ Views = {ANALYTICAL_VIEWS[i] : i \in 1..17}
    /\ \A i \in 1..17 : ANALYTICAL_VIEWS[i] \in Views
BY DEF N, ANALYTICAL_VIEWS, Views

\* "Dependencies must be refreshed before their consumers": every view that a
\* view reads comes earlier in the list.
LEMMA DependencyOrder ==
    \A i \in 1..17 : \A w \in ViewsRead(ANALYTICAL_VIEWS[i]) :
        \E j \in 1..17 : j < i /\ ANALYTICAL_VIEWS[j] = w
<1> DEFINE V == ANALYTICAL_VIEWS
<1>1. /\ V[3] = "register_product_month" /\ V[4] = "activity_month"
      /\ V[5] = "distribution_product_month" /\ V[6] = "shelf_category_month"
      /\ V[7] = "typology_month" /\ V[8] = "assortment_candidates"
      /\ V[10] = "store_category_month" /\ V[12] = "store_month"
      /\ V[14] = "network_month"
  BY DEF ANALYTICAL_VIEWS
<1>2. \A i \in {1, 2, 3, 4, 5, 6, 7, 9, 11} : ViewsRead(V[i]) = {}
  BY DEF ANALYTICAL_VIEWS, ViewsRead
<1>3. /\ ViewsRead(V[8]) = {V[7]}
      /\ ViewsRead(V[10]) = {V[5], V[8], V[6]}
      /\ ViewsRead(V[12]) = {V[3], V[4], V[10], V[7]}
      /\ \A i \in {13, 14, 15, 16} : ViewsRead(V[i]) = {V[12]}
      /\ ViewsRead(V[17]) = {V[14]}
  BY DEF ANALYTICAL_VIEWS, ViewsRead
<1> HIDE DEF V
<1>4. \A i \in 1..17 : \A w \in ViewsRead(V[i]) : \E j \in 1..17 : j < i /\ V[j] = w
  BY <1>2, <1>3
<1>5. QED
  BY <1>4 DEF V

\* The views that a view reads are themselves in the list.
LEMMA ReadsOlder == \A i \in 1..17 : ViewsRead(ANALYTICAL_VIEWS[i]) \subseteq Views
BY DependencyOrder, ViewList

-----------------------------------------------------------------------------
(* Type correctness.                                                        *)

\* The initial state is typed.
LEMMA InitTyped == Init => TypeOK
BY RefreshConstants
DEF Init, TypeOK, Ledger!Init, Ledger!LedgerTypeOK, Unpopulated, View, NoAttempt, AuditRow,
    NoSnapshot

\* The importers keep the ledger in its type.
LEMMA ImportTyped == Ledger!LedgerTypeOK /\ Import => Ledger!LedgerTypeOK'
<1> SUFFICES ASSUME Ledger!LedgerTypeOK, Import PROVE Ledger!LedgerTypeOK'
  OBVIOUS
<1> USE DEF Ledger!LedgerTypeOK, Ledger!Entry
<1>1. ASSUME NEW r \in Run, NEW d \in Dataset, NEW b \in Bundle, Ledger!Accept(r, d, b)
      PROVE  Ledger!LedgerTypeOK'
  BY <1>1 DEF Ledger!Accept
<1>2. ASSUME NEW s \in succeeded, Ledger!Disown(s)
      PROVE  Ledger!LedgerTypeOK'
  BY <1>2 DEF Ledger!Disown
<1>3. QED
  BY <1>1, <1>2 DEF Import

\* A view computed from typed tables and typed views is typed.
LEMMA ComputedTyped ==
    ASSUME NEW i \in 1..17, NEW tables \in [Dataset -> SUBSET Run],
           NEW seen \in [Views -> View]
    PROVE  Computed(ANALYTICAL_VIEWS[i], tables, seen) \in View
<1> DEFINE v == ANALYTICAL_VIEWS[i]
<1>1. {<<d, tables[d]>> : d \in TablesRead(v) \intersect Dataset}
          \subseteq Dataset \X SUBSET Run
  OBVIOUS
<1>2. \A w \in ViewsRead(v) : seen[w].from \subseteq Dataset \X SUBSET Run
  BY ReadsOlder DEF View
<1>3. UNION {seen[w].from : w \in ViewsRead(v)} \subseteq Dataset \X SUBSET Run
  BY <1>2
<1> HIDE DEF v
<1>4. Computed(v, tables, seen) \in View
  BY <1>1, <1>3 DEF Computed, View
<1>5. QED
  BY <1>4 DEF v

\* Changing the status of an attempt changes nothing else in the audit table.
LEMMA StatusOnly ==
    ASSUME audit \in [Attempt -> AuditRow], NEW a \in Attempt,
           NEW st \in {"running", "succeeded", "failed"},
           audit' = [audit EXCEPT ![a].status = st]
    PROVE  /\ audit' \in [Attempt -> AuditRow]
           /\ audit'[a] = [status |-> st, at |-> audit[a].at, ids |-> audit[a].ids]
           /\ \A b \in Attempt \ {a} : audit'[b] = audit[b]
<1> DEFINE new == [status |-> st, at |-> audit[a].at, ids |-> audit[a].ids]
<1>1. audit[a] \in AuditRow
  OBVIOUS
<1>2. [audit[a] EXCEPT !.status = st] = new /\ new \in AuditRow
  BY <1>1 DEF AuditRow
<1>3. audit' = [audit EXCEPT ![a] = new]
  BY <1>2
<1> HIDE DEF new
<1>4. QED
  BY <1>2, <1>3 DEF new

\* Refreshing a view changes that view of the draft, and nothing else of it.
LEMMA RefreshedDraft ==
    ASSUME TypeOK, ProcessInv, NEW q \in Refresher, RefreshView(q)
    PROVE  /\ next[q] \in 1..17
           /\ draft' \in [Refresher -> [Views -> View]]
           /\ draft'[q] = [draft[q] EXCEPT ![ANALYTICAL_VIEWS[next[q]]] =
                 Computed(ANALYTICAL_VIEWS[next[q]], snap[q].rows, draft[q])]
           /\ \A p \in Refresher \ {q} : draft'[p] = draft[p]
<1> DEFINE v == ANALYTICAL_VIEWS[next[q]]
<1>1. next[q] \in 1..17
  <2>1. next[q] \in Nat /\ next[q] >= 1 /\ next[q] <= N
    BY DEF TypeOK, ProcessInv, RefreshView, N
  <2>2. QED
    BY <2>1, ViewList
<1>2. draft' = [draft EXCEPT ![q][v] = Computed(v, snap[q].rows, draft[q])]
  BY DEF RefreshView
<1>3. snap[q].rows \in [Dataset -> SUBSET Run] /\ draft \in [Refresher -> [Views -> View]]
  BY DEF TypeOK
<1>4. v \in Views /\ Computed(v, snap[q].rows, draft[q]) \in View
  BY <1>1, <1>3, ComputedTyped, ViewList
<1> HIDE DEF v
<1>5. /\ draft' \in [Refresher -> [Views -> View]]
      /\ draft'[q] = [draft[q] EXCEPT ![v] = Computed(v, snap[q].rows, draft[q])]
      /\ \A p \in Refresher \ {q} : draft'[p] = draft[p]
  BY <1>2, <1>3, <1>4
<1>6. QED
  BY <1>1, <1>5 DEF v

\* Every step keeps the types.
LEMMA NextTyped == TypeOK /\ ProcessInv /\ [Next]_vars => TypeOK'
<1> SUFFICES ASSUME TypeOK, ProcessInv, [Next]_vars PROVE TypeOK'
  OBVIOUS
<1> USE RefreshConstants
    DEF TypeOK, ledger, process, reader, history, Goto, DropWork, Disconnect
<1>1. CASE Import
  BY <1>1, ImportTyped DEF Import
<1>2. CASE SetClockBack
  BY <1>2 DEF SetClockBack, Ledger!LedgerTypeOK
<1>3. UNCHANGED ledger => Ledger!LedgerTypeOK'
  BY DEF Ledger!LedgerTypeOK
<1>4. ASSUME NEW q \in Refresher
      PROVE  DropWork(q) => /\ snap' \in [Refresher -> [rows : [Dataset -> SUBSET Run],
                                                        ids : SUBSET Run, basis : SUBSET Run]]
                            /\ draft' \in [Refresher -> [Views -> View]]
                            /\ next' \in [Refresher -> Nat]
                            /\ stamp' \in [Refresher -> Nat]
  BY DEF NoSnapshot, Unpopulated, View
<1>5. ASSUME NEW q \in Refresher, TryLock(q) PROVE TypeOK'
  BY <1>3, <1>5 DEF TryLock
<1>6. ASSUME NEW q \in Refresher, Record(q) PROVE TypeOK'
  <2>1. audit' \in [Attempt -> AuditRow]
    BY <1>6, StatusOnly DEF Record
  <2>2. QED
    BY <1>3, <1>6, <2>1 DEF Record
<1>7. ASSUME NEW q \in Refresher, Capture(q) PROVE TypeOK'
  BY <1>3, <1>7 DEF Capture, SucceededIds, Ledger!LedgerTypeOK, Ledger!Entry
<1>8. ASSUME NEW q \in Refresher, RefreshView(q) PROVE TypeOK'
  <2>1. next[q] \in Nat /\ next' = [next EXCEPT ![q] = @ + 1]
    BY <1>8 DEF RefreshView
  <2>3. draft' \in [Refresher -> [Views -> View]]
    BY <1>8, RefreshedDraft
  <2>4. next' \in [Refresher -> Nat]
    BY ONLY <2>1, TypeOK DEF TypeOK
  <2>5. UNCHANGED <<ledger, views, audit, lock, clock, pc, own, snap, stamp, reader, history>>
    BY ONLY <1>8 DEF RefreshView
  <2>6. QED
    BY ONLY <1>3, <2>3, <2>4, <2>5, TypeOK DEF TypeOK, reader, history
<1>9. ASSUME NEW q \in Refresher, Stamp(q) PROVE TypeOK'
  BY <1>3, <1>9 DEF Stamp
<1>10. ASSUME NEW q \in Refresher, Publish(q)
       PROVE  /\ views' \in [Views -> View]
              /\ audit' \in [Attempt -> AuditRow]
              /\ shown' \in Attempt
              /\ basis' \in [Attempt -> SUBSET Run]
              /\ own[q] \in Attempt
  BY <1>10 DEF Publish, ProcessInv, AuditRow
<1>11. ASSUME NEW q \in Refresher, Commit(q) PROVE TypeOK'
  <2>1. /\ views' \in [Views -> View]
        /\ audit' \in [Attempt -> AuditRow]
        /\ shown' \in Attempt
        /\ basis' \in [Attempt -> SUBSET Run]
    BY ONLY <1>10, <1>11 DEF Commit
  <2>2. /\ snap' \in [Refresher -> [rows : [Dataset -> SUBSET Run],
                                    ids : SUBSET Run, basis : SUBSET Run]]
        /\ draft' \in [Refresher -> [Views -> View]]
        /\ next' \in [Refresher -> Nat]
        /\ stamp' \in [Refresher -> Nat]
    BY ONLY <1>4, <1>11 DEF Commit
  <2>3. /\ pc' = [pc EXCEPT ![q] = "unlocking"]
        /\ UNCHANGED <<ledger, lock, clock, own, reader, unacked>>
    BY ONLY <1>11 DEF Commit, Goto
  <2>4. QED
    BY ONLY <1>3, <2>1, <2>2, <2>3, TypeOK DEF TypeOK, reader
<1>12. ASSUME NEW q \in Refresher, CommitUnacknowledged(q) PROVE TypeOK'
  <2>1. /\ views' \in [Views -> View]
        /\ audit' \in [Attempt -> AuditRow]
        /\ shown' \in Attempt
        /\ basis' \in [Attempt -> SUBSET Run]
        /\ own[q] \in Attempt
    BY ONLY <1>10, <1>12 DEF CommitUnacknowledged
  <2>2. /\ snap' \in [Refresher -> [rows : [Dataset -> SUBSET Run],
                                    ids : SUBSET Run, basis : SUBSET Run]]
        /\ draft' \in [Refresher -> [Views -> View]]
        /\ next' \in [Refresher -> Nat]
        /\ stamp' \in [Refresher -> Nat]
    BY ONLY <1>4, <1>12 DEF CommitUnacknowledged
  <2>3. /\ pc' = [pc EXCEPT ![q] = "failing"]
        /\ lock' \in {lock, None}
        /\ unacked' = unacked \union {own[q]}
        /\ UNCHANGED <<ledger, clock, own, reader>>
    BY ONLY <1>12 DEF CommitUnacknowledged, Goto, Disconnect
  <2>4. QED
    BY ONLY <1>3, <2>1, <2>2, <2>3, TypeOK DEF TypeOK, reader
<1>13. ASSUME NEW q \in Refresher, Fail(q) PROVE TypeOK'
  <2>1. /\ snap' \in [Refresher -> [rows : [Dataset -> SUBSET Run],
                                    ids : SUBSET Run, basis : SUBSET Run]]
        /\ draft' \in [Refresher -> [Views -> View]]
        /\ next' \in [Refresher -> Nat]
        /\ stamp' \in [Refresher -> Nat]
    BY ONLY <1>4, <1>13 DEF Fail
  <2>2. /\ pc' = [pc EXCEPT ![q] = "failing"]
        /\ lock' \in {lock, None}
        /\ UNCHANGED <<ledger, views, audit, clock, own, reader, history>>
    BY ONLY <1>13 DEF Fail, Goto
  <2>3. QED
    BY ONLY <1>3, <2>1, <2>2, TypeOK DEF TypeOK, reader, history
<1>14. ASSUME NEW q \in Refresher, FailUnrecorded(q) PROVE TypeOK'
  BY <1>3, <1>14 DEF FailUnrecorded
<1>15. ASSUME NEW q \in Refresher, MarkFailed(q) PROVE TypeOK'
  <2>1. audit' \in [Attempt -> AuditRow]
    BY <1>15, StatusOnly DEF MarkFailed, ProcessInv
  <2>2. QED
    BY <1>3, <1>15, <2>1 DEF MarkFailed
<1>16. ASSUME NEW q \in Refresher, Unlock(q) PROVE TypeOK'
  BY <1>3, <1>16 DEF Unlock
<1>17. ASSUME NEW q \in Refresher, Crash(q) PROVE TypeOK'
  <2>1. /\ snap' \in [Refresher -> [rows : [Dataset -> SUBSET Run],
                                    ids : SUBSET Run, basis : SUBSET Run]]
        /\ draft' \in [Refresher -> [Views -> View]]
        /\ next' \in [Refresher -> Nat]
        /\ stamp' \in [Refresher -> Nat]
    BY ONLY <1>4, <1>17 DEF Crash
  <2>2. /\ pc' = [pc EXCEPT ![q] = "idle"]
        /\ own' = [own EXCEPT ![q] = None]
        /\ lock' \in {lock, None}
        /\ UNCHANGED <<ledger, views, audit, clock, reader, history>>
    BY ONLY <1>17 DEF Crash, Goto, Disconnect
  <2>3. QED
    BY ONLY <1>3, <2>1, <2>2, TypeOK DEF TypeOK, reader, history
<1>18. ASSUME NEW c \in Client, FirstPage(c) PROVE TypeOK'
  BY <1>3, <1>18 DEF FirstPage
<1>19. ASSUME NEW c \in Client, NextPage(c) PROVE TypeOK'
  BY <1>3, <1>19 DEF NextPage
<1>20. ASSUME NEW c \in Client, StopReading(c) PROVE TypeOK'
  BY <1>3, <1>20 DEF StopReading
<1>21. CASE UNCHANGED vars
  BY <1>3, <1>21 DEF vars
<1>22. QED
  BY <1>1, <1>2, <1>5, <1>6, <1>7, <1>8, <1>9, <1>11, <1>12, <1>13, <1>14, <1>15, <1>16,
     <1>17, <1>18, <1>19, <1>20, <1>21
  DEF Next, Proceed, Disturb

-----------------------------------------------------------------------------
(* The inductive invariant.                                                 *)

\* The invariant holds before the first refresh.
LEMMA InitInv == Init => IInv
<1> SUFFICES ASSUME Init PROVE IInv
  OBVIOUS
<1> USE RefreshConstants DEF Init, Ledger!Init
<1>1. TypeOK
  BY InitTyped
<1>2. ProcessInv /\ AuditInv /\ DraftInv
  BY DEF ProcessInv, AuditInv, DraftInv, ShownIsAudited
<1>3. OneSnapshot
  BY DEF OneSnapshot, Unpopulated
<1>4. QED
  BY <1>1, <1>2, <1>3 DEF IInv

\* Imports, clocks and readers do not touch the refreshers.
LEMMA EnvironmentStep ==
    ASSUME IInv, TypeOK', UNCHANGED <<views, audit, lock, process, history>>,
           published \subseteq published'
    PROVE  IInv'
<1> USE DEF IInv, process, history
<1>1. ProcessInv'
  BY DEF ProcessInv
<1>2. AuditInv'
  BY DEF AuditInv, ShownIsAudited
<1>3. DraftInv'
  BY DEF DraftInv, Shows
<1>4. OneSnapshot'
  BY DEF OneSnapshot
<1>5. QED
  BY <1>1, <1>2, <1>3, <1>4

\* Steps of a refresher that leave the views, and what they show, alone.
LEMMA QuietStep ==
    ASSUME IInv, TypeOK', NEW q \in Refresher,
           UNCHANGED <<ledger, views, history>>,
           \A p \in Refresher \ {q} :
              /\ pc'[p] = pc[p] /\ snap'[p] = snap[p]
              /\ draft'[p] = draft[p] /\ next'[p] = next[p],
           pc'[q] \notin {"refreshing", "committing"},
           \A a \in Attempt : audit[a].status \in {"succeeded", "failed"} /\ audit'[a] # audit[a]
              => a \in unacked /\ audit'[a].status = "failed",
           ProcessInv'
    PROVE  IInv'
<1> USE DEF IInv, TypeOK, ledger, history
<1>1. AuditInv'
  BY RefreshConstants DEF AuditInv, ShownIsAudited
<1>2. DraftInv'
  <2>1. DraftInv /\ UNCHANGED <<published, shown, basis>>
    OBVIOUS
  <2> HIDE DEF IInv, TypeOK
  <2>2. QED
    BY <2>1 DEF DraftInv, Shows
<1>3. OneSnapshot'
  BY DEF OneSnapshot
<1>4. QED
  BY <1>1, <1>2, <1>3

\* Taking the lock, or finding it taken, changes no table.
LEMMA TryLockStep ==
    ASSUME IInv, TypeOK', NEW q \in Refresher, TryLock(q)
    PROVE  IInv'
<1>1. ProcessInv'
  BY RefreshConstants DEF IInv, TypeOK, ProcessInv, TryLock, Goto, history
<1>2. QED
  BY <1>1, QuietStep DEF IInv, TypeOK, TryLock, Goto

\* A new running row belongs to the refresher that holds the lock.
LEMMA RecordStep ==
    ASSUME IInv, TypeOK', NEW q \in Refresher, Record(q)
    PROVE  IInv'
<1> USE RefreshConstants
<1>1. PICK a \in Attempt : /\ audit[a] = NoAttempt
                           /\ audit' = [audit EXCEPT ![a].status = "running"]
                           /\ own' = [own EXCEPT ![q] = a]
  BY DEF Record
<1>2. /\ audit'[a].status = "running" /\ audit[a].status = "absent"
      /\ \A b \in Attempt \ {a} : audit'[b] = audit[b]
  BY <1>1, StatusOnly DEF IInv, TypeOK, NoAttempt
<1>3. a # shown /\ a \notin unacked /\ \A p \in Refresher : own[p] # a
  BY <1>2 DEF IInv, AuditInv, ShownIsAudited, ProcessInv
<1>4. /\ UNCHANGED <<ledger, views, history, lock, next, snap, draft>>
      /\ pc[q] = "recording" /\ pc'[q] = "capturing" /\ own'[q] = a
      /\ \A p \in Refresher \ {q} : pc'[p] = pc[p] /\ own'[p] = own[p]
  BY <1>1 DEF IInv, TypeOK, Record, Goto
<1>5. ProcessInv'
  <2> SUFFICES ASSUME NEW p \in Refresher
               PROVE  ProcessInv!(p)'
    BY DEF ProcessInv
  <2>1. CASE p = q
    BY <1>2, <1>3, <1>4, <2>1 DEF IInv, TypeOK, ProcessInv, history
  <2>2. CASE p # q
    <3>1. own'[p] = own[p] /\ pc'[p] = pc[p]
      BY <1>4, <2>2
    <3>2. own[p] # None => audit'[own[p]] = audit[own[p]]
      BY <1>2, <1>3 DEF IInv, TypeOK
    <3>3. \A x \in Refresher : own'[x] = own'[p] => x = p \/ own[p] = None
      BY <1>3, <1>4, <2>2 DEF IInv, ProcessInv
    <3>4. UNCHANGED <<lock, next, shown, unacked>>
      BY <1>4 DEF history
    <3>5. QED
      BY <3>1, <3>2, <3>3, <3>4 DEF IInv, ProcessInv
  <2>3. QED
    BY <2>1, <2>2
<1>6. QED
  BY <1>2, <1>4, <1>5, QuietStep

\* The snapshot is the state of the tables at one moment.
LEMMA CaptureStep ==
    ASSUME IInv, TypeOK', NEW q \in Refresher, Capture(q)
    PROVE  IInv'
<1> USE RefreshConstants DEF IInv, TypeOK, Capture, Goto, history, ledger
<1>1. ProcessInv'
  BY DEF ProcessInv
<1>2. AuditInv'
  BY DEF AuditInv, ShownIsAudited
<1>3. DraftInv'
  BY DEF DraftInv, Shows, AuditInv
<1>4. OneSnapshot'
  BY DEF OneSnapshot
<1>5. QED
  BY <1>1, <1>2, <1>3, <1>4

\* The heart of a refresh: a view computed from the snapshot and from earlier
\* views that show it, shows it.
LEMMA ComputedShows ==
    ASSUME NEW i \in 1..17, NEW tables \in [Dataset -> SUBSET Run],
           NEW seen \in [Views -> View],
           \A j \in 1..17 : j < i => Shows(seen, ANALYTICAL_VIEWS[j], tables)
    PROVE  LET v == ANALYTICAL_VIEWS[i]
               new == [seen EXCEPT ![v] = Computed(v, tables, seen)]
           IN  \A j \in 1..17 : j < i + 1 => Shows(new, ANALYTICAL_VIEWS[j], tables)
<1> DEFINE v == ANALYTICAL_VIEWS[i]
           c == Computed(v, tables, seen)
           new == [seen EXCEPT ![v] = c]
<1>1. v \in Views /\ \A j \in 1..17 : ANALYTICAL_VIEWS[j] \in Views
  BY ViewList
<1>2. \A w \in ViewsRead(v) : \A x \in seen[w].from : x[2] = tables[x[1]]
  BY DependencyOrder DEF Shows
<1>3. c.populated /\ \A x \in c.from : x[2] = tables[x[1]]
  BY <1>2 DEF Computed
<1> HIDE DEF c, v
<1>4. ASSUME NEW j \in 1..17, j < i + 1
      PROVE  Shows(new, ANALYTICAL_VIEWS[j], tables)
  <2>1. CASE ANALYTICAL_VIEWS[j] = v
    BY <1>1, <1>3, <2>1 DEF Shows
  <2>2. CASE ANALYTICAL_VIEWS[j] # v
    <3>1. j < i
      BY <1>4, <2>2 DEF v
    <3>2. new[ANALYTICAL_VIEWS[j]] = seen[ANALYTICAL_VIEWS[j]]
      BY <1>1, <2>2
    <3>3. QED
      BY <3>1, <3>2 DEF Shows
  <2>3. QED
    BY <2>1, <2>2
<1>5. QED
  BY <1>4 DEF c, v

\* A refreshed view is computed from the snapshot, like those before it.
LEMMA RefreshViewStep ==
    ASSUME IInv, TypeOK', NEW q \in Refresher, RefreshView(q)
    PROVE  IInv'
<1> DEFINE T == snap[q].rows
<1>1. /\ UNCHANGED <<ledger, views, audit, lock, pc, own, snap, history>>
      /\ pc[q] = "refreshing" /\ next'[q] = next[q] + 1
      /\ \A p \in Refresher \ {q} : next'[p] = next[p]
  BY DEF IInv, TypeOK, RefreshView
<1>2. /\ next[q] \in 1..17
      /\ draft'[q] = [draft[q] EXCEPT ![ANALYTICAL_VIEWS[next[q]]] =
                        Computed(ANALYTICAL_VIEWS[next[q]], T, draft[q])]
      /\ \A p \in Refresher \ {q} : draft'[p] = draft[p]
  BY RefreshedDraft DEF IInv
<1>3. ProcessInv'
  BY <1>1, <1>2 DEF IInv, ProcessInv, history
<1>4. AuditInv' /\ OneSnapshot'
  BY <1>1 DEF IInv, AuditInv, ShownIsAudited, OneSnapshot, history, ledger
<1>5. \A j \in 1..17 : j < next'[q] => Shows(draft'[q], ANALYTICAL_VIEWS[j], T)
  <2>1. T \in [Dataset -> SUBSET Run] /\ draft[q] \in [Views -> View]
    BY DEF IInv, TypeOK
  <2>2. \A j \in 1..17 : j < next[q] => Shows(draft[q], ANALYTICAL_VIEWS[j], T)
    BY <1>1, ViewList DEF IInv, DraftInv, N
  <2> HIDE DEF T
  <2>3. \A j \in 1..17 : j < next[q] + 1 => Shows(draft'[q], ANALYTICAL_VIEWS[j], T)
    BY <1>2, <2>1, <2>2, ComputedShows
  <2>4. QED
    BY <1>1, <2>3
<1>6. DraftInv'
  <2> SUFFICES ASSUME NEW p \in Refresher
               PROVE  DraftInv!(p)'
    BY DEF DraftInv
  <2>1. CASE p = q
    BY <1>1, <1>5, <2>1, ViewList DEF IInv, DraftInv, Shows, N, history, ledger
  <2>2. CASE p # q
    BY <1>1, <1>2, <2>2 DEF IInv, DraftInv, Shows, history, ledger
  <2>3. QED
    BY <2>1, <2>2
<1>7. QED
  BY <1>3, <1>4, <1>6 DEF IInv

\* The time of success is written when every view is refreshed.
LEMMA StampStep ==
    ASSUME IInv, TypeOK', NEW q \in Refresher, Stamp(q)
    PROVE  IInv'
<1> USE RefreshConstants DEF IInv, TypeOK, Stamp, Goto, history, ledger
<1>1. ProcessInv'
  BY DEF ProcessInv
<1>2. AuditInv'
  BY DEF AuditInv, ShownIsAudited
<1>3. DraftInv'
  BY DEF DraftInv, Shows
<1>4. OneSnapshot'
  BY DEF OneSnapshot
<1>5. QED
  BY <1>1, <1>2, <1>3, <1>4

\* A publication replaces all the views by views of one snapshot, which is at
\* least as recent as the one they showed.
LEMMA PublishStep ==
    ASSUME IInv, TypeOK', NEW q \in Refresher, Publish(q), UNCHANGED ledger,
           unacked' \in {unacked, unacked \union {own[q]}},
           pc'[q] \notin {"refreshing", "committing"},
           \A p \in Refresher \ {q} : pc'[p] = pc[p]
    PROVE  AuditInv' /\ DraftInv' /\ OneSnapshot'
<1>1. lock = q /\ own[q] \in Attempt
  BY DEF IInv, TypeOK, ProcessInv, Publish
<1>2. \A p \in Refresher : pc'[p] \notin {"refreshing", "committing"}
  BY <1>1 DEF IInv, ProcessInv
<1>3. /\ audit'[own[q]].status = "succeeded" /\ basis'[own[q]] = snap[q].basis
      /\ \A a \in Attempt \ {own[q]} : audit'[a] = audit[a]
      /\ shown' = own[q]
  BY <1>1 DEF IInv, TypeOK, Publish
<1>4. AuditInv'
  BY <1>1, <1>3 DEF IInv, AuditInv, ShownIsAudited, DraftInv, Publish, ledger, TypeOK
<1>5. DraftInv'
  BY <1>2 DEF DraftInv
<1>6. OneSnapshot'
  <2>1. \A i \in 1..17 : Shows(draft[q], ANALYTICAL_VIEWS[i], snap[q].rows)
    <3>1. next[q] \in Nat /\ next[q] > N
      BY DEF IInv, TypeOK, DraftInv, Publish, N
    <3>2. QED
      BY <3>1, ViewList DEF IInv, DraftInv, Publish, N
  <2>2. \A v \in Views : Shows(draft[q], v, snap[q].rows)
    BY <2>1, ViewList
  <2>3. QED
    BY <2>2 DEF OneSnapshot, Shows, Publish
<1>7. QED
  BY <1>4, <1>5, <1>6

\* A commit publishes all views and the audit row at once.
LEMMA CommitStep ==
    ASSUME IInv, TypeOK', NEW q \in Refresher, Commit(q)
    PROVE  IInv'
<1>1. /\ pc[q] = "committing" /\ pc'[q] = "unlocking" /\ lock = q
      /\ own[q] \in Attempt /\ UNCHANGED <<own, lock, unacked, ledger>>
      /\ \A p \in Refresher \ {q} : pc'[p] = pc[p]
  BY DEF IInv, TypeOK, ProcessInv, Commit, Publish, Goto
<1>2. AuditInv' /\ DraftInv' /\ OneSnapshot'
  <2>1. Publish(q)
    BY DEF Commit
  <2>2. QED
    BY <1>1, <2>1, PublishStep
<1>3. ProcessInv'
  <2>1. /\ audit'[own[q]].status = "succeeded" /\ shown' = own[q]
        /\ \A a \in Attempt \ {own[q]} : audit'[a] = audit[a]
    BY <1>1 DEF Commit, Publish, IInv, TypeOK
  <2> SUFFICES ASSUME NEW p \in Refresher
               PROVE  ProcessInv!(p)'
    BY DEF ProcessInv
  <2>2. CASE p = q
    BY <1>1, <2>1, <2>2 DEF IInv, ProcessInv
  <2>3. CASE p # q
    BY <1>1, <2>1, <2>3 DEF IInv, TypeOK, ProcessInv
  <2>4. QED
    BY <2>2, <2>3
<1>4. QED
  BY <1>2, <1>3 DEF IInv

\* So does one whose answer is lost.
LEMMA CommitUnacknowledgedStep ==
    ASSUME IInv, TypeOK', NEW q \in Refresher, CommitUnacknowledged(q)
    PROVE  IInv'
<1>1. /\ pc[q] = "committing" /\ pc'[q] = "failing" /\ lock = q
      /\ own[q] \in Attempt /\ own[q] # None /\ UNCHANGED <<own, ledger>>
      /\ unacked' = unacked \union {own[q]}
      /\ \A p \in Refresher \ {q} : pc'[p] = pc[p]
  BY RefreshConstants
  DEF IInv, TypeOK, ProcessInv, CommitUnacknowledged, Publish, Goto
<1>2. AuditInv' /\ DraftInv' /\ OneSnapshot'
  <2>1. Publish(q)
    BY DEF CommitUnacknowledged
  <2>2. QED
    BY <1>1, <2>1, PublishStep
<1>3. ProcessInv'
  <2>1. /\ audit'[own[q]].status = "succeeded" /\ shown' = own[q]
        /\ \A a \in Attempt \ {own[q]} : audit'[a] = audit[a]
    BY <1>1 DEF CommitUnacknowledged, Publish, IInv, TypeOK
  <2> SUFFICES ASSUME NEW p \in Refresher
               PROVE  ProcessInv!(p)'
    BY DEF ProcessInv
  <2>2. CASE p = q
    BY <1>1, <2>1, <2>2 DEF IInv, ProcessInv
  <2>3. CASE p # q
    BY <1>1, <2>1, <2>3 DEF IInv, TypeOK, ProcessInv
  <2>4. QED
    BY <2>2, <2>3
<1>4. QED
  BY <1>2, <1>3 DEF IInv

\* A failure leaves the published views alone.
LEMMA FailStep ==
    ASSUME IInv, TypeOK', NEW q \in Refresher, Fail(q) \/ FailUnrecorded(q)
    PROVE  IInv'
<1>1. ProcessInv'
  BY DEF IInv, TypeOK, ProcessInv, Fail, FailUnrecorded, Goto, history, DropWork
<1>2. QED
  BY <1>1, QuietStep
  DEF IInv, TypeOK, Fail, FailUnrecorded, Goto, DropWork

\* Marking a failure never touches the row of an acknowledged success.
LEMMA MarkFailedStep ==
    ASSUME IInv, TypeOK', NEW q \in Refresher, MarkFailed(q)
    PROVE  IInv'
<1>1. own[q] \in Attempt /\ pc[q] = "failing" /\ pc'[q] = "unlocking"
  BY DEF IInv, TypeOK, ProcessInv, MarkFailed, Goto
<1>2. /\ audit'[own[q]].status = "failed"
      /\ \A a \in Attempt \ {own[q]} : audit'[a] = audit[a]
  BY <1>1, StatusOnly DEF IInv, TypeOK, MarkFailed
<1>3. /\ UNCHANGED <<ledger, views, history, own, snap, draft, next, lock>>
      /\ \A p \in Refresher \ {q} : pc'[p] = pc[p]
  BY DEF IInv, TypeOK, MarkFailed, Goto
<1>4. ProcessInv'
  <2> SUFFICES ASSUME NEW p \in Refresher
               PROVE  ProcessInv!(p)'
    BY DEF ProcessInv
  <2>1. CASE p = q
    BY <1>1, <1>2, <1>3, <2>1 DEF IInv, ProcessInv
  <2>2. CASE p # q
    BY <1>1, <1>2, <1>3, <2>2 DEF IInv, TypeOK, ProcessInv, history
  <2>3. QED
    BY <2>1, <2>2
<1>5. \A a \in Attempt : audit[a].status \in {"succeeded", "failed"} /\ audit'[a] # audit[a]
              => a \in unacked /\ audit'[a].status = "failed"
  BY <1>1, <1>2 DEF IInv, ProcessInv
<1>6. QED
  BY <1>1, <1>3, <1>4, <1>5, QuietStep

\* A command that ends, cleanly or not, leaves its attempt behind.
LEMMA ExitStep ==
    ASSUME IInv, TypeOK', NEW q \in Refresher, Unlock(q) \/ Crash(q)
    PROVE  IInv'
<1>1. /\ UNCHANGED <<ledger, views, history, audit>>
      /\ pc'[q] = "idle" /\ own'[q] = None
      /\ \A p \in Refresher \ {q} :
            /\ pc'[p] = pc[p] /\ own'[p] = own[p] /\ snap'[p] = snap[p]
            /\ draft'[p] = draft[p] /\ next'[p] = next[p]
            /\ lock = p => lock' = p
  BY DEF IInv, TypeOK, Unlock, Crash, Goto, DropWork, Disconnect
<1>2. ProcessInv'
  BY <1>1 DEF IInv, ProcessInv, history
<1>3. QED
  BY <1>1, <1>2, QuietStep

\* Every step keeps the invariant.
LEMMA NextInv == IInv /\ [Next]_vars => IInv'
<1> SUFFICES ASSUME IInv, [Next]_vars PROVE IInv'
  OBVIOUS
<1>1. TypeOK'
  BY NextTyped DEF IInv
<1>2. CASE Import
  <2>1. published \subseteq published'
    BY <1>2 DEF Import, Ledger!Accept, Ledger!Disown
  <2>2. QED
    BY <1>1, <1>2, <2>1, EnvironmentStep DEF Import
<1>3. CASE SetClockBack
  BY <1>1, <1>3, EnvironmentStep DEF SetClockBack, ledger
<1>4. ASSUME NEW q \in Refresher, TryLock(q) \/ Proceed(q) \/ Disturb(q)
      PROVE  IInv'
  BY <1>1, <1>4, TryLockStep, RecordStep, CaptureStep, RefreshViewStep, StampStep, CommitStep,
     CommitUnacknowledgedStep, FailStep, MarkFailedStep, ExitStep
  DEF Proceed, Disturb
<1>5. ASSUME NEW c \in Client, FirstPage(c) \/ NextPage(c) \/ StopReading(c)
      PROVE  IInv'
  BY <1>1, <1>5, EnvironmentStep DEF FirstPage, NextPage, StopReading, ledger
<1>6. CASE UNCHANGED vars
  BY <1>1, <1>6, EnvironmentStep DEF vars, ledger
<1>7. QED
  BY <1>2, <1>3, <1>4, <1>5, <1>6 DEF Next

\* The invariant holds in every reachable state, whatever fails.
THEOREM Invariance == Spec => []IInv
BY InitInv, NextInv, PTL DEF Spec

\* Every variable keeps its type, however many refreshes and readers run.
THEOREM TypeCorrect == Spec => []TypeOK
<1>1. IInv => TypeOK
  BY DEF IInv
<1>2. QED
  BY <1>1, Invariance, PTL

\* The views show one snapshot, always.
THEOREM OneSnapshotAlways == Spec => []OneSnapshot
<1>1. IInv => OneSnapshot
  BY DEF IInv
<1>2. QED
  BY <1>1, Invariance, PTL

\* What readers see was recorded as successful, a lost answer apart.
THEOREM AuditedAlways == Spec => []ShownIsAudited
<1>1. IInv => ShownIsAudited
  BY DEF IInv, AuditInv
<1>2. QED
  BY <1>1, Invariance, PTL

\* A publication never goes back to sources older than the previous one's.
THEOREM PublicationsAdvance == Spec => NeverGoesBack
<1>1. IInv /\ [Next]_vars =>
          [views' # views /\ shown # None =>
              shown' # shown /\ basis[shown] \subseteq basis'[shown']]_vars
  <2> SUFFICES ASSUME IInv, [Next]_vars, views' # views, shown # None
               PROVE  shown' # shown /\ basis[shown] \subseteq basis'[shown']
    OBVIOUS
  <2>1. PICK q \in Refresher : Publish(q)
    BY DEF Next, Import, SetClockBack, TryLock, Proceed, Disturb, Record, Capture, RefreshView,
           Stamp, Commit, CommitUnacknowledged, Fail, FailUnrecorded, MarkFailed, Unlock, Crash,
           FirstPage, NextPage, StopReading, vars
  <2>2. own[q] \in Attempt /\ own[q] # shown
    BY <2>1 DEF IInv, TypeOK, ProcessInv, Publish
  <2>3. shown' = own[q] /\ basis'[own[q]] = snap[q].basis
    BY <2>1, <2>2 DEF Publish, IInv, TypeOK
  <2>4. basis[shown] \subseteq snap[q].basis
    BY <2>1 DEF IInv, DraftInv, Publish
  <2>5. QED
    BY <2>2, <2>3, <2>4
<1>2. QED
  BY <1>1, Invariance, PTL DEF Spec, NeverGoesBack

-----------------------------------------------------------------------------
(* Without lost answers and with a clock that only advances.                *)

\* The stronger invariant holds before the first refresh.
LEMMA InitFaultFree == Init => FaultFreeInv
<1> SUFFICES ASSUME Init PROVE FaultFreeInv
  OBVIOUS
<1> USE DEF Init, Ledger!Init
<1>1. SourcesInv
  BY DEF SourcesInv, SucceededIds
<1>2. LatestInv /\ PagesInv
  BY DEF LatestInv, PagesInv, SuccessfulAttempts, NoAttempt
<1>3. QED
  BY <1>1, <1>2, InitInv DEF FaultFreeInv

\* The latest success is the attempt whose results the views hold.
LEMMA LatestIsShown ==
    ASSUME FaultFreeInv, NEW a, IsLatest(a)
    PROVE  a = shown /\ shown \in Attempt
<1>1. a \in SuccessfulAttempts /\ shown # None /\ shown \in Attempt
  BY DEF IsLatest, FaultFreeInv, LatestInv, IInv, TypeOK
<1>2. shown \in SuccessfulAttempts
  BY <1>1 DEF FaultFreeInv, SourcesInv, IInv, AuditInv, ShownIsAudited, SuccessfulAttempts
<1>3. audit[a].at \in Nat /\ audit[shown].at \in Nat
  BY <1>1, <1>2 DEF FaultFreeInv, IInv, TypeOK, AuditRow, SuccessfulAttempts
<1>4. a # shown => audit[a].at < audit[shown].at
  BY <1>1 DEF FaultFreeInv, LatestInv
<1>5. a # shown => \/ audit[shown].at < audit[a].at
                   \/ audit[shown].at = audit[a].at
  BY <1>2 DEF IsLatest
<1>6. QED
  BY <1>1, <1>3, <1>4, <1>5

\* The runs of one more source are the runs of the others and its own.
LEMMA OneMoreRun ==
    ASSUME NEW S, NEW e
    PROVE  {s.run : s \in S \union {e}} = {s.run : s \in S} \union {e.run}
OBVIOUS

\* A view can show old rows only while the set of successful imports is larger
\* than the one it was computed from.
LEMMA SourcesStep ==
    ASSUME AcksLost = FALSE, FaultFreeInv, IInv', [Next]_vars
    PROVE  SourcesInv'
<1> USE DEF FaultFreeInv, SourcesInv, SucceededIds
<1>1. CASE Import
  <2>1. PICK r \in Run, d \in Dataset, b \in Bundle : Ledger!Accept(r, d, b)
    BY <1>1 DEF Import
  <2>2. published' = published \union {r} /\ r \notin published
        /\ succeeded' = succeeded \union {[run |-> r, dataset |-> d, sha256 |-> b]}
    BY <2>1 DEF Ledger!Accept
  <2>3. SucceededIds' = published'
    <3>1. {s.run : s \in succeeded'} = {s.run : s \in succeeded} \union {r}
      BY <2>2, OneMoreRun
    <3>2. QED
      BY <2>2, <3>1
  <2>4. /\ UNCHANGED <<unacked, pc, snap, shown, audit, basis>>
        /\ \A q \in Refresher : pc[q] \in {"refreshing", "committing"} =>
              snap[q].basis # published'
        /\ shown # None => basis[shown] # published'
    BY <1>1, <2>2 DEF Import, process, history, IInv, DraftInv, AuditInv
  <2>5. QED
    BY <2>3, <2>4
<1>2. ASSUME NEW q \in Refresher, Capture(q)
      PROVE  SourcesInv'
  <2>1. SucceededIds' = published' /\ unacked' = {}
    BY <1>2 DEF Capture, ledger, history
  <2>2. snap'[q] = [rows |-> rows, ids |-> published, basis |-> published]
        /\ \A p \in Refresher \ {q} : snap'[p] = snap[p] /\ pc'[p] = pc[p]
    BY <1>2 DEF Capture, Goto, IInv, TypeOK
  <2>3. UNCHANGED <<rows, published, shown, audit, basis, views>>
    BY <1>2 DEF Capture, ledger, history
  <2>4. QED
    BY <2>1, <2>2, <2>3 DEF Shows
<1>3. ASSUME NEW q \in Refresher, Commit(q)
      PROVE  SourcesInv'
  <2>1. SucceededIds' = published' /\ unacked' = {}
    BY <1>3 DEF Commit, ledger
  <2>2. \A p \in Refresher : pc'[p] \notin {"refreshing", "committing"}
    <3>1. lock = q /\ pc'[q] = "unlocking" /\ \A p \in Refresher \ {q} : pc'[p] = pc[p]
      BY <1>3 DEF Commit, Publish, Goto, IInv, TypeOK, ProcessInv
    <3>2. \A p \in Refresher : pc[p] \in {"refreshing", "committing"} => lock = p
      BY DEF IInv, ProcessInv
    <3>3. QED
      BY <3>1, <3>2
  <2>3. own[q] \in Attempt
    BY <1>3 DEF Commit, Publish, IInv, TypeOK, ProcessInv
  <2>4. shown' = own[q] /\ audit'[own[q]].ids = snap[q].ids /\ basis'[own[q]] = snap[q].basis
        /\ UNCHANGED <<rows, published>> /\ views' = draft[q] /\ pc[q] = "committing"
    BY <1>3, <2>3 DEF Commit, Publish, IInv, TypeOK, ledger
  <2>5. \A v \in Views : Shows(draft[q], v, snap[q].rows)
    <3>1. next[q] \in Nat /\ next[q] > N
      BY <2>4 DEF IInv, TypeOK, DraftInv, N
    <3>2. \A i \in 1..17 : Shows(draft[q], ANALYTICAL_VIEWS[i], snap[q].rows)
      BY <2>4, <3>1, ViewList DEF IInv, DraftInv, N
    <3>3. QED
      BY <3>2, ViewList
  <2>6. QED
    BY <2>1, <2>2, <2>4, <2>5 DEF Shows
<1>4. ASSUME NEW q \in Refresher, MarkFailed(q)
      PROVE  SourcesInv'
  <2>1. own[q] # shown /\ own[q] \in Attempt
    BY <1>4 DEF MarkFailed, IInv, TypeOK, ProcessInv
  <2>2. shown # None => audit'[shown] = audit[shown]
    BY <1>4, <2>1 DEF MarkFailed, IInv, TypeOK
  <2>3. UNCHANGED <<rows, succeeded, published, unacked, snap, shown, basis, views>>
        /\ \A p \in Refresher : pc'[p] \in {"refreshing", "committing"} => pc'[p] = pc[p]
    BY <1>4 DEF MarkFailed, Goto, ledger, history, IInv, TypeOK
  <2>4. QED
    BY <2>2, <2>3 DEF Shows
<1>5. ASSUME NEW q \in Refresher, Record(q)
      PROVE  SourcesInv'
  <2>1. PICK a \in Attempt : audit[a] = NoAttempt /\ audit' = [audit EXCEPT ![a].status = "running"]
    BY <1>5 DEF Record
  <2>2. shown # None => audit'[shown] = audit[shown]
    BY <2>1 DEF IInv, TypeOK, AuditInv, ShownIsAudited, NoAttempt
  <2>3. UNCHANGED <<rows, succeeded, published, unacked, snap, shown, basis, views>>
        /\ \A p \in Refresher : pc'[p] \in {"refreshing", "committing"} => pc'[p] = pc[p]
    BY <1>5 DEF Record, Goto, ledger, history, IInv, TypeOK
  <2>4. QED
    BY <2>2, <2>3 DEF Shows
<1>6. ASSUME UNCHANGED <<rows, succeeded, published, audit, views, unacked, shown, basis>>,
             \A p \in Refresher : pc'[p] \in {"refreshing", "committing"} =>
                snap'[p] = snap[p] /\ pc[p] \in {"refreshing", "committing"}
      PROVE  SourcesInv'
  BY <1>6 DEF Shows
<1>7. \/ Import \/ \E q \in Refresher : Capture(q) \/ Commit(q) \/ MarkFailed(q) \/ Record(q)
      \/ /\ UNCHANGED <<rows, succeeded, published, audit, views, unacked, shown, basis>>
         /\ \A p \in Refresher : pc'[p] \in {"refreshing", "committing"} =>
                snap'[p] = snap[p] /\ pc[p] \in {"refreshing", "committing"}
  <2>1. ASSUME NEW q \in Refresher,
               TryLock(q) \/ RefreshView(q) \/ Stamp(q) \/ Unlock(q) \/ Fail(q)
                  \/ FailUnrecorded(q) \/ Crash(q)
        PROVE  /\ UNCHANGED <<rows, succeeded, published, audit, views, unacked, shown, basis>>
               /\ \A p \in Refresher : pc'[p] \in {"refreshing", "committing"} =>
                    snap'[p] = snap[p] /\ pc[p] \in {"refreshing", "committing"}
    <3>1. UNCHANGED <<rows, succeeded, published, audit, views, unacked, shown, basis>>
      BY ONLY <2>1 DEF TryLock, RefreshView, Stamp, Unlock, Fail, FailUnrecorded, Crash, ledger,
                       history
    <3>2. /\ pc \in [Refresher -> Stages]
          /\ snap \in [Refresher -> [rows : [Dataset -> SUBSET Run],
                                     ids : SUBSET Run, basis : SUBSET Run]]
      BY DEF IInv, TypeOK, Stages
    <3>3. CASE TryLock(q) \/ Unlock(q) \/ FailUnrecorded(q)
      BY ONLY <3>1, <3>2, <3>3 DEF TryLock, Unlock, FailUnrecorded, Goto
    <3>4. CASE RefreshView(q) \/ Stamp(q)
      BY ONLY <3>1, <3>2, <3>4 DEF RefreshView, Stamp, Goto
    <3>5. CASE Fail(q) \/ Crash(q)
      BY ONLY <3>1, <3>2, <3>5 DEF Fail, Crash, Goto, DropWork
    <3>6. QED
      BY ONLY <2>1, <3>3, <3>4, <3>5
  <2>2. CASE SetClockBack \/ UNCHANGED vars
             \/ \E c \in Client : FirstPage(c) \/ NextPage(c) \/ StopReading(c)
    BY <2>2 DEF SetClockBack, FirstPage, NextPage, StopReading, vars, ledger, process, history
  <2>3. \A q \in Refresher : ~CommitUnacknowledged(q)
    BY DEF CommitUnacknowledged
  <2>4. QED
    BY <2>1, <2>2, <2>3 DEF Next, Proceed, Disturb
<1>8. QED
  BY <1>1, <1>2, <1>3, <1>4, <1>5, <1>6, <1>7

\* Completion times grow with the publications, because the lock orders them.
LEMMA LatestStep ==
    ASSUME AcksLost = FALSE, ClockSteps = FALSE, FaultFreeInv, IInv', [Next]_vars
    PROVE  LatestInv'
<1> USE DEF FaultFreeInv, LatestInv, SuccessfulAttempts
<1>1. ASSUME NEW q \in Refresher, Stamp(q)
      PROVE  LatestInv'
  <2>1. clock \in Nat /\ clock' = clock + 1 /\ stamp'[q] = clock' /\ lock = q
        /\ UNCHANGED <<audit, shown>> /\ pc'[q] = "committing"
        /\ \A p \in Refresher \ {q} : pc'[p] = pc[p] /\ stamp'[p] = stamp[p]
    BY <1>1 DEF Stamp, Goto, history, IInv, TypeOK, ProcessInv
  <2>2. \A p \in Refresher \ {q} : pc'[p] # "committing"
    BY <2>1 DEF IInv, ProcessInv
  <2>3. \A a \in Attempt : audit[a].at \in Nat
    BY DEF IInv, TypeOK, AuditRow
  <2>4. QED
    BY <2>1, <2>2, <2>3
<1>2. ASSUME NEW q \in Refresher, Commit(q)
      PROVE  LatestInv'
  <2>1. /\ own[q] \in Attempt /\ own[q] # None /\ lock = q /\ pc[q] = "committing"
        /\ pc'[q] = "unlocking" /\ UNCHANGED clock
        /\ \A p \in Refresher \ {q} : pc'[p] = pc[p]
    BY <1>2, RefreshConstants DEF Commit, Publish, Goto, IInv, TypeOK, ProcessInv
  <2>2. /\ shown' = own[q] /\ audit'[own[q]].at = stamp[q]
        /\ \A a \in Attempt \ {own[q]} : audit'[a] = audit[a]
    BY <1>2, <2>1 DEF Commit, Publish, IInv, TypeOK
  <2>3. \A p \in Refresher : pc'[p] # "committing"
    BY <2>1 DEF IInv, ProcessInv
  <2>4. stamp[q] = clock /\ clock \in Nat
    BY <2>1 DEF IInv, TypeOK
  <2>5. QED
    BY <2>1, <2>2, <2>3, <2>4
<1>3. ASSUME NEW q \in Refresher, NEW a \in Attempt, audit[a].status \in {"absent", "running"},
             \A b \in Attempt \ {a} : audit'[b] = audit[b],
             audit'[a].status # "succeeded",
             UNCHANGED <<clock, shown, stamp>>,
             \A p \in Refresher : pc'[p] = "committing" => pc[p] = "committing"
      PROVE  LatestInv'
  <2>1. \A b \in Attempt : audit'[b].status = "succeeded" => audit'[b] = audit[b]
    BY <1>3
  <2>2. shown # None => audit'[shown] = audit[shown]
    BY <1>3, RefreshConstants DEF IInv, TypeOK, AuditInv, ShownIsAudited, SourcesInv
  <2>3. QED
    BY <1>3, <2>1, <2>2
<1>4. ASSUME NEW q \in Refresher, Record(q)
      PROVE  LatestInv'
  <2>1. PICK a \in Attempt : audit[a] = NoAttempt /\ audit' = [audit EXCEPT ![a].status = "running"]
    BY <1>4 DEF Record
  <2>2. /\ audit[a].status = "absent" /\ audit'[a].status = "running"
        /\ \A b \in Attempt \ {a} : audit'[b] = audit[b]
    BY <2>1, StatusOnly DEF IInv, TypeOK, NoAttempt
  <2>3. UNCHANGED <<clock, shown, stamp>>
        /\ \A p \in Refresher : pc'[p] = "committing" => pc[p] = "committing"
    BY <1>4 DEF Record, Goto, history, IInv, TypeOK
  <2>4. QED
    BY <1>3, <2>2, <2>3
<1>5. ASSUME NEW q \in Refresher, MarkFailed(q)
      PROVE  LatestInv'
  <2>1. own[q] \in Attempt /\ audit[own[q]].status = "running"
    BY <1>5 DEF MarkFailed, IInv, TypeOK, ProcessInv, SourcesInv
  <2>2. /\ audit'[own[q]].status = "failed"
        /\ \A b \in Attempt \ {own[q]} : audit'[b] = audit[b]
    BY <1>5, <2>1, StatusOnly DEF IInv, TypeOK, MarkFailed
  <2>3. UNCHANGED <<clock, shown, stamp>>
        /\ \A p \in Refresher : pc'[p] = "committing" => pc[p] = "committing"
    BY <1>5 DEF MarkFailed, Goto, history, IInv, TypeOK
  <2>4. QED
    BY <1>3, <2>1, <2>2, <2>3
<1>6. ASSUME UNCHANGED <<audit, clock, shown>>,
             \A p \in Refresher : pc'[p] = "committing" =>
                pc[p] = "committing" /\ stamp'[p] = stamp[p]
      PROVE  LatestInv'
  BY <1>6
<1>7. \/ \E q \in Refresher : Stamp(q) \/ Commit(q) \/ MarkFailed(q) \/ Record(q)
      \/ /\ UNCHANGED <<audit, clock, shown>>
         /\ \A p \in Refresher : pc'[p] = "committing" =>
                pc[p] = "committing" /\ stamp'[p] = stamp[p]
  <2>1. ASSUME NEW q \in Refresher,
               TryLock(q) \/ Capture(q) \/ RefreshView(q) \/ Unlock(q) \/ Fail(q)
                  \/ FailUnrecorded(q) \/ Crash(q)
        PROVE  /\ UNCHANGED <<audit, clock, shown>>
               /\ \A p \in Refresher : pc'[p] = "committing" =>
                    pc[p] = "committing" /\ stamp'[p] = stamp[p]
    <3>1. UNCHANGED <<audit, clock, shown>>
      BY ONLY <2>1 DEF TryLock, Capture, RefreshView, Unlock, Fail, FailUnrecorded, Crash, history
    <3>2. pc \in [Refresher -> Stages] /\ stamp \in [Refresher -> Nat]
      BY DEF IInv, TypeOK, Stages
    <3>3. CASE TryLock(q) \/ Unlock(q) \/ FailUnrecorded(q) \/ Capture(q) \/ RefreshView(q)
      BY ONLY <3>1, <3>2, <3>3 DEF TryLock, Unlock, FailUnrecorded, Capture, RefreshView, Goto
    <3>4. CASE Fail(q) \/ Crash(q)
      BY ONLY <3>1, <3>2, <3>4 DEF Fail, Crash, Goto, DropWork
    <3>5. QED
      BY ONLY <2>1, <3>3, <3>4
  <2>2. CASE Import \/ UNCHANGED vars
             \/ \E c \in Client : FirstPage(c) \/ NextPage(c) \/ StopReading(c)
    BY <2>2 DEF Import, FirstPage, NextPage, StopReading, vars, process, history
  <2>3. ~SetClockBack /\ \A q \in Refresher : ~CommitUnacknowledged(q)
    BY DEF SetClockBack, CommitUnacknowledged
  <2>4. QED
    BY <2>1, <2>2, <2>3 DEF Next, Proceed, Disturb
<1>8. QED
  BY <1>1, <1>2, <1>4, <1>5, <1>6, <1>7

\* A reader is served the attempt it asks for.
LEMMA PagesStep ==
    ASSUME FaultFreeInv, [Next]_vars
    PROVE  PagesInv'
<1> USE DEF FaultFreeInv, PagesInv
<1>1. ASSUME NEW c \in Client, FirstPage(c)
      PROVE  PagesInv'
  <2>1. PICK a \in Attempt : IsLatest(a) /\ page' = [page EXCEPT ![c] = a]
    BY <1>1 DEF FirstPage
  <2>2. a = shown
    BY <2>1, LatestIsShown
  <2>3. got' = [got EXCEPT ![c] = {a}]
    BY <1>1, <2>2 DEF FirstPage
  <2>4. QED
    BY <2>1, <2>3, RefreshConstants DEF IInv, TypeOK
<1>2. ASSUME NEW c \in Client, NextPage(c)
      PROVE  PagesInv'
  <2>1. page[c] = shown
    BY <1>2, LatestIsShown DEF NextPage
  <2>2. QED
    BY <1>2, <2>1 DEF NextPage, IInv, TypeOK
<1>3. ASSUME NEW c \in Client, StopReading(c)
      PROVE  PagesInv'
  BY <1>3 DEF StopReading, IInv, TypeOK
<1>4. CASE UNCHANGED reader
  BY <1>4 DEF reader
<1>5. QED
  BY <1>1, <1>2, <1>3, <1>4
  DEF Next, Import, SetClockBack, TryLock, Proceed, Disturb, Record, Capture, RefreshView,
      Stamp, Commit, CommitUnacknowledged, Fail, FailUnrecorded, MarkFailed, Unlock, Crash, vars

\* The stronger invariant holds when nothing goes wrong outside the program.
THEOREM FaultFreeInvariance ==
    ASSUME AcksLost = FALSE, ClockSteps = FALSE
    PROVE  Spec => []FaultFreeInv
<1>1. FaultFreeInv /\ [Next]_vars => FaultFreeInv'
  <2> SUFFICES ASSUME FaultFreeInv, [Next]_vars PROVE FaultFreeInv'
    OBVIOUS
  <2>1. IInv'
    BY NextInv DEF FaultFreeInv
  <2>2. QED
    BY <2>1, SourcesStep, LatestStep, PagesStep DEF FaultFreeInv
<1>2. QED
  BY <1>1, InitFaultFree, PTL DEF Spec

\* A snapshot reported as current shows the live rows.
THEOREM FreshnessTrusted ==
    ASSUME AcksLost = FALSE, ClockSteps = FALSE
    PROVE  Spec => []CurrentIsLive
<1>1. FaultFreeInv => CurrentIsLive
  <2> SUFFICES ASSUME FaultFreeInv, Current PROVE \A v \in Views : Shows(views, v, rows)
    BY DEF CurrentIsLive, Shows
  <2>1. PICK a \in Attempt : IsLatest(a) /\ audit[a].ids = SucceededIds
    BY DEF Current
  <2>2. a = shown /\ shown # None
    BY <2>1, LatestIsShown, RefreshConstants
  <2>3. QED
    BY <2>1, <2>2 DEF FaultFreeInv, SourcesInv
<1>2. QED
  BY <1>1, FaultFreeInvariance, PTL

\* The pages collected under one publication_id come from one publication.
THEOREM PagesTogether ==
    ASSUME AcksLost = FALSE, ClockSteps = FALSE
    PROVE  Spec => []PagesFromOnePublication
<1>1. FaultFreeInv => PagesFromOnePublication
  BY DEF FaultFreeInv, PagesInv, PagesFromOnePublication
<1>2. QED
  BY <1>1, FaultFreeInvariance, PTL

-----------------------------------------------------------------------------
(* What a refresh can count on.                                             *)

\* The order of ANALYTICAL_VIEWS never lets a refresh read a view that is not there
\* yet, whatever was published before ("Dependencies must be refreshed before their
\* consumers", analytics.py).
THEOREM DependenciesAlwaysReady == Spec => []DependenciesReady
<1>1. IInv => DependenciesReady
  <2> SUFFICES ASSUME IInv, NEW q \in Refresher, pc[q] = "refreshing", next[q] <= N,
                      NEW w \in ViewsRead(ANALYTICAL_VIEWS[next[q]])
               PROVE  draft[q][w].populated
    BY DEF DependenciesReady, N
  <2>1. next[q] \in 1..17
    <3>1. next[q] \in Nat /\ next[q] >= 1 /\ next[q] <= N
      BY DEF IInv, TypeOK, ProcessInv
    <3> QED
      BY ONLY <3>1, ViewList
  <2>2. PICK j \in 1..17 : j < next[q] /\ ANALYTICAL_VIEWS[j] = w
    BY <2>1, DependencyOrder
  <2>3. Shows(draft[q], ANALYTICAL_VIEWS[j], snap[q].rows)
    BY <2>2, ViewList DEF IInv, DraftInv, N
  <2> QED
    BY <2>2, <2>3 DEF Shows
<1> QED
  BY <1>1, Invariance, PTL

\* No end of a refresh, clean or not, leaves the advisory lock behind (the session
\* of the lock ends with the command; refresh_analytics unlocks it in "finally").
THEOREM LockNeverOrphaned == Spec => []LockIsOfACommand
<1>1. Init => LockIsOfACommand
  BY DEF Init, LockIsOfACommand
<1>2. ASSUME IInv, LockIsOfACommand, [Next]_vars
      PROVE  LockIsOfACommand'
  <2>1. pc \in [Refresher -> Stages] /\ lock \in Refresher \union {None} /\ None \notin Refresher
    BY <1>2, RefreshConstants DEF IInv, TypeOK, Stages
  <2>2. CASE UNCHANGED <<lock, pc>>
    BY <1>2, <2>2 DEF LockIsOfACommand
  <2>3. ASSUME NEW q \in Refresher, lock' \in {lock, None}, NEW stage, stage # "idle", Goto(q, stage)
        PROVE  LockIsOfACommand'
    BY ONLY <1>2, <2>1, <2>3 DEF LockIsOfACommand, Goto
  <2>4. ASSUME NEW q \in Refresher, TryLock(q)
        PROVE  LockIsOfACommand'
    BY ONLY <2>1, <2>4 DEF LockIsOfACommand, TryLock, Goto
  <2>5. ASSUME NEW q \in Refresher, Unlock(q) \/ Crash(q)
        PROVE  LockIsOfACommand'
    BY ONLY <1>2, <2>1, <2>5 DEF LockIsOfACommand, Unlock, Crash, Disconnect, Goto
  <2>6. ASSUME NEW q \in Refresher,
               \/ Record(q) \/ Capture(q) \/ Stamp(q) \/ Commit(q) \/ CommitUnacknowledged(q)
               \/ Fail(q) \/ FailUnrecorded(q) \/ MarkFailed(q)
        PROVE  LockIsOfACommand'
    <3>1. lock' \in {lock, None}
      BY <2>6
      DEF Record, Capture, Stamp, Commit, CommitUnacknowledged, Fail, FailUnrecorded,
          MarkFailed, Disconnect
    <3>2. \/ Goto(q, "capturing") \/ Goto(q, "refreshing") \/ Goto(q, "committing")
          \/ Goto(q, "unlocking") \/ Goto(q, "failing")
      BY ONLY <2>6
      DEF Record, Capture, Stamp, Commit, CommitUnacknowledged, Fail, FailUnrecorded,
          MarkFailed
    <3> QED
      BY <2>3, <3>1, <3>2
  <2> QED
    BY <1>2, <2>2, <2>4, <2>5, <2>6
    DEF Next, Import, SetClockBack, Proceed, Disturb, RefreshView, FirstPage, NextPage,
        StopReading, process, vars
<1> QED
  BY <1>1, <1>2, Invariance, PTL DEF Spec

-----------------------------------------------------------------------------
(* The refinement of AnalyticsRegister.                                     *)

\* What a view is made from is what it reads, and what the views that it reads are
\* made from.
LEMMA SourcesClosed ==
    \A i \in 1..17 : Sources[ANALYTICAL_VIEWS[i]] =
        TablesRead(ANALYTICAL_VIEWS[i])
            \union UNION {Sources[w] : w \in ViewsRead(ANALYTICAL_VIEWS[i])}
<1> DEFINE V == ANALYTICAL_VIEWS
           S(v) == CASE v = "assortment_candidates" -> {"typologies", "assortments"}
                     [] v = "store_category_month"  -> {"numeric_distribution", "shelf_share",
                                                        "typologies", "assortments"}
                     [] v \in {"store_month", "store_month_changes", "network_month",
                               "network_year", "network_overview", "network_month_changes"} ->
                           Observations \union {"assortments", "stores"}
                     [] OTHER -> TablesRead(v)
<1>1. \A i \in 1..17 : Sources[V[i]] = S(V[i]) /\ \A w \in ViewsRead(V[i]) : Sources[w] = S(w)
  <2>1. \A v \in Views : Sources[v] = S(v)
    BY DEF Sources
  <2>2. \A i \in 1..17 : V[i] \in Views /\ ViewsRead(V[i]) \subseteq Views
    BY ViewList, ReadsOlder
  <2> HIDE DEF S, V
  <2> QED
    BY ONLY <2>1, <2>2
<1>2. ASSUME NEW i \in {1, 2, 3, 4, 5, 6, 7, 9, 11}
      PROVE  S(V[i]) = TablesRead(V[i]) \union UNION {S(w) : w \in ViewsRead(V[i])}
  <2>1. S(V[i]) = TablesRead(V[i]) /\ ViewsRead(V[i]) = {}
    BY DEF ANALYTICAL_VIEWS, ViewsRead
  <2> HIDE DEF S, V
  <2> QED
    BY ONLY <2>1
<1>3. /\ S(V[3]) = {"register"} /\ S(V[4]) = {"store_activity_metrics"}
      /\ S(V[5]) = {"numeric_distribution"} /\ S(V[6]) = {"shelf_share"}
      /\ S(V[7]) = {"typologies"} /\ S(V[8]) = {"typologies", "assortments"}
      /\ S(V[10]) = {"numeric_distribution", "shelf_share", "typologies", "assortments"}
      /\ \A i \in {12, 13, 14, 15, 16, 17} : S(V[i]) = Observations \union {"assortments", "stores"}
  BY DEF ANALYTICAL_VIEWS, TablesRead
<1>4. /\ TablesRead(V[8]) = {"assortments"} /\ TablesRead(V[10]) = {"typologies"}
      /\ TablesRead(V[12]) = Observations \union {"assortments", "stores"}
      /\ \A i \in {13, 14, 15, 16, 17} : TablesRead(V[i]) = {}
  BY DEF ANALYTICAL_VIEWS, TablesRead
<1>5. /\ ViewsRead(V[8]) = {V[7]}
      /\ ViewsRead(V[10]) = {V[5], V[8], V[6]}
      /\ ViewsRead(V[12]) = {V[3], V[4], V[10], V[7]}
      /\ \A i \in {13, 14, 15, 16} : ViewsRead(V[i]) = {V[12]}
      /\ ViewsRead(V[17]) = {V[14]}
  BY DEF ANALYTICAL_VIEWS, ViewsRead
<1> HIDE DEF S, V
<1>6. S(V[8]) = TablesRead(V[8]) \union UNION {S(w) : w \in ViewsRead(V[8])}
  BY ONLY <1>3, <1>4, <1>5
<1>7. S(V[10]) = TablesRead(V[10]) \union UNION {S(w) : w \in ViewsRead(V[10])}
  BY ONLY <1>3, <1>4, <1>5
<1>8. S(V[12]) = TablesRead(V[12]) \union UNION {S(w) : w \in ViewsRead(V[12])}
  BY ONLY <1>3, <1>4, <1>5 DEF Observations
<1>9. ASSUME NEW i \in {13, 14, 15, 16}
      PROVE  S(V[i]) = TablesRead(V[i]) \union UNION {S(w) : w \in ViewsRead(V[i])}
  BY ONLY <1>3, <1>4, <1>5
<1>10. S(V[17]) = TablesRead(V[17]) \union UNION {S(w) : w \in ViewsRead(V[17])}
  BY ONLY <1>3, <1>4, <1>5
<1>11. \A i \in 1..17 : S(V[i]) = TablesRead(V[i]) \union UNION {S(w) : w \in ViewsRead(V[i])}
  BY ONLY <1>2, <1>6, <1>7, <1>8, <1>9, <1>10
<1> QED
  <2> SUFFICES ASSUME NEW i \in 1..17
               PROVE  Sources[V[i]] = TablesRead(V[i]) \union UNION {Sources[w] : w \in ViewsRead(V[i])}
    BY DEF V
  <2>1. {Sources[w] : w \in ViewsRead(V[i])} = {S(w) : w \in ViewsRead(V[i])}
    BY ONLY <1>1
  <2> QED
    BY ONLY <1>1, <1>11, <2>1

\* A view computed from the snapshot's rows, and from views that the snapshot makes,
\* is the one that the snapshot makes.
LEMMA ComputedExactly ==
    ASSUME NEW i \in 1..17, NEW tables, NEW seen,
           \A w \in ViewsRead(ANALYTICAL_VIEWS[i]) : seen[w] = Register!Contents(tables)[w]
    PROVE  Computed(ANALYTICAL_VIEWS[i], tables, seen)
              = Register!Contents(tables)[ANALYTICAL_VIEWS[i]]
<1> DEFINE v == ANALYTICAL_VIEWS[i]
           From(D) == {<<d, tables[d]>> : d \in D \intersect Dataset}
<1>1. v \in Views /\ ViewsRead(v) \subseteq Views
  BY ViewList, ReadsOlder
<1>2. \A w \in Views : Register!Contents(tables)[w] = [populated |-> TRUE, from |-> From(Sources[w])]
  BY DEF Register!Contents, Register!View, Sources
<1>3. Sources[v] = TablesRead(v) \union UNION {Sources[w] : w \in ViewsRead(v)}
  BY SourcesClosed
<1>4. Computed(v, tables, seen)
         = [populated |-> TRUE,
            from |-> From(TablesRead(v)) \union UNION {seen[w].from : w \in ViewsRead(v)}]
  BY DEF Computed
<1> HIDE DEF v
<1>5. \A w \in ViewsRead(v) : seen[w].from = From(Sources[w])
  <2>1. \A w \in ViewsRead(v) : seen[w] = Register!Contents(tables)[w]
    BY DEF v
  <2> HIDE DEF From
  <2> SUFFICES ASSUME NEW w \in ViewsRead(v)
               PROVE  seen[w].from = From(Sources[w])
    OBVIOUS
  <2>2. w \in Views
    BY ONLY <1>1
  <2>3. seen[w] = [populated |-> TRUE, from |-> From(Sources[w])]
    BY ONLY <1>2, <2>1, <2>2
  <2> QED
    BY ONLY <2>3
<1>6. UNION {seen[w].from : w \in ViewsRead(v)} = UNION {From(Sources[w]) : w \in ViewsRead(v)}
  BY ONLY <1>5
<1>7. From(Sources[v]) = From(TablesRead(v)) \union UNION {From(Sources[w]) : w \in ViewsRead(v)}
  BY ONLY <1>3
<1> HIDE DEF From
<1>8. Computed(v, tables, seen) = Register!Contents(tables)[v]
  BY ONLY <1>1, <1>2, <1>4, <1>6, <1>7
<1> QED
  BY <1>8 DEF v

\* Only a refresh of a view changes what a transaction has refreshed.
LEMMA ExactStep ==
    ASSUME IInv, ExactInv, [Next]_vars
    PROVE  ExactInv'
<1> DEFINE Busy == {"refreshing", "committing"}
           Exact(q) == \A i \in 1..17 : i < next[q] =>
                          draft[q][ANALYTICAL_VIEWS[i]]
                             = Register!Contents(snap[q].rows)[ANALYTICAL_VIEWS[i]]
<1>0. ExactInv <=> \A q \in Refresher : pc[q] \in Busy => Exact(q)
  BY ViewList DEF ExactInv, N
<1>1. ExactInv' <=> \A q \in Refresher : pc'[q] \in Busy => Exact(q)'
  BY ViewList DEF ExactInv, N
<1>2. ASSUME NEW q \in Refresher, next'[q] = next[q], draft'[q] = draft[q], snap'[q] = snap[q],
             pc'[q] \in Busy => pc[q] \in Busy
      PROVE  pc'[q] \in Busy => Exact(q)'
  <2>1. Exact(q)' <=> Exact(q)
    BY ONLY <1>2 DEF Register!Contents, Register!View
  <2> HIDE DEF Exact
  <2> QED
    BY <1>0, <1>2, <2>1
<1>3. ASSUME NEW q \in Refresher, RefreshView(q)
      PROVE  ExactInv'
  <2>1. /\ next[q] \in 1..17
        /\ draft'[q] = [draft[q] EXCEPT ![ANALYTICAL_VIEWS[next[q]]] =
                          Computed(ANALYTICAL_VIEWS[next[q]], snap[q].rows, draft[q])]
        /\ \A p \in Refresher \ {q} : draft'[p] = draft[p]
    BY <1>3, RefreshedDraft DEF IInv
  <2>2. /\ pc[q] \in Busy /\ pc' = pc /\ snap' = snap /\ next'[q] = next[q] + 1
        /\ \A p \in Refresher \ {q} : next'[p] = next[p]
        /\ draft[q] \in [Views -> View]
    BY <1>3 DEF RefreshView, IInv, TypeOK
  <2> DEFINE n == next[q]
             T == snap[q].rows
  <2>3. \A i \in 1..17 : i < n => draft[q][ANALYTICAL_VIEWS[i]] = Register!Contents(T)[ANALYTICAL_VIEWS[i]]
    BY <1>0, <2>2
  <2>4. \A w \in ViewsRead(ANALYTICAL_VIEWS[n]) : draft[q][w] = Register!Contents(T)[w]
    BY <2>1, <2>3, DependencyOrder
  <2>5. Computed(ANALYTICAL_VIEWS[n], T, draft[q]) = Register!Contents(T)[ANALYTICAL_VIEWS[n]]
    BY <2>1, <2>4, ComputedExactly
  <2>6. \A i \in 1..17 : ANALYTICAL_VIEWS[i] \in Views
    BY ViewList
  <2>7. \A i \in 1..17 : i < n + 1 =>
           draft'[q][ANALYTICAL_VIEWS[i]] = Register!Contents(T)[ANALYTICAL_VIEWS[i]]
    <3> SUFFICES ASSUME NEW i \in 1..17, i < n + 1
                 PROVE  draft'[q][ANALYTICAL_VIEWS[i]] = Register!Contents(T)[ANALYTICAL_VIEWS[i]]
      OBVIOUS
    <3>1. i < n \/ i = n
      BY <2>1
    <3>2. draft'[q][ANALYTICAL_VIEWS[i]] =
             IF ANALYTICAL_VIEWS[i] = ANALYTICAL_VIEWS[n]
             THEN Computed(ANALYTICAL_VIEWS[n], T, draft[q])
             ELSE draft[q][ANALYTICAL_VIEWS[i]]
      BY <2>1, <2>2, <2>6
    <3> HIDE DEF n, T
    <3> QED
      BY ONLY <2>3, <2>5, <3>1, <3>2
  <2>8. Exact(q)'
    <3>1. snap'[q].rows = T /\ next'[q] = n + 1
      BY <2>2
    <3> HIDE DEF T, n
    <3>2. \A i \in 1..17 : i < next'[q] =>
             draft'[q][ANALYTICAL_VIEWS[i]] = Register!Contents(snap'[q].rows)[ANALYTICAL_VIEWS[i]]
      BY ONLY <2>7, <3>1
    <3> QED
      BY ONLY <3>2 DEF Register!Contents, Register!View
  <2> HIDE DEF Exact
  <2>9. ASSUME NEW p \in Refresher, pc'[p] \in Busy
        PROVE  Exact(p)'
    <3>1. CASE p = q
      BY <2>8, <3>1
    <3>2. CASE p # q
      BY <1>2, <2>1, <2>2, <2>9, <3>2
    <3> QED
      BY <3>1, <3>2
  <2> QED
    BY <1>1, <2>9
\* Every other step leaves the transaction of a process as it is, begins it, or ends it.
<1>4. ASSUME \A q \in Refresher :
                \/ /\ next'[q] = next[q] /\ draft'[q] = draft[q] /\ snap'[q] = snap[q]
                   /\ pc'[q] \in Busy => pc[q] \in Busy
                \/ pc'[q] \notin Busy \/ next'[q] = 1
      PROVE  ExactInv'
  <2> SUFFICES ASSUME NEW q \in Refresher, pc'[q] \in Busy
               PROVE  Exact(q)'
    BY <1>1
  <2>1. CASE next'[q] = 1
    BY <2>1
  <2>2. CASE next'[q] # 1
    <3> HIDE DEF Exact, Busy
    <3> QED
      BY <1>2, <1>4, <2>2
  <2> QED
    BY <2>1, <2>2
<1> HIDE DEF Exact
<1>5. CASE UNCHANGED <<pc, snap, draft, next>>
  BY <1>4, <1>5
<1>6. ASSUME NEW q \in Refresher,
             Capture(q) \/ Stamp(q) \/ Fail(q) \/ Commit(q) \/ CommitUnacknowledged(q) \/ Crash(q)
             \/ TryLock(q) \/ Record(q) \/ FailUnrecorded(q) \/ MarkFailed(q) \/ Unlock(q)
      PROVE  ExactInv'
  <2>1. /\ pc \in [Refresher -> Stages] /\ next \in [Refresher -> Nat]
        /\ draft \in [Refresher -> [Views -> View]]
        /\ snap \in [Refresher -> [rows : [Dataset -> SUBSET Run], ids : SUBSET Run,
                                   basis : SUBSET Run]]
    BY DEF IInv, TypeOK, Stages
  <2>2. \A p \in Refresher \ {q} :
           next'[p] = next[p] /\ draft'[p] = draft[p] /\ snap'[p] = snap[p] /\ pc'[p] = pc[p]
    BY ONLY <1>6, <2>1
    DEF Capture, Stamp, Fail, Commit, CommitUnacknowledged, Crash, TryLock, Record,
        FailUnrecorded, MarkFailed, Unlock, DropWork, Goto
  <2>3. \/ /\ next'[q] = next[q] /\ draft'[q] = draft[q] /\ snap'[q] = snap[q]
           /\ pc'[q] \in Busy => pc[q] \in Busy
        \/ pc'[q] \notin Busy \/ next'[q] = 1
    BY ONLY <1>6, <2>1
    DEF Capture, Stamp, Fail, Commit, CommitUnacknowledged, Crash, TryLock, Record,
        FailUnrecorded, MarkFailed, Unlock, Goto
  <2> QED
    BY <1>4, <2>2, <2>3
<1> QED
  BY <1>3, <1>5, <1>6
  DEF Next, Import, SetClockBack, FirstPage, NextPage, StopReading, Proceed, Disturb,
      process, vars

\* The exact views hold of every behaviour.
LEMMA ExactAlways == Spec => []ExactInv
<1>1. Init => ExactInv
  BY DEF Init, ExactInv
<1>2. IInv /\ ExactInv /\ [Next]_vars => ExactInv'
  BY ExactStep
<1> QED
  BY <1>1, <1>2, Invariance, PTL DEF Spec

Transacting == {"refreshing", "committing"}

\* The lock lets one refresh at a time have a snapshot.
LEMMA OneTaken ==
    ASSUME IInv, NEW q \in Refresher, pc[q] \in Transacting \union {"capturing"}
    PROVE  \A p \in Refresher : pc[p] \in Transacting => p = q
BY DEF IInv, ProcessInv, Transacting

\* The snapshots are those of the refreshes in their transactions.
LEMMA TakenIs ==
    /\ Taken = {[rows |-> snap[q].rows, ids |-> snap[q].ids] :
                   q \in {p \in Refresher : pc[p] \in Transacting}}
    /\ Taken' = {[rows |-> snap'[q].rows, ids |-> snap'[q].ids] :
                    q \in {p \in Refresher : pc'[p] \in Transacting}}
BY DEF Taken, Transacting

\* A step of one refresh keeps its snapshot, or gives it up.
LEMMA KeepsTaken ==
    ASSUME IInv, NEW q \in Refresher,
           \A p \in Refresher \ {q} : pc'[p] = pc[p] /\ snap'[p] = snap[p],
           \/ pc'[q] \notin Transacting
           \/ pc[q] \in Transacting /\ snap'[q] = snap[q]
    PROVE  Taken' = Taken \/ Taken' = {}
<1> DEFINE In == {p \in Refresher : pc[p] \in Transacting}
           After == {p \in Refresher : pc'[p] \in Transacting}
           S(p) == [rows |-> snap[p].rows, ids |-> snap[p].ids]
           Z(p) == [rows |-> snap'[p].rows, ids |-> snap'[p].ids]
<1>1. Taken = {S(p) : p \in In} /\ Taken' = {Z(p) : p \in After}
  BY TakenIs
<1>2. CASE pc'[q] \in Transacting
  <2>1. After = In /\ \A p \in In : snap'[p] = snap[p]
    BY <1>2
  <2>2. {Z(p) : p \in After} = {S(p) : p \in In}
    BY ONLY <2>1
  <2> QED
    BY <1>1, <2>2
<1>3. CASE pc'[q] \notin Transacting /\ pc[q] \in Transacting
  <2>1. After = {}
    BY <1>3, OneTaken
  <2> QED
    BY <1>1, <2>1
<1>4. CASE pc'[q] \notin Transacting /\ pc[q] \notin Transacting
  <2>1. After = In /\ \A p \in In : snap'[p] = snap[p]
    BY <1>4
  <2>2. {Z(p) : p \in After} = {S(p) : p \in In}
    BY ONLY <2>1
  <2> QED
    BY <1>1, <2>2
<1> QED
  BY <1>2, <1>3, <1>4

\* What is listed changes only with the attempt whose results are shown.
LEMMA KeepsListed ==
    ASSUME TypeOK, shown' = shown, \A a \in Attempt : audit'[a].ids = audit[a].ids
    PROVE  Listed' = Listed
BY DEF Listed, TypeOK

\* A status says nothing of the imports of an attempt.
LEMMA StatusKeepsIds ==
    ASSUME TypeOK, NEW a \in Attempt, NEW st \in {"running", "succeeded", "failed"},
           audit' = [audit EXCEPT ![a].status = st]
    PROVE  \A b \in Attempt : audit'[b].ids = audit[b].ids
<1>1. /\ audit'[a] = [status |-> st, at |-> audit[a].at, ids |-> audit[a].ids]
      /\ \A b \in Attempt \ {a} : audit'[b] = audit[b]
  BY StatusOnly DEF TypeOK
<1>2. audit'[a].ids = audit[a].ids
  BY ONLY <1>1
<1> QED
  BY ONLY <1>1, <1>2

\* So a step that neither takes a snapshot nor publishes gives one up, or is none.
LEMMA QuietImplements ==
    ASSUME TypeOK, UNCHANGED <<ledger, views, shown>>, Taken' = Taken \/ Taken' = {},
           \A a \in Attempt : audit'[a].ids = audit[a].ids
    PROVE  Register!Abandon \/ UNCHANGED Register!registerVars
<1>1. UNCHANGED <<rows, succeeded, published, views, Listed>>
  BY KeepsListed DEF ledger
<1>2. CASE Taken # {} /\ Taken' = {}
  BY <1>1, <1>2 DEF Register!Abandon
<1>3. CASE ~(Taken # {} /\ Taken' = {})
  <2>1. Taken' = Taken
    BY <1>3
  <2> QED
    BY <1>1, <2>1 DEF Register!registerVars
<1> QED
  BY <1>2, <1>3

\* The snapshot is taken when there is none.
LEMMA CaptureImplements ==
    ASSUME IInv, NEW q \in Refresher, Capture(q)
    PROVE  Register!Take
<1>1. /\ pc[q] = "capturing" /\ pc'[q] = "refreshing"
      /\ \A p \in Refresher \ {q} : pc'[p] = pc[p]
      /\ snap'[q] = [rows |-> rows, ids |-> SucceededIds, basis |-> published]
      /\ UNCHANGED <<rows, succeeded, published, views, shown, audit>>
  BY DEF Capture, Goto, IInv, TypeOK, ledger, history
<1>2. {p \in Refresher : pc[p] \in Transacting} = {}
  BY <1>1, OneTaken DEF Transacting
<1>3. {p \in Refresher : pc'[p] \in Transacting} = {q}
  BY <1>1, <1>2 DEF Transacting
<1>4. Taken = {}
  BY <1>2, TakenIs
<1>5. Taken' = {[rows |-> rows, ids |-> {s.run : s \in succeeded}]}
  <2>1. Taken' = {[rows |-> snap'[p].rows, ids |-> snap'[p].ids] : p \in {q}}
    BY ONLY <1>3, TakenIs
  <2>2. Taken' = {[rows |-> rows, ids |-> SucceededIds]}
    BY ONLY <1>1, <2>1
  <2> QED
    BY ONLY <2>2 DEF SucceededIds
<1>6. Listed' = Listed
  BY <1>1 DEF Listed
<1> QED
  BY <1>1, <1>4, <1>5, <1>6 DEF Register!Take

\* A commit publishes what the snapshot makes, and the list that was taken with it.
LEMMA PublishImplements ==
    ASSUME IInv, ExactInv, NEW q \in Refresher, Publish(q), UNCHANGED ledger,
           pc'[q] \notin Transacting, \A p \in Refresher \ {q} : pc'[p] = pc[p]
    PROVE  Register!Publish
<1> DEFINE s == [rows |-> snap[q].rows, ids |-> snap[q].ids]
<1>1. pc[q] = "committing" /\ own[q] \in Attempt /\ own[q] # None
  BY RefreshConstants DEF Publish, IInv, TypeOK, ProcessInv
<1>2. s \in Taken
  BY <1>1, TakenIs DEF Transacting
<1>3. Taken' = {}
  <2>1. {p \in Refresher : pc'[p] \in Transacting} = {}
    BY <1>1, OneTaken DEF Transacting
  <2> QED
    BY <2>1, TakenIs
<1>4. views' = Register!Contents(s.rows)
  <2>1. next[q] \in Nat /\ next[q] > N
    BY <1>1 DEF IInv, TypeOK, DraftInv, N
  <2>2. \A i \in 1..17 : draft[q][ANALYTICAL_VIEWS[i]] = Register!Contents(s.rows)[ANALYTICAL_VIEWS[i]]
    BY <1>1, <2>1, ViewList DEF ExactInv, N
  <2>3. \A v \in Views : draft[q][v] = Register!Contents(s.rows)[v]
    BY ONLY <2>2, ViewList
  <2>4. draft[q] \in [Views -> View] /\ views' = draft[q]
    BY DEF IInv, TypeOK, Publish
  <2>5. Register!Contents(s.rows) = [v \in Views |-> Register!Contents(s.rows)[v]]
    BY DEF Register!Contents, Register!View, Sources
  <2> HIDE DEF s
  <2>6. draft[q] = [v \in Views |-> draft[q][v]]
    BY ONLY <2>4
  <2> QED
    BY ONLY <2>3, <2>4, <2>5, <2>6
<1>5. Listed' = s.ids
  <2>1. shown' = own[q] /\ audit'[own[q]].ids = snap[q].ids
    BY <1>1 DEF Publish, IInv, TypeOK
  <2> QED
    BY <1>1, <2>1 DEF Listed
<1> HIDE DEF s
<1>6. UNCHANGED <<rows, succeeded, published>>
  BY DEF ledger
<1> QED
  BY ONLY <1>2, <1>3, <1>4, <1>5, <1>6 DEF Register!Publish

\* The remaining steps of a refresh keep the views and what is listed with them.
LEMMA RefresherImplements ==
    ASSUME IInv, NEW q \in Refresher,
           \/ TryLock(q) \/ Record(q) \/ RefreshView(q) \/ Stamp(q) \/ Fail(q)
           \/ FailUnrecorded(q) \/ MarkFailed(q) \/ Unlock(q) \/ Crash(q)
    PROVE  Register!Abandon \/ UNCHANGED Register!registerVars
<1>1. /\ pc \in [Refresher -> Stages] /\ audit \in [Attempt -> AuditRow]
      /\ snap \in [Refresher -> [rows : [Dataset -> SUBSET Run], ids : SUBSET Run,
                                 basis : SUBSET Run]]
      /\ TypeOK
  BY DEF IInv, TypeOK, Stages
<1>2. UNCHANGED <<ledger, views, shown>>
  BY DEF TryLock, Record, RefreshView, Stamp, Fail, FailUnrecorded, MarkFailed, Unlock, Crash, history
<1>3. \A p \in Refresher \ {q} : pc'[p] = pc[p] /\ snap'[p] = snap[p]
  BY <1>1
  DEF TryLock, Record, RefreshView, Stamp, Fail, FailUnrecorded, MarkFailed, Unlock, Crash,
      DropWork, Goto
<1>4. \/ pc'[q] \notin Transacting
      \/ pc[q] \in Transacting /\ snap'[q] = snap[q]
  BY <1>1
  DEF TryLock, Record, RefreshView, Stamp, Fail, FailUnrecorded, MarkFailed, Unlock, Crash,
      Goto, Transacting
<1>5. \A a \in Attempt : audit'[a].ids = audit[a].ids
  <2>1. CASE Record(q)
    <3>1. PICK a \in Attempt : audit' = [audit EXCEPT ![a].status = "running"]
      BY <2>1 DEF Record
    <3> QED
      BY <1>1, <3>1, StatusKeepsIds
  <2>2. CASE MarkFailed(q)
    <3>1. own[q] \in Attempt
      BY <2>2 DEF MarkFailed, IInv, TypeOK, ProcessInv
    <3>2. audit' = [audit EXCEPT ![own[q]].status = "failed"]
      BY <2>2 DEF MarkFailed
    <3> QED
      BY <1>1, <3>1, <3>2, StatusKeepsIds
  <2>3. CASE audit' = audit
    BY <2>3
  <2> QED
    BY <2>1, <2>2, <2>3 DEF TryLock, RefreshView, Stamp, Fail, FailUnrecorded, Unlock, Crash
<1>6. Taken' = Taken \/ Taken' = {}
  BY <1>3, <1>4, KeepsTaken
<1> QED
  BY ONLY <1>1, <1>2, <1>5, <1>6, QuietImplements

\* Every step of the refreshes and of what surrounds them is one of the register's.
LEMMA StepImplements ==
    ASSUME IInv, ExactInv, [Next]_vars
    PROVE  Register!Next \/ UNCHANGED Register!registerVars
<1>1. CASE Import
  <2>1. UNCHANGED <<Taken, views, Listed>>
    BY <1>1 DEF Import, process, history, Taken, Listed
  <2>2. Register!Ledger!Next
    BY <1>1 DEF Import, Register!Ledger!Next, Ledger!Accept, Ledger!Disown,
                Register!Ledger!Accept, Register!Ledger!Disown
  <2> QED
    BY <2>1, <2>2 DEF Register!Next, Register!Import
<1>2. CASE UNCHANGED <<ledger, views, audit, process, history>>
  BY <1>2 DEF ledger, process, history, Taken, Listed, Register!registerVars
<1>3. ASSUME NEW q \in Refresher, Capture(q)
      PROVE  Register!Next
  BY <1>3, CaptureImplements DEF Register!Next
<1>4. ASSUME NEW q \in Refresher, Commit(q) \/ CommitUnacknowledged(q)
      PROVE  Register!Next
  <2>1. pc \in [Refresher -> Stages]
    BY DEF IInv, TypeOK, Stages
  <2>2. /\ Publish(q) /\ UNCHANGED ledger /\ pc'[q] \notin Transacting
        /\ \A p \in Refresher \ {q} : pc'[p] = pc[p]
    BY <1>4, <2>1 DEF Commit, CommitUnacknowledged, Goto, Transacting
  <2> QED
    BY <2>2, PublishImplements DEF Register!Next
<1>5. ASSUME NEW q \in Refresher,
             \/ TryLock(q) \/ Record(q) \/ RefreshView(q) \/ Stamp(q) \/ Fail(q)
             \/ FailUnrecorded(q) \/ MarkFailed(q) \/ Unlock(q) \/ Crash(q)
      PROVE  Register!Next \/ UNCHANGED Register!registerVars
  BY <1>5, RefresherImplements DEF Register!Next
<1> QED
  BY <1>1, <1>2, <1>3, <1>4, <1>5
  DEF Next, Proceed, Disturb, SetClockBack, FirstPage, NextPage, StopReading, vars

\* Whatever the refreshes and the faults around them do, the views hold one snapshot
\* of the imports, taken while no other refresh had one and replaced in one step
\* together with the list that is published for it (refresh_analytics: the advisory
\* lock and the repeatable-read transaction around all the views and the audit row).
THEOREM RegisterImplemented == Spec => ImplementsRegister
<1>1. Init => Register!Init
  <2> SUFFICES ASSUME Init PROVE Register!Init
    OBVIOUS
  <2>1. Taken = {} /\ Listed = {}
    BY DEF Init, Taken, Listed
  <2>2. views = [v \in Register!View |-> [populated |-> FALSE, from |-> {}]]
    BY DEF Init, Unpopulated, Register!View, Sources
  <2>3. Register!Ledger!Init
    BY DEF Init, Ledger!Init, Register!Ledger!Init
  <2> QED
    BY <2>1, <2>2, <2>3 DEF Register!Init
<1>2. IInv /\ ExactInv /\ [Next]_vars => [Register!Next]_(Register!registerVars)
  BY StepImplements
<1> QED
  BY <1>1, <1>2, Invariance, ExactAlways, PTL DEF Spec, ImplementsRegister, Register!Spec
=============================================================================
