-------------------------- MODULE AnalyticsRefresh --------------------------
(***************************************************************************)
(* The publication of the analytical snapshot: analytics.refresh_analytics, *)
(* run by any number of command line processes, the freshness it allows     *)
(* analytics_status to report, and the HTTP readers that collect the pages   *)
(* of one publication (api/analysis.publication).                           *)
(*                                                                         *)
(* A refresh takes a session-level advisory lock or gives up, commits a      *)
(* running audit row, then rebuilds the seventeen materialized views, in     *)
(* dependency order, in one repeatable-read transaction whose first query    *)
(* records the set of successful imports.  A failure rolls back and marks    *)
(* the attempt failed in another transaction.                               *)
(*                                                                         *)
(* The importers appear as the ledger they implement (see ImportRuns): one   *)
(* atomic step replaces the rows of a dataset.                              *)
(***************************************************************************)
EXTENDS Naturals, Sequences

CONSTANTS
    Dataset, Bundle, Run,   \* as in ImportLedger
    Refresher,    \* concurrent refresh commands
    Attempt,      \* identities of audit rows, totally ordered; bounds a model
    Client,       \* readers that collect pages
    None,         \* no value
    AcksLost,     \* may the answer to a COMMIT be lost?
    ClockSteps    \* may the wall clock be set back?

ASSUME RefreshConstants ==
    /\ Attempt \subseteq Nat
    /\ None \notin Attempt \union Refresher
    /\ AcksLost \in BOOLEAN
    /\ ClockSteps \in BOOLEAN

-----------------------------------------------------------------------------
(* The materialized views, and what the stored query of each one reads.     *)

ANALYTICAL_VIEWS ==
    <<"store_scope", "store_dataset_month", "register_product_month",
      "activity_month", "distribution_product_month", "shelf_category_month",
      "typology_month", "assortment_candidates", "retailer_assortment_month",
      "store_category_month", "monthly_link_quality", "store_month",
      "store_month_changes", "network_month", "network_year",
      "network_overview", "network_month_changes">>

Views == {ANALYTICAL_VIEWS[i] : i \in 1..Len(ANALYTICAL_VIEWS)}

Observations ==
    {"register", "store_activity_metrics", "numeric_distribution",
     "shelf_share", "typologies"}

\* The datasets whose tables the query of a view reads itself.
TablesRead(v) ==
    CASE v = "store_scope"                -> {"stores"}
      [] v = "register_product_month"     -> {"register"}
      [] v = "activity_month"             -> {"store_activity_metrics"}
      [] v = "distribution_product_month" -> {"numeric_distribution"}
      [] v = "shelf_category_month"       -> {"shelf_share"}
      [] v = "typology_month"             -> {"typologies"}
      [] v = "assortment_candidates"      -> {"assortments"}
      [] v = "retailer_assortment_month"  -> {"typologies", "assortments"}
      [] v = "store_category_month"       -> {"typologies"}
      [] v \in {"store_dataset_month", "monthly_link_quality"} -> Observations
      [] v = "store_month"                -> Observations \union {"assortments", "stores"}
      [] OTHER                            -> {}

\* The views it reads, which must have been refreshed before it.
ViewsRead(v) ==
    CASE v = "assortment_candidates" -> {"typology_month"}
      [] v = "store_category_month"  -> {"distribution_product_month",
                                         "assortment_candidates",
                                         "shelf_category_month"}
      [] v = "store_month"           -> {"register_product_month", "activity_month",
                                         "store_category_month", "typology_month"}
      [] v \in {"store_month_changes", "network_month", "network_year",
                "network_overview"}  -> {"store_month"}
      [] v = "network_month_changes" -> {"network_month"}
      [] OTHER                       -> {}

\* The datasets that a view is made from, whether it reads them or a view does
\* that it reads.
Sources ==
    [v \in Views |->
        CASE v = "assortment_candidates" -> {"typologies", "assortments"}
          [] v = "store_category_month"  -> {"numeric_distribution", "shelf_share",
                                             "typologies", "assortments"}
          [] v \in {"store_month", "store_month_changes", "network_month",
                    "network_year", "network_overview", "network_month_changes"} ->
                Observations \union {"assortments", "stores"}
          [] OTHER -> TablesRead(v)]

-----------------------------------------------------------------------------
VARIABLES
    rows, succeeded, published,  \* the ledger of the importers
    views,     \* views[v]: the materialized view v
    audit,     \* the table analytics_refresh_runs
    lock,      \* who holds pg_advisory_lock(retail_analytics_refresh)
    clock,     \* the wall clock of the refreshing hosts
    pc, own,   \* per refresher: where it is, its audit row,
    snap,      \*   the rows and the successful runs its snapshot shows,
    draft,     \*   the views as its transaction sees them,
    next,      \*   the view it refreshes next,
    stamp,     \*   completed_at, not committed yet
    page,      \* per reader: the publication_id it asks for,
    got,       \*   history: the attempts whose results it was served
    shown,     \* history: the attempt whose results the views hold
    basis,     \* history: the runs published before an attempt's snapshot
    unacked    \* history: attempts that committed without knowing

ledger   == <<rows, succeeded, published>>
process  == <<pc, own, snap, draft, next, stamp>>
reader   == <<page, got>>
history  == <<shown, basis, unacked>>
vars     == <<ledger, views, audit, lock, clock, process, reader, history>>

Ledger == INSTANCE ImportLedger

\* A view, and what it was computed from: which rows of which dataset.
View == [populated : BOOLEAN, from : SUBSET (Dataset \X SUBSET Run)]

AuditRow == [status : {"absent", "running", "succeeded", "failed"},
             at : Nat, ids : SUBSET Run]

NoAttempt == [status |-> "absent", at |-> 0, ids |-> {}]
NoSnapshot == [rows |-> [d \in Dataset |-> {}], ids |-> {}, basis |-> {}]
Unpopulated == [v \in Views |-> [populated |-> FALSE, from |-> {}]]

TypeOK ==
    /\ Ledger!LedgerTypeOK
    /\ views \in [Views -> View]
    /\ audit \in [Attempt -> AuditRow]
    /\ lock \in Refresher \union {None}
    /\ clock \in Nat
    /\ pc \in [Refresher -> {"idle", "recording", "capturing", "refreshing",
                             "committing", "failing", "unlocking"}]
    /\ own \in [Refresher -> Attempt \union {None}]
    /\ snap \in [Refresher -> [rows : [Dataset -> SUBSET Run],
                               ids : SUBSET Run, basis : SUBSET Run]]
    /\ draft \in [Refresher -> [Views -> View]]
    /\ next \in [Refresher -> Nat]
    /\ stamp \in [Refresher -> Nat]
    /\ page \in [Client -> Attempt \union {None}]
    /\ got \in [Client -> SUBSET (Attempt \union {None})]
    /\ shown \in Attempt \union {None}
    /\ basis \in [Attempt -> SUBSET Run]
    /\ unacked \subseteq Attempt

Init ==
    /\ Ledger!Init
    /\ views = Unpopulated
    /\ audit = [a \in Attempt |-> NoAttempt]
    /\ lock = None
    /\ clock = 0
    /\ pc = [q \in Refresher |-> "idle"]
    /\ own = [q \in Refresher |-> None]
    /\ snap = [q \in Refresher |-> NoSnapshot]
    /\ draft = [q \in Refresher |-> Unpopulated]
    /\ next = [q \in Refresher |-> 0]
    /\ stamp = [q \in Refresher |-> 0]
    /\ page = [c \in Client |-> None]
    /\ got = [c \in Client |-> {}]
    /\ shown = None
    /\ basis = [a \in Attempt |-> {}]
    /\ unacked = {}

-----------------------------------------------------------------------------
(* Reading the audit table.                                                 *)

SucceededIds == {s.run : s \in succeeded}

SuccessfulAttempts == {a \in Attempt : audit[a].status = "succeeded"}

\* ORDER BY completed_at DESC, id LIMIT 1.
IsLatest(a) ==
    /\ a \in SuccessfulAttempts
    /\ \A b \in SuccessfulAttempts \ {a} :
        \/ audit[b].at < audit[a].at
        \/ audit[b].at = audit[a].at /\ a < b

Initialized == SuccessfulAttempts # {} /\ \A v \in Views : views[v].populated

\* The state that analytics_status and the API report.
Current ==
    /\ Initialized
    /\ \E a \in Attempt : IsLatest(a) /\ audit[a].ids = SucceededIds

-----------------------------------------------------------------------------
(* The environment of a refresh.                                            *)

Import ==
    /\ \/ \E r \in Run, d \in Dataset, b \in Bundle : Ledger!Accept(r, d, b)
       \/ AcksLost /\ \E s \in succeeded : Ledger!Disown(s)
    /\ UNCHANGED <<views, audit, lock, clock, process, reader, history>>

SetClockBack ==
    /\ ClockSteps
    /\ clock > 0
    /\ clock' = 0
    /\ UNCHANGED <<ledger, views, audit, lock, process, reader, history>>

-----------------------------------------------------------------------------
(* One refresh.                                                             *)

Goto(q, stage) == pc' = [pc EXCEPT ![q] = stage]

\* The transaction is over, one way or the other.
DropWork(q) ==
    /\ snap' = [snap EXCEPT ![q] = NoSnapshot]
    /\ draft' = [draft EXCEPT ![q] = Unpopulated]
    /\ next' = [next EXCEPT ![q] = 0]
    /\ stamp' = [stamp EXCEPT ![q] = 0]

Disconnect(q) == lock' = IF lock = q THEN None ELSE lock

\* Fault: a refresh that does not get the lock goes on.
TryLockInVain(q) ==
    /\ pc[q] = "idle"
    /\ \E a \in Attempt : audit[a] = NoAttempt
    /\ lock' = IF lock = None THEN q ELSE lock
    /\ Goto(q, "recording")
    /\ UNCHANGED <<ledger, views, audit, clock, own, snap, draft, next, stamp, reader, history>>

\* pg_try_advisory_lock.  A refresh that does not get the lock gives up, which
\* changes nothing.  The bound: no refresh starts without a free attempt.
TryLock(q) ==
    /\ pc[q] = "idle"
    /\ \E a \in Attempt : audit[a] = NoAttempt
    /\ lock = None
    /\ lock' = q
    /\ Goto(q, "recording")
    /\ UNCHANGED <<ledger, views, audit, clock, own, snap, draft, next, stamp, reader, history>>

\* Commit the running audit row.
Record(q) ==
    /\ pc[q] = "recording"
    /\ \E a \in Attempt :
        /\ audit[a] = NoAttempt
        /\ audit' = [audit EXCEPT ![a].status = "running"]
        /\ own' = [own EXCEPT ![q] = a]
    /\ Goto(q, "capturing")
    /\ UNCHANGED <<ledger, views, lock, clock, snap, draft, next, stamp, reader, history>>

\* The first query of the transaction fixes its snapshot.
Capture(q) ==
    /\ pc[q] = "capturing"
    /\ snap' = [snap EXCEPT ![q] =
                  [rows |-> rows, ids |-> SucceededIds, basis |-> published]]
    /\ draft' = [draft EXCEPT ![q] = views]
    /\ next' = [next EXCEPT ![q] = 1]
    /\ Goto(q, "refreshing")
    /\ UNCHANGED <<ledger, views, audit, lock, clock, own, stamp, reader, history>>

\* A view computed from these tables and these views.
Computed(v, tables, seen) ==
    [populated |-> TRUE,
     from |-> {<<d, tables[d]>> : d \in TablesRead(v) \intersect Dataset}
                \union UNION {seen[w].from : w \in ViewsRead(v)}]

\* Fault: read committed isolation.
RefreshViewLatest(q) ==
    /\ pc[q] = "refreshing"
    /\ next[q] <= Len(ANALYTICAL_VIEWS)
    /\ LET v == ANALYTICAL_VIEWS[next[q]] IN
        /\ \A w \in ViewsRead(v) : draft[q][w].populated
        /\ draft' = [draft EXCEPT ![q][v] = Computed(v, rows, draft[q])]
    /\ next' = [next EXCEPT ![q] = @ + 1]
    /\ UNCHANGED <<ledger, views, audit, lock, clock, pc, own, snap, stamp, reader, history>>

\* REFRESH MATERIALIZED VIEW of the next view; PostgreSQL refuses to read a
\* view that is not populated.
RefreshView(q) ==
    /\ pc[q] = "refreshing"
    /\ next[q] <= Len(ANALYTICAL_VIEWS)
    /\ LET v == ANALYTICAL_VIEWS[next[q]] IN
        /\ \A w \in ViewsRead(v) : draft[q][w].populated
        /\ draft' = [draft EXCEPT ![q][v] = Computed(v, snap[q].rows, draft[q])]
    /\ next' = [next EXCEPT ![q] = @ + 1]
    /\ UNCHANGED <<ledger, views, audit, lock, clock, pc, own, snap, stamp, reader, history>>

\* The success and its time are written, not yet committed.
Stamp(q) ==
    /\ pc[q] = "refreshing"
    /\ next[q] > Len(ANALYTICAL_VIEWS)
    /\ clock' = clock + 1
    /\ stamp' = [stamp EXCEPT ![q] = clock']
    /\ Goto(q, "committing")
    /\ UNCHANGED <<ledger, views, audit, lock, own, snap, draft, next, reader, history>>

\* Fault: the imports are listed after the views were computed.
PublishListingLate(q) ==
    /\ pc[q] = "committing"
    /\ views' = draft[q]
    /\ audit' = [audit EXCEPT ![own[q]] =
                   [status |-> "succeeded", at |-> stamp[q], ids |-> SucceededIds]]
    /\ shown' = own[q]
    /\ basis' = [basis EXCEPT ![own[q]] = snap[q].basis]

\* All the views and the successful audit row become visible together.
Publish(q) ==
    /\ pc[q] = "committing"
    /\ views' = draft[q]
    /\ audit' = [audit EXCEPT ![own[q]] =
                   [status |-> "succeeded", at |-> stamp[q], ids |-> snap[q].ids]]
    /\ shown' = own[q]
    /\ basis' = [basis EXCEPT ![own[q]] = snap[q].basis]

Commit(q) ==
    /\ Publish(q)
    /\ Goto(q, "unlocking")
    /\ DropWork(q)
    /\ UNCHANGED <<ledger, lock, clock, own, reader, unacked>>

\* The connection fails between the commit and its answer.
CommitUnacknowledged(q) ==
    /\ AcksLost
    /\ Publish(q)
    /\ unacked' = unacked \union {own[q]}
    /\ Disconnect(q)
    /\ Goto(q, "failing")
    /\ DropWork(q)
    /\ UNCHANGED <<ledger, clock, own, reader>>

\* An error or an interruption rolls back.  The session, and with it the lock,
\* survives it or not; the connection is opened again to mark the failure.
Fail(q) ==
    /\ pc[q] \in {"capturing", "refreshing", "committing"}
    /\ lock' \in {lock, None}
    /\ Goto(q, "failing")
    /\ DropWork(q)
    /\ UNCHANGED <<ledger, views, audit, clock, own, reader, history>>

\* The audit row could not be written: there is nothing to mark.
FailUnrecorded(q) ==
    /\ pc[q] = "recording"
    /\ Goto(q, "unlocking")
    /\ UNCHANGED <<ledger, views, audit, lock, clock, own, snap, draft, next, stamp, reader, history>>

MarkFailed(q) ==
    /\ pc[q] = "failing"
    /\ audit' = [audit EXCEPT ![own[q]].status = "failed"]
    /\ Goto(q, "unlocking")
    /\ UNCHANGED <<ledger, views, lock, clock, own, snap, draft, next, stamp, reader, history>>

\* Fault: the lock outlives the command, as in a pooled session.
LeaveLocked(q) ==
    /\ pc[q] = "unlocking"
    /\ Goto(q, "idle")
    /\ own' = [own EXCEPT ![q] = None]
    /\ UNCHANGED <<ledger, views, audit, lock, clock, snap, draft, next, stamp, reader, history>>

\* pg_advisory_unlock, which only warns when this session has no lock.
Unlock(q) ==
    /\ pc[q] = "unlocking"
    /\ Disconnect(q)
    /\ Goto(q, "idle")
    /\ own' = [own EXCEPT ![q] = None]
    /\ UNCHANGED <<ledger, views, audit, clock, snap, draft, next, stamp, reader, history>>

\* Process termination that bypasses the clean-up.
Crash(q) ==
    /\ pc[q] # "idle"
    /\ Disconnect(q)
    /\ Goto(q, "idle")
    /\ own' = [own EXCEPT ![q] = None]
    /\ DropWork(q)
    /\ UNCHANGED <<ledger, views, audit, clock, reader, history>>

-----------------------------------------------------------------------------
(* A reader collects the pages of one publication.  Each request resolves    *)
(* the publication and reads the views in one repeatable-read transaction.  *)

FirstPage(c) ==
    /\ page[c] = None
    /\ Initialized
    /\ \E a \in Attempt : IsLatest(a) /\ page' = [page EXCEPT ![c] = a]
    /\ got' = [got EXCEPT ![c] = {shown}]
    /\ UNCHANGED <<ledger, views, audit, lock, clock, process, history>>

\* Fault: the precondition is checked against the audit row, not the latest.
NextPageUnchecked(c) ==
    /\ page[c] # None
    /\ got' = [got EXCEPT ![c] = @ \union {shown}]
    /\ UNCHANGED <<ledger, views, audit, lock, clock, process, page, history>>

NextPage(c) ==
    /\ page[c] # None
    /\ Initialized
    /\ IsLatest(page[c])
    /\ got' = [got EXCEPT ![c] = @ \union {shown}]
    /\ UNCHANGED <<ledger, views, audit, lock, clock, process, page, history>>

\* 409 publication_changed, or the collection is complete: start again.
StopReading(c) ==
    /\ page[c] # None
    /\ page' = [page EXCEPT ![c] = None]
    /\ got' = [got EXCEPT ![c] = {}]
    /\ UNCHANGED <<ledger, views, audit, lock, clock, process, history>>

-----------------------------------------------------------------------------
Proceed(q) ==
    \/ Record(q) \/ Capture(q) \/ RefreshView(q) \/ Stamp(q) \/ Commit(q)
    \/ MarkFailed(q) \/ Unlock(q)

Disturb(q) == CommitUnacknowledged(q) \/ Fail(q) \/ FailUnrecorded(q) \/ Crash(q)

Next ==
    \/ Import
    \/ SetClockBack
    \/ \E q \in Refresher : TryLock(q) \/ Proceed(q) \/ Disturb(q)
    \/ \E c \in Client : FirstPage(c) \/ NextPage(c) \/ StopReading(c)

Spec == Init /\ [][Next]_vars

\* A command that runs takes its next step.
Fairness == \A q \in Refresher : WF_vars(Proceed(q))

FairSpec == Spec /\ Fairness

-----------------------------------------------------------------------------
(* Properties.                                                              *)

\* The seventeen views always show one and the same source snapshot, although
\* they are computed one after the other while imports commit.
OneSnapshot ==
    \A v, w \in Views :
        /\ views[v].populated <=> views[w].populated
        /\ \A x \in views[v].from, y \in views[w].from : x[1] = y[1] => x[2] = y[2]

\* A reported "current" can be trusted: every view shows the rows that are
\* live now, also when an import committed during the refresh.
CurrentIsLive ==
    Current => \A v \in Views : \A x \in views[v].from : x[2] = rows[x[1]]

\* All the pages collected under one publication_id come from one publication.
PagesFromOnePublication ==
    \A c \in Client : \A a, b \in got[c] : a = b

\* A refresh that failed or still runs shows nothing of its results, a lost
\* answer apart; what readers see comes from an attempt recorded as successful.
ShownIsAudited ==
    shown # None => audit[shown].status = "succeeded" \/ shown \in unacked

\* A publication never goes back to older sources: the imports it shows include
\* those the previous publication showed.
NeverGoesBack ==
    [][views' # views /\ shown # None =>
        shown' # shown /\ basis[shown] \subseteq basis'[shown']]_vars

\* No refresh comes to a view before those that the view reads: PostgreSQL would
\* refuse to read a view that was never populated, and a first refresh would fail.
DependenciesReady ==
    \A q \in Refresher :
        pc[q] = "refreshing" /\ next[q] <= Len(ANALYTICAL_VIEWS) =>
            \A w \in ViewsRead(ANALYTICAL_VIEWS[next[q]]) : draft[q][w].populated

\* The lock is never left behind: whoever holds it is a command that still runs,
\* however the one before it ended.  It is the safety half of RefreshEnds.
LockIsOfACommand == lock # None => pc[lock] # "idle"

\* The refreshes, with all that goes wrong with them, do what AnalyticsRegister
\* promises: the snapshot that is taken is that of the one refresh between its
\* first query and the end of its transaction, and the list that is published is
\* that of the attempt whose results the views hold.
Taken ==
    {[rows |-> snap[q].rows, ids |-> snap[q].ids] :
        q \in {p \in Refresher : pc[p] \in {"refreshing", "committing"}}}

Listed == IF shown = None THEN {} ELSE audit[shown].ids

Register == INSTANCE AnalyticsRegister WITH taken <- Taken, listed <- Listed

ImplementsRegister == Register!Spec

\* A refresh ends, and its lock with it, whatever happens to the command.
RefreshEnds == \A q \in Refresher : (lock = q) ~> (lock # q)

(***************************************************************************)
(* The inductive invariants behind these properties.                       *)
(***************************************************************************)

\* Who is between the lock and the end of the transaction holds the lock; the
\* attempt of a process is its own, and shows nothing before it is committed.
ProcessInv ==
    \A q \in Refresher :
        /\ pc[q] \in {"recording", "capturing", "refreshing", "committing"} => lock = q
        /\ pc[q] \in {"capturing", "refreshing", "committing"} =>
            /\ own[q] # None
            /\ audit[own[q]].status = "running"
            /\ own[q] # shown /\ own[q] \notin unacked
        /\ pc[q] = "refreshing" => next[q] >= 1
        /\ pc[q] = "failing" =>
            /\ own[q] # None
            /\ \/ audit[own[q]].status = "running" /\ own[q] # shown
               \/ audit[own[q]].status = "succeeded" /\ own[q] \in unacked
        /\ own[q] # None => /\ audit[own[q]].status # "absent"
                            /\ \A p \in Refresher : own[p] = own[q] => p = q

AuditInv ==
    /\ ShownIsAudited
    /\ \A a \in unacked : audit[a].status \in {"succeeded", "failed"}
    /\ shown # None => basis[shown] \subseteq published

\* A view shows nothing but these tables.
Shows(f, v, tables) ==
    f[v].populated /\ \A x \in f[v].from : x[2] = tables[x[1]]

\* The views refreshed so far show the snapshot of the transaction, which is
\* at least as recent as the publication it is to replace.
DraftInv ==
    \A q \in Refresher :
        pc[q] \in {"refreshing", "committing"} =>
            /\ \A i \in 1..Len(ANALYTICAL_VIEWS) :
                i < next[q] => Shows(draft[q], ANALYTICAL_VIEWS[i], snap[q].rows)
            /\ pc[q] = "committing" => next[q] > Len(ANALYTICAL_VIEWS)
            /\ snap[q].basis \subseteq published
            /\ shown # None => basis[shown] \subseteq snap[q].basis

IInv == TypeOK /\ ProcessInv /\ AuditInv /\ DraftInv /\ OneSnapshot

\* Without lost answers and without clock steps, the set of successful imports
\* determines the live rows, and the latest success is what the views show.
SourcesInv ==
    /\ SucceededIds = published
    /\ unacked = {}
    /\ \A q \in Refresher :
        pc[q] \in {"refreshing", "committing"} =>
            /\ snap[q].ids = snap[q].basis
            /\ snap[q].basis = published => snap[q].rows = rows
    /\ shown # None =>
        /\ audit[shown].ids = basis[shown]
        /\ basis[shown] = published => \A v \in Views : Shows(views, v, rows)

LatestInv ==
    /\ \A a \in SuccessfulAttempts :
        /\ shown # None
        /\ audit[a].at <= clock
        /\ a # shown => audit[a].at < audit[shown].at
        /\ \A q \in Refresher : pc[q] = "committing" => audit[a].at < stamp[q]
    /\ \A q \in Refresher : pc[q] = "committing" => stamp[q] = clock

PagesInv ==
    \A c \in Client : got[c] \subseteq {page[c]} /\ (page[c] = None => got[c] = {})

FaultFreeInv == IInv /\ SourcesInv /\ LatestInv /\ PagesInv

\* The views that a transaction has refreshed are those that its snapshot makes:
\* everything they are made from is in them, whichever views they were made by.
ExactInv ==
    \A q \in Refresher :
        pc[q] \in {"refreshing", "committing"} =>
            \A i \in 1..Len(ANALYTICAL_VIEWS) :
                i < next[q] => draft[q][ANALYTICAL_VIEWS[i]] =
                                  Register!Contents(snap[q].rows)[ANALYTICAL_VIEWS[i]]
=============================================================================
