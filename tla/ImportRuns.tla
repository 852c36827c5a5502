----------------------------- MODULE ImportRuns -----------------------------
(***************************************************************************)
(* The lifecycle of one dataset import, shared by the eight adapters under  *)
(* retail_data_platform/importers, run by any number of concurrent command  *)
(* line processes against one PostgreSQL database.                          *)
(*                                                                         *)
(* A process hashes the bundle it finds, looks for a successful run of the  *)
(* same bundle, records a running row in import_runs (committed), parses,   *)
(* then publishes: one transaction takes the advisory lock of the dataset,  *)
(* clears the live rows, inserts the new ones and marks the run successful. *)
(* A failure rolls the transaction back and marks the run failed in another *)
(* one.  The register adapter parses inside the publication transaction.    *)
(*                                                                         *)
(* Every variable but the history variables published and unacked is state  *)
(* of the database, of the file system or of one process.  A process that   *)
(* finishes or dies may stand for the next invocation.                      *)
(***************************************************************************)
CONSTANTS
    Dataset,         \* the datasets of the instance, a subset of AllDatasets
    Bundle,          \* contents of a source bundle; a bundle is its own hash
    Run,             \* identities of import_runs rows: bounds the attempts
    Importer,        \* concurrent import commands
    None,            \* no value
    SourcesMutable,  \* may the files change while they are imported?
    AcksLost         \* may the answer to COMMIT be lost?

AllDatasets ==
    {"products", "stores", "typologies", "assortments", "shelf_share",
     "store_activity_metrics", "numeric_distribution", "register"}

-----------------------------------------------------------------------------
(* Which tables an adapter reads, and refuses to find empty, before it      *)
(* records its run.  Products and stores read none.                         *)

TypologiesNeed   == {"stores"}
ActivityNeeds    == {"stores"}
DistributionNeeds == {"stores", "products"}
RegisterNeeds    == {"stores", "products"}
AssortmentsNeed  == {"products", "typologies"}
ShelfShareNeeds  == {"stores", "numeric_distribution"}

Prerequisites(d) ==
    CASE d = "typologies"             -> TypologiesNeed
      [] d = "store_activity_metrics" -> ActivityNeeds
      [] d = "numeric_distribution"   -> DistributionNeeds
      [] d = "register"               -> RegisterNeeds
      [] d = "assortments"            -> AssortmentsNeed
      [] d = "shelf_share"            -> ShelfShareNeeds
      [] OTHER                        -> {}

\* The register adapter streams its files into the open transaction.
ParsesInsideTransaction(d) == d = "register"

ASSUME ImportConstants ==
    /\ Dataset \subseteq AllDatasets
    /\ \A d \in Dataset : Prerequisites(d) \subseteq Dataset
    /\ None \notin Dataset \union Bundle \union Run \union Importer
    /\ SourcesMutable \in BOOLEAN
    /\ AcksLost \in BOOLEAN

-----------------------------------------------------------------------------
VARIABLES
    files,      \* files[d]: the bundle now in the source directory of d
    rows,       \* rows[d]: runs whose rows are the live (active) rows of d
    run,        \* the table import_runs
    lock,       \* lock[d]: who holds pg_advisory_xact_lock(hashtext(d))
    pc, ds,     \* per process: where it is, the dataset it imports,
    hash,       \*   the checksum of the bundle it discovered,
    own,        \*   the import_runs row it inserted,
    parsed,     \*   the bundle its records were parsed from,
    seen,       \*   the live rows its DELETE (or deactivation) covered
    published,  \* history: what each run's committed rows contain
    unacked     \* history: runs that committed without telling the importer

database == <<rows, run, lock>>
process  == <<pc, ds, hash, own, parsed, seen>>
history  == <<published, unacked>>
vars     == <<files, database, process, history>>

RunRow == [dataset : Dataset \union {None}, sha256 : Bundle \union {None},
           status : {"absent", "running", "succeeded", "failed"}]

Absent == [dataset |-> None, sha256 |-> None, status |-> "absent"]

Stage == {"idle", "hashed", "unseen", "parsing", "locking",
          "clearing", "filling", "marking", "failing"}

TypeOK ==
    /\ files \in [Dataset -> Bundle]
    /\ rows \in [Dataset -> SUBSET Run]
    /\ run \in [Run -> RunRow]
    /\ lock \in [Dataset -> Importer \union {None}]
    /\ pc \in [Importer -> Stage]
    /\ ds \in [Importer -> Dataset \union {None}]
    /\ hash \in [Importer -> Bundle \union {None}]
    /\ own \in [Importer -> Run \union {None}]
    /\ parsed \in [Importer -> Bundle \union {None}]
    /\ seen \in [Importer -> SUBSET Run]
    /\ published \in [Run -> Bundle \union {None}]
    /\ unacked \subseteq Run

Init ==
    /\ files \in [Dataset -> Bundle]
    /\ rows = [d \in Dataset |-> {}]
    /\ run = [r \in Run |-> Absent]
    /\ lock = [d \in Dataset |-> None]
    /\ pc = [p \in Importer |-> "idle"]
    /\ ds = [p \in Importer |-> None]
    /\ hash = [p \in Importer |-> None]
    /\ own = [p \in Importer |-> None]
    /\ parsed = [p \in Importer |-> None]
    /\ seen = [p \in Importer |-> {}]
    /\ published = [r \in Run |-> None]
    /\ unacked = {}

-----------------------------------------------------------------------------
(* Pieces shared by the actions.                                            *)

Succeeded(d, b) ==
    \E r \in Run : run[r] = [dataset |-> d, sha256 |-> b, status |-> "succeeded"]

SetStatus(r, s) == run' = [run EXCEPT ![r].status = s]

Goto(p, stage) == pc' = [pc EXCEPT ![p] = stage]

\* Records parsed and rows covered are of no use after the transaction.
DropWork(p) ==
    /\ parsed' = [parsed EXCEPT ![p] = None]
    /\ seen' = [seen EXCEPT ![p] = {}]

\* The process returns to the shell; the next invocation starts afresh.
Exit(p) ==
    /\ Goto(p, "idle")
    /\ ds' = [ds EXCEPT ![p] = None]
    /\ hash' = [hash EXCEPT ![p] = None]
    /\ own' = [own EXCEPT ![p] = None]
    /\ DropWork(p)

InTransaction(p) == pc[p] \in {"clearing", "filling", "marking"}

\* The end of a transaction, whatever its outcome, releases the lock.
ReleaseLock(p) ==
    lock' = [d \in Dataset |-> IF lock[d] = p THEN None ELSE lock[d]]

-----------------------------------------------------------------------------
(* One action per step of an adapter.                                       *)

\* Somebody replaces the files of a dataset.
ReplaceFiles(d, b) ==
    /\ SourcesMutable
    /\ files' = [files EXCEPT ![d] = b]
    /\ UNCHANGED <<database, process, history>>

\* discover_*_sources and source_bundle_sha256.
Discover(p, d) ==
    /\ pc[p] = "idle"
    /\ ds' = [ds EXCEPT ![p] = d]
    /\ hash' = [hash EXCEPT ![p] = files[d]]
    /\ Goto(p, "hashed")
    /\ UNCHANGED <<files, database, history, own, parsed, seen>>

\* A successful run of the same bundle exists: report skipped.
Skip(p) ==
    /\ pc[p] = "hashed"
    /\ Succeeded(ds[p], hash[p])
    /\ Exit(p)
    /\ UNCHANGED <<files, database, history>>

NotSucceededYet(p) ==
    /\ pc[p] = "hashed"
    /\ ~Succeeded(ds[p], hash[p])
    /\ Goto(p, "unseen")
    /\ UNCHANGED <<files, database, history, ds, hash, own, parsed, seen>>

\* A table the adapter resolves against is empty: raise, recording nothing.
PrerequisiteMissing(p) ==
    /\ pc[p] = "unseen"
    /\ \E e \in Prerequisites(ds[p]) : rows[e] = {}
    /\ Exit(p)
    /\ UNCHANGED <<files, database, history>>

\* Fault: the run is recorded without looking at the tables it needs.
RecordUnchecked(p) ==
    /\ pc[p] = "unseen"
    /\ \E r \in Run :
        /\ run[r] = Absent
        /\ run' = [run EXCEPT ![r] = [dataset |-> ds[p], sha256 |-> hash[p],
                                      status |-> "running"]]
        /\ own' = [own EXCEPT ![p] = r]
    /\ Goto(p, IF ParsesInsideTransaction(ds[p]) THEN "locking" ELSE "parsing")
    /\ UNCHANGED <<files, rows, lock, history, ds, hash, parsed, seen>>

\* Insert the running row and commit it.
Record(p) ==
    /\ pc[p] = "unseen"
    /\ \A e \in Prerequisites(ds[p]) : rows[e] # {}
    /\ \E r \in Run :
        /\ run[r] = Absent
        /\ run' = [run EXCEPT ![r] = [dataset |-> ds[p], sha256 |-> hash[p],
                                      status |-> "running"]]
        /\ own' = [own EXCEPT ![p] = r]
    /\ Goto(p, IF ParsesInsideTransaction(ds[p]) THEN "locking" ELSE "parsing")
    /\ UNCHANGED <<files, rows, lock, history, ds, hash, parsed, seen>>

\* Read the files again, this time for their rows.
Parse(p) ==
    /\ pc[p] = "parsing"
    /\ parsed' = [parsed EXCEPT ![p] = files[ds[p]]]
    /\ Goto(p, "locking")
    /\ UNCHANGED <<files, database, history, ds, hash, own, seen>>

AcquireLock(p) ==
    /\ pc[p] = "locking"
    /\ lock[ds[p]] = None
    /\ lock' = [lock EXCEPT ![ds[p]] = p]
    /\ Goto(p, "clearing")
    /\ UNCHANGED <<files, rows, run, history, ds, hash, own, parsed, seen>>

\* Fault: the run is marked successful before its rows are written.
ClearAfterMarking(p) ==
    /\ pc[p] = "clearing"
    /\ seen' = [seen EXCEPT ![p] = rows[ds[p]]]
    /\ SetStatus(own[p], "succeeded")
    /\ Goto(p, IF ParsesInsideTransaction(ds[p]) THEN "filling" ELSE "marking")
    /\ UNCHANGED <<files, rows, lock, history, ds, hash, own, parsed>>

\* DELETE, or UPDATE ... SET is_active = false: it covers the rows committed
\* by now, and nothing another transaction commits later.
Clear(p) ==
    /\ pc[p] = "clearing"
    /\ seen' = [seen EXCEPT ![p] = rows[ds[p]]]
    /\ Goto(p, IF ParsesInsideTransaction(ds[p]) THEN "filling" ELSE "marking")
    /\ UNCHANGED <<files, database, history, ds, hash, own, parsed>>

\* The register adapter copies its records while it reads the files.
ParseAndCopy(p) ==
    /\ pc[p] = "filling"
    /\ parsed' = [parsed EXCEPT ![p] = files[ds[p]]]
    /\ Goto(p, "marking")
    /\ UNCHANGED <<files, database, history, ds, hash, own, seen>>

\* Fault: new rows are added to the old ones.
PublishAppending(p) ==
    /\ pc[p] = "marking"
    /\ ~Succeeded(ds[p], hash[p])
    /\ rows' = [rows EXCEPT ![ds[p]] = @ \union {own[p]}]
    /\ SetStatus(own[p], "succeeded")
    /\ published' = [published EXCEPT ![own[p]] = parsed[p]]
    /\ ReleaseLock(p)

\* The publication transaction commits: the rows it covered go, its own come,
\* and its run is successful.  The partial unique index
\* uq_import_runs_succeeded_source admits one successful run per bundle.
Publish(p) ==
    /\ pc[p] = "marking"
    /\ ~Succeeded(ds[p], hash[p])
    /\ rows' = [rows EXCEPT ![ds[p]] = (@ \ seen[p]) \union {own[p]}]
    /\ SetStatus(own[p], "succeeded")
    /\ published' = [published EXCEPT ![own[p]] = parsed[p]]
    /\ ReleaseLock(p)

Commit(p) ==
    /\ Publish(p)
    /\ Exit(p)
    /\ UNCHANGED <<files, unacked>>

\* The transaction took effect but the connection failed before the answer:
\* the driver raises, and the adapter handles it as any other exception.
CommitUnacknowledged(p) ==
    /\ AcksLost
    /\ Publish(p)
    /\ unacked' = unacked \union {own[p]}
    /\ Goto(p, "failing")
    /\ DropWork(p)
    /\ UNCHANGED <<files, ds, hash, own>>

\* Fault: a session-level lock that the failure path forgets to release.
RollbackKeepingLock(p) ==
    /\ Goto(p, "failing")
    /\ DropWork(p)
    /\ UNCHANGED <<files, database, history, ds, hash, own>>

\* Roll back and enter the except clause.
Rollback(p) ==
    /\ ReleaseLock(p)
    /\ Goto(p, "failing")
    /\ DropWork(p)
    /\ UNCHANGED <<files, rows, run, history, ds, hash, own>>

\* The unique index refuses the second success of a bundle.
RefuseDuplicate(p) ==
    /\ pc[p] = "marking"
    /\ Succeeded(ds[p], hash[p])
    /\ Rollback(p)

\* A validation error, an I/O error or a database error.
Fail(p) ==
    /\ pc[p] \in {"parsing", "locking", "clearing", "filling", "marking"}
    /\ Rollback(p)

\* _mark_import_failed: a transaction of its own, whatever the row says now.
MarkFailed(p) ==
    /\ pc[p] = "failing"
    /\ SetStatus(own[p], "failed")
    /\ Exit(p)
    /\ UNCHANGED <<files, rows, lock, history>>

\* The process dies or is interrupted (KeyboardInterrupt passes the except
\* clause), or marking the failure fails: PostgreSQL rolls back, the
\* import_runs row stays as it is.
Crash(p) ==
    /\ pc[p] # "idle"
    /\ Exit(p)
    /\ ReleaseLock(p)
    /\ UNCHANGED <<files, rows, run, history>>

-----------------------------------------------------------------------------
Proceed(p) ==
    \/ Skip(p) \/ NotSucceededYet(p) \/ PrerequisiteMissing(p) \/ Record(p)
    \/ Parse(p) \/ Clear(p) \/ ParseAndCopy(p)
    \/ Commit(p) \/ RefuseDuplicate(p) \/ MarkFailed(p)

Disturb(p) == CommitUnacknowledged(p) \/ Fail(p) \/ Crash(p)

Next ==
    \/ \E d \in Dataset, b \in Bundle : ReplaceFiles(d, b)
    \/ \E p \in Importer, d \in Dataset : Discover(p, d)
    \/ \E p \in Importer : Proceed(p) \/ AcquireLock(p) \/ Disturb(p)

Spec == Init /\ [][Next]_vars

\* A running process takes its next step; PostgreSQL grants an advisory lock
\* in arrival order, so a waiter is not passed over forever.
Fairness ==
    \A p \in Importer : WF_vars(Proceed(p)) /\ SF_vars(AcquireLock(p))

FairSpec == Spec /\ Fairness

-----------------------------------------------------------------------------
(* Properties.                                                              *)

\* Concurrent imports of a dataset never leave a mixture of their rows live,
\* although each DELETE covers only the rows it can see
\* ("concurrent publication of the same dataset is serialised").
NeverMixed ==
    \A d \in Dataset : \A r, s \in rows[d] : r = s

\* The live rows of a dataset come from a run of that dataset which import_runs
\* calls successful, unless the importer was never told that it committed.
LiveRowsAccountedFor ==
    \A d \in Dataset : \A r \in rows[d] :
        /\ run[r].dataset = d
        /\ run[r].status = "succeeded" \/ r \in unacked

\* A run is successful only if its rows were committed with it, and a run that
\* is running or failed left no rows, lost answers apart: the status and the
\* rows share one transaction.
StatusMatchesRows ==
    \A r \in Run :
        /\ run[r].status = "succeeded" => published[r] # None
        /\ run[r].status \in {"running", "failed"} /\ r \notin unacked
                => published[r] = None

\* At most one successful run per dataset and bundle, although every process
\* checks for one long before it publishes.
OneSuccessPerBundle ==
    \A r, s \in Run :
        (r # s /\ run[r].status = "succeeded" /\ run[s].status = "succeeded")
            => <<run[r].dataset, run[r].sha256>> # <<run[s].dataset, run[s].sha256>>

\* Whatever is live was resolved against tables that had rows: a dataset is
\* never published before the ones its adapter reads.
PrerequisitesLive ==
    \A d \in Dataset :
        rows[d] # {} => \A e \in Prerequisites(d) : rows[e] # {}

\* The audit trail is final: a failed run never succeeds afterwards, and a
\* success is withdrawn only by an importer that lost the answer to its commit.
AuditIsFinal ==
    [][\A r \in Run :
        /\ run[r].status = "failed" => run'[r] = run[r]
        /\ run[r].status = "succeeded" /\ r \notin unacked => run'[r] = run[r]]_vars

\* Whoever holds the lock of a dataset is in the transaction that publishes it, and
\* so waits for no other lock: nobody is left to wait for a process that is gone or
\* that waits itself.  It is the safety half of EveryImportEnds.
LocksAreOfTransactions ==
    \A d \in Dataset : lock[d] # None => InTransaction(lock[d]) /\ ds[lock[d]] = d

\* Every recorded import comes to an end: it is published, it fails, or its
\* process dies; in particular nobody waits for a dataset lock forever.
EveryImportEnds ==
    \A p \in Importer, r \in Run : (own[p] = r) ~> (own[p] # r)

(***************************************************************************)
(* The inductive invariant behind these properties.                        *)
(***************************************************************************)

Recorded == {"parsing", "locking", "clearing", "filling", "marking", "failing"}

HasParsed(p) ==
    \/ pc[p] = "marking"
    \/ pc[p] \in {"locking", "clearing"} /\ ~ParsesInsideTransaction(ds[p])

\* A process knows what its stage needs.
ProcessInv ==
    \A p \in Importer :
        /\ pc[p] # "idle" => ds[p] \in Dataset /\ hash[p] \in Bundle
        /\ own[p] # None <=> pc[p] \in Recorded
        /\ HasParsed(p) => parsed[p] \in Bundle

\* The lock of a dataset is held exactly by the process whose publication
\* transaction is open, and nothing changes under that transaction.
LockInv ==
    /\ \A p \in Importer : InTransaction(p) => lock[ds[p]] = p
    /\ LocksAreOfTransactions
    /\ \A p \in Importer :
        pc[p] \in {"filling", "marking"} => seen[p] = rows[ds[p]]

\* The row a process recorded is its own, describes what it imports, and is
\* still running, unless the process waits to disown an unacknowledged commit.
OwnsRun(p, r) ==
    /\ \A q \in Importer : own[q] = r => q = p
    /\ run[r].dataset = ds[p] /\ run[r].sha256 = hash[p]
    /\ \/ run[r].status = "running" /\ published[r] = None /\ r \notin unacked
       \/ pc[p] = "failing" /\ run[r].status = "succeeded" /\ r \in unacked
    /\ \A e \in Prerequisites(ds[p]) : rows[e] # {}

OwnerInv == \A p \in Importer : own[p] # None => OwnsRun(p, own[p])

\* What import_runs says of a run agrees with what was committed for it.
RunInv ==
    \A r \in Run :
        /\ run[r].status = "absent" <=> run[r].dataset = None
        /\ run[r].status # "absent" => run[r].sha256 # None
        /\ run[r].status = "absent" => run[r] = Absent
        /\ published[r] # None => run[r].status \in {"succeeded", "failed"}
        /\ run[r].status = "succeeded" => published[r] # None
        /\ run[r].status = "failed" /\ published[r] # None => r \in unacked
        /\ r \in unacked => published[r] # None

RowsInv ==
    \A d \in Dataset : \A r \in rows[d] :
        published[r] # None /\ run[r].dataset = d

IInv ==
    /\ TypeOK
    /\ ProcessInv
    /\ LockInv
    /\ OwnerInv
    /\ RunInv
    /\ RowsInv
    /\ NeverMixed
    /\ OneSuccessPerBundle
    /\ PrerequisitesLive

\* The importers implement the ledger: each publication is one atomic step.
Ledger == INSTANCE ImportLedger WITH
    succeeded <- {[run |-> r, dataset |-> run[r].dataset, sha256 |-> run[r].sha256] :
                    r \in {q \in Run : run[q].status = "succeeded"}},
    published <- {r \in Run : published[r] # None}

ImplementsLedger == Ledger!Spec

-----------------------------------------------------------------------------
(* What the documentation says without qualification.                       *)

\* docs/architecture.md:393: "a previously successful identical bundle is not
\* republished".
NotRepublished ==
    \A r, s \in Run :
        (r # s /\ run[r].dataset = run[s].dataset /\ published[r] # None)
            => published[r] # published[s]
=============================================================================
