-------------------------- MODULE ImportRunsProofs --------------------------
(***************************************************************************)
(* Proofs about ImportRuns, for any set of datasets closed under their      *)
(* prerequisites, any bundles, any number of runs and of processes.         *)
(***************************************************************************)
EXTENDS ImportRuns, TLAPS

USE DEF Stage, RunRow, Absent, HasParsed

-----------------------------------------------------------------------------
(* Type correctness.                                                        *)

\* The initial state is typed.
LEMMA InitTyped == Init => TypeOK
BY ImportConstants DEF Init, TypeOK

\* Changing the status of a run changes nothing else in import_runs.
LEMMA StatusOnly ==
    ASSUME run \in [Run -> RunRow], NEW r \in Run,
           NEW st \in {"running", "succeeded", "failed"}, SetStatus(r, st)
    PROVE  /\ run' \in [Run -> RunRow]
           /\ run'[r] = [dataset |-> run[r].dataset, sha256 |-> run[r].sha256,
                         status |-> st]
           /\ \A q \in Run \ {r} : run'[q] = run[q]
BY DEF SetStatus

\* Import commands keep every table and every process local in its type; a
\* step that reads files[ds[p]] needs to know that ds[p] is a dataset.
LEMMA NextTyped == TypeOK /\ ProcessInv /\ [Next]_vars => TypeOK'
<1> SUFFICES ASSUME TypeOK, ProcessInv, [Next]_vars
             PROVE  TypeOK'
  OBVIOUS
<1> USE ImportConstants
    DEF TypeOK, database, process, history, Goto, SetStatus, ReleaseLock, DropWork
<1>1. ASSUME NEW d \in Dataset, NEW b \in Bundle, ReplaceFiles(d, b)
      PROVE  TypeOK'
  BY <1>1 DEF ReplaceFiles
<1>2. ASSUME NEW p \in Importer, NEW d \in Dataset, Discover(p, d)
      PROVE  TypeOK'
  BY <1>2 DEF Discover
<1>3. ASSUME NEW p \in Importer, Skip(p)
      PROVE  TypeOK'
  BY <1>3 DEF Skip, Exit
<1>4. ASSUME NEW p \in Importer, NotSucceededYet(p)
      PROVE  TypeOK'
  BY <1>4 DEF NotSucceededYet
<1>5. ASSUME NEW p \in Importer, PrerequisiteMissing(p)
      PROVE  TypeOK'
  BY <1>5 DEF PrerequisiteMissing, Exit
<1>6. ASSUME NEW p \in Importer, Record(p)
      PROVE  TypeOK'
  BY <1>6 DEF Record
<1>7. ASSUME NEW p \in Importer, Parse(p)
      PROVE  TypeOK'
  BY <1>7 DEF Parse, ProcessInv, Recorded
<1>8. ASSUME NEW p \in Importer, AcquireLock(p)
      PROVE  TypeOK'
  BY <1>8 DEF AcquireLock, ProcessInv, Recorded
<1>9. ASSUME NEW p \in Importer, Clear(p)
      PROVE  TypeOK'
  BY <1>9 DEF Clear, ProcessInv, Recorded
<1>10. ASSUME NEW p \in Importer, ParseAndCopy(p)
       PROVE  TypeOK'
  BY <1>10 DEF ParseAndCopy, ProcessInv, Recorded
<1>11. ASSUME NEW p \in Importer, Commit(p)
       PROVE  TypeOK'
  <2>1. own[p] \in Run /\ ds[p] \in Dataset /\ parsed[p] \in Bundle
    BY <1>11 DEF Commit, Publish, ProcessInv, Recorded
  <2>2. rows' \in [Dataset -> SUBSET Run]
    BY <1>11, <2>1 DEF Commit, Publish
  <2>3. run' \in [Run -> RunRow]
    <3>1. SetStatus(own[p], "succeeded")
      BY <1>11 DEF Commit, Publish
    <3>2. QED
      BY <2>1, <3>1, StatusOnly
  <2>4. published' \in [Run -> Bundle \union {None}]
    BY <1>11, <2>1 DEF Commit, Publish
  <2>5. lock' \in [Dataset -> Importer \union {None}]
    BY <1>11 DEF Commit, Publish
  <2>6. QED
    BY <1>11, <2>2, <2>3, <2>4, <2>5 DEF Commit, Exit
<1>12. ASSUME NEW p \in Importer, CommitUnacknowledged(p)
       PROVE  TypeOK'
  <2>1. own[p] \in Run /\ ds[p] \in Dataset /\ parsed[p] \in Bundle
    BY <1>12 DEF CommitUnacknowledged, Publish, ProcessInv, Recorded
  <2>2. rows' \in [Dataset -> SUBSET Run]
    BY <1>12, <2>1 DEF CommitUnacknowledged, Publish
  <2>3. run' \in [Run -> RunRow]
    <3>1. SetStatus(own[p], "succeeded")
      BY <1>12 DEF CommitUnacknowledged, Publish
    <3>2. QED
      BY <2>1, <3>1, StatusOnly
  <2>4. published' \in [Run -> Bundle \union {None}]
    BY <1>12, <2>1 DEF CommitUnacknowledged, Publish
  <2>5. lock' \in [Dataset -> Importer \union {None}]
    BY <1>12 DEF CommitUnacknowledged, Publish
  <2>6. QED
    BY <1>12, <2>1, <2>2, <2>3, <2>4, <2>5 DEF CommitUnacknowledged
<1>13. ASSUME NEW p \in Importer, RefuseDuplicate(p)
       PROVE  TypeOK'
  BY <1>13 DEF RefuseDuplicate, Rollback
<1>14. ASSUME NEW p \in Importer, Fail(p)
       PROVE  TypeOK'
  BY <1>14 DEF Fail, Rollback
<1>15. ASSUME NEW p \in Importer, MarkFailed(p)
       PROVE  TypeOK'
  <2>1. own[p] \in Run
    BY <1>15 DEF MarkFailed, ProcessInv, Recorded
  <2>2. run' \in [Run -> RunRow]
    BY ONLY <1>15, <2>1, StatusOnly, TypeOK DEF MarkFailed, TypeOK
  <2>3. QED
    BY <1>15, <2>1, <2>2 DEF MarkFailed, Exit
<1>16. ASSUME NEW p \in Importer, Crash(p)
       PROVE  TypeOK'
  BY <1>16 DEF Crash, Exit
<1>17. CASE UNCHANGED vars
  BY <1>17 DEF vars
<1>18. QED
  BY <1>1, <1>2, <1>3, <1>4, <1>5, <1>6, <1>7, <1>8, <1>9, <1>10, <1>11, <1>12, <1>13, <1>14, <1>15, <1>16, <1>17
  DEF Next, Proceed, Disturb

-----------------------------------------------------------------------------
(* The inductive invariant.                                                 *)

\* The conjuncts that mention no process: a step that leaves the tables and
\* their history alone preserves them.
TableInv == RunInv /\ RowsInv /\ NeverMixed /\ OneSuccessPerBundle /\ PrerequisitesLive

\* The conjuncts about the tables need only the tables.
LEMMA TablesUntouched ==
    ASSUME TableInv, UNCHANGED <<rows, run, published, unacked>>
    PROVE  TableInv'
BY DEF TableInv, RunInv, RowsInv, NeverMixed, OneSuccessPerBundle, PrerequisitesLive

\* The invariant holds of an empty database.
LEMMA InitInv == Init => IInv
<1> SUFFICES ASSUME Init PROVE IInv
  OBVIOUS
<1> USE ImportConstants DEF Init
<1>1. TypeOK
  BY InitTyped
<1>2. ProcessInv /\ LockInv /\ OwnerInv
  BY DEF ProcessInv, LockInv, LocksAreOfTransactions, OwnerInv, Recorded, InTransaction
<1>3. TableInv
  BY DEF TableInv, RunInv, RowsInv, NeverMixed, OneSuccessPerBundle, PrerequisitesLive
<1>4. QED
  BY <1>1, <1>2, <1>3 DEF IInv, TableInv

\* Steps that change nothing but the local state of a process outside its
\* transaction: it still owns at most the run it owned.
LEMMA LocalStep ==
    ASSUME IInv, TypeOK', NEW p \in Importer,
           UNCHANGED <<database, history>>,
           ~InTransaction(p), ~InTransaction(p)',
           \A q \in Importer \ {p} :
              /\ pc'[q] = pc[q] /\ ds'[q] = ds[q] /\ hash'[q] = hash[q]
              /\ own'[q] = own[q] /\ parsed'[q] = parsed[q] /\ seen'[q] = seen[q],
           own'[p] # None => /\ own'[p] = own[p] /\ ds'[p] = ds[p] /\ hash'[p] = hash[p]
                             /\ pc[p] # "failing",
           pc'[p] # "idle" => ds'[p] \in Dataset /\ hash'[p] \in Bundle,
           own'[p] # None <=> pc'[p] \in Recorded,
           HasParsed(p)' => parsed'[p] \in Bundle
    PROVE  IInv'
<1> USE ImportConstants DEF IInv, TypeOK, database, history
<1>1. ProcessInv'
  <2> HIDE DEF IInv, TypeOK, database, history
  <2>1. ProcessInv
    BY DEF IInv
  <2>2. ASSUME NEW q \in Importer \ {p}
        PROVE  /\ pc'[q] # "idle" => ds'[q] \in Dataset /\ hash'[q] \in Bundle
               /\ own'[q] # None <=> pc'[q] \in Recorded
               /\ HasParsed(q)' => parsed'[q] \in Bundle
    <3>1. HasParsed(q)' <=> HasParsed(q)
      BY <2>2 DEF HasParsed
    <3> QED
      BY <2>1, <2>2, <3>1 DEF ProcessInv
  <2>3. QED
    BY <2>2 DEF ProcessInv
<1>2. LockInv'
  <2>1. \A q \in Importer : InTransaction(q)' => q # p /\ InTransaction(q)
    BY DEF InTransaction
  <2>2. \A q \in Importer : InTransaction(q)' => lock'[ds'[q]] = q
    BY <2>1 DEF LockInv, LocksAreOfTransactions
  <2>3. ASSUME NEW d \in Dataset, lock'[d] # None
        PROVE  InTransaction(lock[d])' /\ ds'[lock'[d]] = d
    BY <2>3 DEF LockInv, LocksAreOfTransactions, InTransaction
  <2>4. \A q \in Importer : pc'[q] \in {"filling", "marking"} => seen'[q] = rows'[ds'[q]]
    BY DEF LockInv, LocksAreOfTransactions, InTransaction
  <2>5. QED
    BY <2>2, <2>3, <2>4 DEF LockInv, LocksAreOfTransactions
<1>3. OwnerInv'
  BY DEF OwnerInv, OwnsRun, RunInv
<1>4. TableInv'
  BY TablesUntouched DEF TableInv
<1>5. QED
  BY <1>1, <1>2, <1>3, <1>4 DEF TableInv

\* Inserting the running row gives the process a run nobody else knows.
LEMMA RecordStep ==
    ASSUME IInv, TypeOK', NEW p \in Importer, Record(p)
    PROVE  IInv'
<1> USE ImportConstants DEF IInv, TypeOK, Record, history, Goto
<1>1. PICK r \in Run :
        /\ run[r] = Absent
        /\ run' = [run EXCEPT ![r] = [dataset |-> ds[p], sha256 |-> hash[p],
                                      status |-> "running"]]
        /\ own' = [own EXCEPT ![p] = r]
  OBVIOUS
<1>2. ds[p] \in Dataset /\ hash[p] \in Bundle /\ ~InTransaction(p) /\ ~InTransaction(p)'
  BY DEF ProcessInv, InTransaction, ParsesInsideTransaction
<1>3. /\ run'[r] = [dataset |-> ds[p], sha256 |-> hash[p], status |-> "running"]
      /\ \A q \in Run \ {r} : run'[q] = run[q]
  BY <1>1
<1>4. published[r] = None /\ r \notin unacked
  BY <1>1 DEF RunInv
<1>5. \A q \in Importer : own[q] # r
  BY <1>1, <1>4 DEF OwnerInv, OwnsRun
<1>6. ProcessInv'
  BY <1>1, <1>2 DEF ProcessInv, Recorded, ParsesInsideTransaction
<1>7. LockInv'
  BY <1>2 DEF LockInv, LocksAreOfTransactions, InTransaction
<1>8. OwnerInv'
  <2> SUFFICES ASSUME NEW q \in Importer, own'[q] # None
               PROVE  OwnsRun(q, own[q])'
    BY DEF OwnerInv
  <2>1. CASE q = p
    BY <1>1, <1>2, <1>3, <1>4, <1>5, <2>1 DEF OwnsRun
  <2>2. CASE q # p
    BY <1>1, <1>2, <1>3, <1>4, <1>5, <2>2 DEF OwnerInv, OwnsRun
  <2>3. QED
    BY <2>1, <2>2
<1>9. RunInv'
  BY <1>2, <1>3, <1>4 DEF RunInv
<1>10. RowsInv' /\ NeverMixed' /\ PrerequisitesLive'
  BY <1>3, <1>4 DEF RowsInv, NeverMixed, PrerequisitesLive
<1>11. OneSuccessPerBundle'
  BY <1>3 DEF OneSuccessPerBundle
<1>12. QED
  BY <1>6, <1>7, <1>8, <1>9, <1>10, <1>11

\* The transaction that gets the lock sees what is live.
LEMMA AcquireLockStep ==
    ASSUME IInv, TypeOK', NEW p \in Importer, AcquireLock(p)
    PROVE  IInv'
<1> USE ImportConstants DEF IInv, TypeOK, AcquireLock, history, Goto
<1>1. ds[p] \in Dataset
  BY DEF ProcessInv
<1>2. ProcessInv'
  BY DEF ProcessInv, Recorded
<1>3. LockInv'
  <2>1. ~InTransaction(p) /\ \A q \in Importer : InTransaction(q)' <=> q = p \/ InTransaction(q)
    BY DEF InTransaction
  <2>2. \A q \in Importer : InTransaction(q)' => lock'[ds'[q]] = q
    BY <1>1, <2>1 DEF LockInv, LocksAreOfTransactions
  <2>3. \A d \in Dataset : lock'[d] # None => InTransaction(lock[d])' /\ ds'[lock'[d]] = d
    BY <1>1, <2>1 DEF LockInv, LocksAreOfTransactions, InTransaction
  <2>4. \A q \in Importer : pc'[q] \in {"filling", "marking"} => seen'[q] = rows'[ds'[q]]
    BY DEF LockInv, LocksAreOfTransactions
  <2>5. QED
    BY <2>2, <2>3, <2>4 DEF LockInv, LocksAreOfTransactions
<1>4. OwnerInv'
  BY DEF OwnerInv, OwnsRun, RunInv
<1>5. TableInv'
  BY TablesUntouched DEF TableInv
<1>6. QED
  BY <1>2, <1>3, <1>4, <1>5 DEF TableInv

\* Clearing the rows and copying the new ones happen under the lock.
LEMMA InsideStep ==
    ASSUME IInv, TypeOK', NEW p \in Importer, Clear(p) \/ ParseAndCopy(p)
    PROVE  IInv'
<1> USE ImportConstants DEF IInv, TypeOK, database, history, Goto
<1>1. /\ UNCHANGED <<database, history, ds, hash, own>>
      /\ InTransaction(p) /\ pc'[p] \in {"filling", "marking"}
      /\ \A q \in Importer \ {p} : pc'[q] = pc[q] /\ seen'[q] = seen[q] /\ parsed'[q] = parsed[q]
  BY DEF Clear, ParseAndCopy, InTransaction, ParsesInsideTransaction
<1>2. ds[p] \in Dataset /\ own[p] \in Run
  BY <1>1 DEF ProcessInv, InTransaction, Recorded
<1>3. ProcessInv'
  <2>1. pc'[p] = "marking" => parsed'[p] \in Bundle
    BY <1>2 DEF Clear, ParseAndCopy, ProcessInv, ParsesInsideTransaction
  <2>2. QED
    BY <1>1, <1>2, <2>1 DEF ProcessInv, Recorded
<1>4. LockInv'
  <2>1. seen'[p] = rows[ds[p]]
    BY <1>2 DEF Clear, ParseAndCopy, LockInv, LocksAreOfTransactions
  <2>2. \A q \in Importer : InTransaction(q)' <=> InTransaction(q)
    BY <1>1 DEF InTransaction
  <2>3. QED
    BY <1>1, <2>1, <2>2 DEF LockInv, LocksAreOfTransactions
<1>5. OwnerInv'
  BY <1>1 DEF OwnerInv, OwnsRun, InTransaction
<1>6. TableInv'
  BY <1>1, TablesUntouched DEF TableInv
<1>7. QED
  BY <1>3, <1>4, <1>5, <1>6 DEF TableInv

-----------------------------------------------------------------------------
(* The steps that end a publication transaction.                            *)

\* A process that leaves its transaction frees its lock and disturbs nobody
\* else's transaction.
LEMMA TransactionEnds ==
    ASSUME IInv, TypeOK', NEW p \in Importer, ReleaseLock(p), ~InTransaction(p)',
           \A q \in Importer \ {p} :
              pc'[q] = pc[q] /\ ds'[q] = ds[q] /\ seen'[q] = seen[q],
           \A d \in Dataset : rows'[d] = rows[d] \/ lock[d] = p
    PROVE  LockInv'
<1> USE ImportConstants DEF IInv, TypeOK, ReleaseLock
<1>1. ASSUME NEW q \in Importer, InTransaction(q)'
      PROVE  q # p /\ InTransaction(q) /\ ds[q] \in Dataset /\ lock[ds[q]] = q
  BY <1>1 DEF InTransaction, LockInv, LocksAreOfTransactions, ProcessInv
<1>2. \A q \in Importer : InTransaction(q)' => lock'[ds'[q]] = q
  BY <1>1
<1>3. ASSUME NEW d \in Dataset, lock'[d] # None
      PROVE  InTransaction(lock[d])' /\ ds'[lock'[d]] = d
  BY <1>3 DEF LockInv, LocksAreOfTransactions, InTransaction
<1>4. ASSUME NEW q \in Importer, pc'[q] \in {"filling", "marking"}
      PROVE  seen'[q] = rows'[ds'[q]]
  BY <1>1, <1>4 DEF LockInv, LocksAreOfTransactions, InTransaction
<1>5. QED
  BY <1>2, <1>3, <1>4 DEF LockInv, LocksAreOfTransactions

\* The process that publishes replaces exactly the rows it covered, which are
\* all the live rows, because nobody else published since it took the lock.
Replaces(p, d, r) ==
    /\ d = ds[p] /\ r = own[p]
    /\ d \in Dataset /\ r \in Run /\ parsed[p] \in Bundle
    /\ lock[d] = p /\ OwnsRun(p, r)
    /\ run[r].status = "running" /\ published[r] = None /\ r \notin unacked
    /\ rows'[d] = {r}
    /\ \A e \in Dataset \ {d} : rows'[e] = rows[e]
    /\ run'[r] = [dataset |-> d, sha256 |-> hash[p], status |-> "succeeded"]
    /\ \A s \in Run \ {r} : run'[s] = run[s] /\ published'[s] = published[s]
    /\ published'[r] = parsed[p]

\* A publication replaces all live rows of its dataset, and marks its run.
LEMMA PublishReplaces ==
    ASSUME IInv, NEW p \in Importer, Publish(p)
    PROVE  \E d \in Dataset, r \in Run : Replaces(p, d, r)
<1> USE ImportConstants DEF IInv, TypeOK, Publish
<1>1. ds[p] \in Dataset /\ own[p] \in Run /\ parsed[p] \in Bundle
  BY DEF ProcessInv, Recorded
<1>2. lock[ds[p]] = p /\ seen[p] = rows[ds[p]]
  BY DEF LockInv, LocksAreOfTransactions, InTransaction
<1>3. OwnsRun(p, own[p])
  BY <1>1 DEF OwnerInv
<1>4. run[own[p]].status = "running" /\ published[own[p]] = None /\ own[p] \notin unacked
  BY <1>3 DEF OwnsRun
<1>5. rows'[ds[p]] = {own[p]} /\ \A d \in Dataset \ {ds[p]} : rows'[d] = rows[d]
  BY <1>1, <1>2
<1>6. /\ run'[own[p]] = [dataset |-> ds[p], sha256 |-> hash[p], status |-> "succeeded"]
      /\ \A s \in Run \ {own[p]} : run'[s] = run[s]
  <2>1. run[own[p]].dataset = ds[p] /\ run[own[p]].sha256 = hash[p]
    BY ONLY <1>3 DEF OwnsRun
  <2>2. SetStatus(own[p], "succeeded") /\ run \in [Run -> RunRow]
    OBVIOUS
  <2> QED
    BY ONLY <1>1, <2>1, <2>2, StatusOnly
<1>7. published'[own[p]] = parsed[p] /\ \A s \in Run \ {own[p]} : published'[s] = published[s]
  BY <1>1
<1>8. Replaces(p, ds[p], own[p])
  BY <1>1, <1>2, <1>3, <1>4, <1>5, <1>6, <1>7 DEF Replaces
<1>9. QED
  BY <1>1, <1>8

\* A publication keeps the conjuncts about the tables.
LEMMA PublishTables ==
    ASSUME IInv, TypeOK', NEW p \in Importer, Publish(p),
           unacked' = unacked \/ unacked' = unacked \union {own[p]}
    PROVE  TableInv'
<1>0. PICK d \in Dataset, r \in Run : Replaces(p, d, r)
  BY PublishReplaces
<1> USE ImportConstants, <1>0 DEF IInv, TypeOK, Replaces
<1>1. RunInv'
  <2>1. ASSUME NEW s \in Run \ {r}
        PROVE  run'[s] = run[s] /\ published'[s] = published[s] /\ (s \in unacked' <=> s \in unacked)
    OBVIOUS
  <2>2. hash[p] \in Bundle
    BY DEF ProcessInv, Publish
  <2>3. QED
    BY <2>1, <2>2 DEF RunInv
<1>2. RowsInv'
  <2> SUFFICES ASSUME NEW e \in Dataset, NEW s \in rows'[e]
               PROVE  published'[s] # None /\ run'[s].dataset = e
    BY DEF RowsInv
  <2>1. CASE e = d
    BY <2>1
  <2>2. CASE e # d
    <3>1. s \in rows[e] /\ s \in Run
      BY <2>2
    <3>2. published[s] # None /\ run[s].dataset = e
      BY <3>1 DEF RowsInv
    <3>3. QED
      BY <3>1, <3>2
  <2>3. QED
    BY <2>1, <2>2
<1>3. NeverMixed'
  BY DEF NeverMixed
<1>4. OneSuccessPerBundle'
  <2>1. \A s \in Run : run[s].status = "succeeded" =>
            <<run[s].dataset, run[s].sha256>> # <<d, hash[p]>>
    <3>1. ~Succeeded(d, hash[p]) /\ run \in [Run -> RunRow]
      BY <1>0 DEF Publish
    <3>2. \A s \in Run : run[s] = [dataset |-> run[s].dataset, sha256 |-> run[s].sha256,
                                   status |-> run[s].status]
      BY ONLY <3>1 DEF RunRow
    <3>3. \A s \in Run : ~(run[s].dataset = d /\ run[s].sha256 = hash[p]
                           /\ run[s].status = "succeeded")
      BY ONLY <3>1, <3>2 DEF Succeeded
    <3>4. QED
      BY ONLY <3>3
  <2>2. /\ run'[r].dataset = d /\ run'[r].sha256 = hash[p]
        /\ \A s \in Run \ {r} : run'[s] = run[s]
    BY ONLY <1>0 DEF Replaces
  <2>3. OneSuccessPerBundle
    BY DEF IInv, TableInv
  <2> HIDE <1>0
  <2>4. QED
    BY ONLY <2>1, <2>2, <2>3 DEF OneSuccessPerBundle
<1>5. PrerequisitesLive'
  <2>1. \A e \in Dataset : rows[e] # {} => rows'[e] # {}
    OBVIOUS
  <2>2. PrerequisitesLive /\ \A e \in Prerequisites(d) : rows[e] # {}
    BY DEF OwnsRun
  <2>3. \A e \in Dataset \ {d} : rows'[e] = rows[e]
    OBVIOUS
  <2>4. QED
    BY ONLY <2>1, <2>2, <2>3, ImportConstants DEF PrerequisitesLive
<1>6. QED
  BY <1>1, <1>2, <1>3, <1>4, <1>5 DEF TableInv

\* The other processes keep their runs when one of them publishes.
LEMMA PublishOwners ==
    ASSUME IInv, NEW p \in Importer, Publish(p),
           unacked' = unacked \/ unacked' = unacked \union {own[p]},
           \A q \in Importer \ {p} :
              pc'[q] = pc[q] /\ ds'[q] = ds[q] /\ hash'[q] = hash[q] /\ own'[q] = own[q],
           own'[p] \in {own[p], None}
    PROVE  \A q \in Importer \ {p} : own'[q] # None => OwnsRun(q, own[q])'
<1>0. PICK d \in Dataset, r \in Run : Replaces(p, d, r)
  BY PublishReplaces
<1> USE ImportConstants, <1>0 DEF IInv, TypeOK, Replaces
<1> SUFFICES ASSUME NEW q \in Importer \ {p}, own[q] # None
             PROVE  OwnsRun(q, own[q])'
  OBVIOUS
<1>1. OwnsRun(q, own[q]) /\ own[q] \in Run /\ own[q] # r /\ ds[q] \in Dataset
  BY DEF OwnerInv, OwnsRun, ProcessInv, Recorded
<1>2. \A e \in Prerequisites(ds[q]) : rows'[e] # {}
  <2>1. \A e \in Dataset : rows[e] # {} => rows'[e] # {}
    OBVIOUS
  <2>2. \A e \in Prerequisites(ds[q]) : e \in Dataset /\ rows[e] # {}
    BY <1>1 DEF OwnsRun
  <2>3. QED
    BY <2>1, <2>2
<1>3. /\ ds'[q] = ds[q] /\ pc'[q] = pc[q] /\ hash'[q] = hash[q] /\ own'[q] = own[q]
      /\ run'[own[q]] = run[own[q]] /\ published'[own[q]] = published[own[q]]
      /\ own[q] \in unacked' <=> own[q] \in unacked
  BY <1>1
<1>4. \A o \in Importer : own'[o] = own[q] => o = q
  BY <1>1 DEF OwnsRun
<1> QED
  BY ONLY <1>1, <1>2, <1>3, <1>4 DEF OwnsRun

\* So does the transaction that commits it.
LEMMA CommitStep ==
    ASSUME IInv, TypeOK', NEW p \in Importer, Commit(p)
    PROVE  IInv'
<1>0. PICK d \in Dataset, r \in Run : Replaces(p, d, r)
  BY PublishReplaces DEF Commit
<1>1. ProcessInv'
  BY <1>0, ImportConstants
  DEF IInv, TypeOK, ProcessInv, Recorded, Commit, Exit, Goto, DropWork
<1>2. LockInv'
  <2>1. \A e \in Dataset : rows'[e] = rows[e] \/ lock[e] = p
    BY <1>0 DEF Replaces
  <2>2. ReleaseLock(p) /\ ~InTransaction(p)'
    BY DEF Commit, Publish, Exit, Goto, InTransaction, IInv, TypeOK
  <2>3. \A q \in Importer \ {p} : pc'[q] = pc[q] /\ ds'[q] = ds[q] /\ seen'[q] = seen[q]
    BY DEF Commit, Exit, Goto, DropWork, IInv, TypeOK
  <2>4. QED
    BY <2>1, <2>2, <2>3, TransactionEnds
<1>3. OwnerInv'
  <2>1. own'[p] = None /\ unacked' = unacked
    BY DEF Commit, Exit, IInv, TypeOK
  <2>2. \A q \in Importer \ {p} :
            pc'[q] = pc[q] /\ ds'[q] = ds[q] /\ hash'[q] = hash[q] /\ own'[q] = own[q]
    BY DEF Commit, Exit, Goto, IInv, TypeOK
  <2>3. Publish(p)
    BY DEF Commit
  <2>4. \A q \in Importer \ {p} : own'[q] # None => OwnsRun(q, own[q])'
    BY <2>1, <2>2, <2>3, PublishOwners
  <2>5. QED
    BY <2>1, <2>4 DEF OwnerInv
<1>4. TableInv'
  BY PublishTables DEF Commit
<1>5. QED
  BY <1>1, <1>2, <1>3, <1>4 DEF TableInv, IInv

\* And the one whose commit answer is lost.
LEMMA CommitUnacknowledgedStep ==
    ASSUME IInv, TypeOK', NEW p \in Importer, CommitUnacknowledged(p)
    PROVE  IInv'
<1>0. PICK d \in Dataset, r \in Run : Replaces(p, d, r)
  BY PublishReplaces DEF CommitUnacknowledged
<1>1. ProcessInv'
  BY ImportConstants
  DEF IInv, TypeOK, ProcessInv, Recorded, CommitUnacknowledged, Publish, Goto, DropWork
<1>2. LockInv'
  <2>1. \A e \in Dataset : rows'[e] = rows[e] \/ lock[e] = p
    BY <1>0 DEF Replaces
  <2>2. ReleaseLock(p) /\ ~InTransaction(p)'
    BY DEF CommitUnacknowledged, Publish, Goto, InTransaction, IInv, TypeOK
  <2>3. \A q \in Importer \ {p} : pc'[q] = pc[q] /\ ds'[q] = ds[q] /\ seen'[q] = seen[q]
    BY DEF CommitUnacknowledged, Goto, DropWork, IInv, TypeOK
  <2>4. QED
    BY <2>1, <2>2, <2>3, TransactionEnds
<1>3. OwnerInv'
  <2>1. Publish(p) /\ unacked' = unacked \union {own[p]}
    BY DEF CommitUnacknowledged
  <2>2. /\ own'[p] = own[p]
        /\ \A q \in Importer \ {p} :
            pc'[q] = pc[q] /\ ds'[q] = ds[q] /\ hash'[q] = hash[q] /\ own'[q] = own[q]
    BY DEF CommitUnacknowledged, Goto, IInv, TypeOK
  <2>3. \A q \in Importer \ {p} : own'[q] # None => OwnsRun(q, own[q])'
    BY <2>1, <2>2, PublishOwners
  <2>4. OwnsRun(p, own[p])'
    <3>1. /\ UNCHANGED <<ds, hash, own>> /\ pc'[p] = "failing"
      BY DEF CommitUnacknowledged, Goto, IInv, TypeOK
    <3>2. \A e \in Prerequisites(d) : e \in Dataset /\ rows'[e] # {}
      BY <1>0, ImportConstants DEF Replaces, OwnsRun
    <3>3. \A q \in Importer : own[q] = r => q = p
      BY <1>0 DEF Replaces, OwnsRun
    <3>4. QED
      BY <1>0, <2>1, <3>1, <3>2, <3>3 DEF Replaces, OwnsRun
  <2>5. QED
    BY <2>3, <2>4 DEF OwnerInv
<1>4. TableInv'
  BY PublishTables DEF CommitUnacknowledged
<1>5. QED
  BY <1>1, <1>2, <1>3, <1>4 DEF TableInv, IInv

\* A rollback leaves the tables as they were.
LEMMA RollbackStep ==
    ASSUME IInv, TypeOK', NEW p \in Importer, Rollback(p),
           pc[p] \in Recorded \ {"failing"}
    PROVE  IInv'
<1> USE ImportConstants DEF IInv, TypeOK, Rollback, Goto, DropWork, history
<1>1. ProcessInv'
  BY DEF ProcessInv, Recorded
<1>2. LockInv'
  <2>1. ~InTransaction(p)'
    BY DEF InTransaction
  <2>2. QED
    BY <2>1, TransactionEnds
<1>3. OwnerInv'
  BY DEF OwnerInv, OwnsRun
<1>4. TableInv'
  BY TablesUntouched DEF TableInv
<1>5. QED
  BY <1>1, <1>2, <1>3, <1>4 DEF TableInv

\* The process exits; nobody else is concerned, and the run it leaves behind
\* is running, or successful without its owner knowing.
LEMMA CrashStep ==
    ASSUME IInv, TypeOK', NEW p \in Importer, Crash(p)
    PROVE  IInv'
<1> USE ImportConstants DEF IInv, TypeOK, Crash, Exit, Goto, DropWork, history
<1>1. ProcessInv'
  BY DEF ProcessInv, Recorded
<1>2. LockInv'
  <2>1. ~InTransaction(p)'
    BY DEF InTransaction
  <2>2. QED
    BY <2>1, TransactionEnds
<1>3. OwnerInv'
  BY DEF OwnerInv, OwnsRun
<1>4. TableInv'
  BY TablesUntouched DEF TableInv
<1>5. QED
  BY <1>1, <1>2, <1>3, <1>4 DEF TableInv

\* A run that fails keeps its dataset, and can only make successes fewer.
LEMMA FailureIsHarmless ==
    ASSUME TypeOK, RowsInv, OneSuccessPerBundle, UNCHANGED <<rows, published>>,
           \A s \in Run : /\ run'[s].dataset = run[s].dataset
                          /\ run'[s].status # "failed" => run'[s] = run[s]
    PROVE  RowsInv' /\ OneSuccessPerBundle'
<1>1. RowsInv'
  BY DEF TypeOK, RowsInv
<1>2. OneSuccessPerBundle'
  BY DEF OneSuccessPerBundle
<1>3. QED
  BY <1>1, <1>2

\* Marking a run failed concerns a run whose rows were never committed, or
\* one whose commit was not acknowledged.
LEMMA MarkFailedStep ==
    ASSUME IInv, TypeOK', NEW p \in Importer, MarkFailed(p)
    PROVE  IInv'
<1> DEFINE r == own[p]
<1> USE ImportConstants DEF IInv, TypeOK, MarkFailed, Exit, Goto, DropWork, history
<1>1. r \in Run /\ OwnsRun(p, r) /\ ~InTransaction(p) /\ ~InTransaction(p)'
  BY DEF ProcessInv, OwnerInv, Recorded, InTransaction
<1>2. /\ run'[r] = [dataset |-> run[r].dataset, sha256 |-> run[r].sha256, status |-> "failed"]
      /\ \A s \in Run \ {r} : run'[s] = run[s]
  BY <1>1, StatusOnly
<1>3. \A s \in Run : /\ run'[s].dataset = run[s].dataset
                     /\ run'[s].status # "failed" => run'[s] = run[s]
  <2> HIDE DEF IInv, TypeOK, MarkFailed, r
  <2>1. QED
    BY <1>2
<1>4. ProcessInv'
  BY DEF ProcessInv, Recorded
<1>5. LockInv'
  <2>1. \A q \in Importer : InTransaction(q)' => q # p /\ InTransaction(q)
    BY <1>1 DEF InTransaction
  <2>2. \A d \in Dataset : lock[d] # p
    BY <1>1 DEF LockInv, LocksAreOfTransactions
  <2>3. QED
    BY <2>1, <2>2 DEF LockInv, LocksAreOfTransactions, InTransaction
<1>6. OwnerInv'
  <2> SUFFICES ASSUME NEW q \in Importer, own'[q] # None
               PROVE  OwnsRun(q, own[q])'
    BY DEF OwnerInv
  <2>1. q # p /\ OwnsRun(q, own[q]) /\ own[q] # r /\ own[q] \in Run
    BY <1>1 DEF OwnerInv, OwnsRun
  <2>2. QED
    BY <1>2, <2>1 DEF OwnsRun
<1>7. RunInv'
  <2>1. RunInv /\ OwnsRun(p, r) /\ UNCHANGED <<published, unacked>>
    BY <1>1
  <2>2. /\ run[r].status \in {"running", "succeeded"}
        /\ published[r] = None \/ r \in unacked
    BY ONLY <2>1 DEF OwnsRun
  <2> HIDE DEF IInv, TypeOK, MarkFailed, Exit, r
  <2>3. ASSUME NEW s \in Run \ {r}
        PROVE  /\ run'[s].status = "absent" <=> run'[s].dataset = None
               /\ run'[s].status # "absent" => run'[s].sha256 # None
               /\ run'[s].status = "absent" => run'[s] = Absent
               /\ published'[s] # None => run'[s].status \in {"succeeded", "failed"}
               /\ run'[s].status = "succeeded" => published'[s] # None
               /\ run'[s].status = "failed" /\ published'[s] # None => s \in unacked'
               /\ s \in unacked' => published'[s] # None
    BY ONLY <1>2, <2>1, <2>3 DEF RunInv
  <2>4. /\ run'[r].status = "failed" /\ run'[r].dataset # None /\ run'[r].sha256 # None
        /\ r \in unacked' => published'[r] # None
        /\ published'[r] # None => r \in unacked'
    BY ONLY <1>1, <1>2, <2>1, <2>2 DEF RunInv
  <2>5. QED
    BY ONLY <2>3, <2>4 DEF RunInv
<1>8. NeverMixed' /\ PrerequisitesLive'
  BY DEF NeverMixed, PrerequisitesLive
<1>9. RowsInv' /\ OneSuccessPerBundle'
  <2>1. TypeOK /\ RowsInv /\ OneSuccessPerBundle /\ UNCHANGED <<rows, published>>
    OBVIOUS
  <2> HIDE DEF IInv, TypeOK, MarkFailed, r
  <2>2. QED
    BY <1>3, <2>1, FailureIsHarmless
<1>10. QED
  BY <1>4, <1>5, <1>6, <1>7, <1>8, <1>9

\* The steps before and after the publication transaction are local.
LEMMA LocalSteps ==
    ASSUME IInv, TypeOK', NEW p \in Importer,
           \/ \E d \in Dataset : Discover(p, d)
           \/ Skip(p) \/ NotSucceededYet(p) \/ PrerequisiteMissing(p) \/ Parse(p)
    PROVE  IInv'
<1>1. /\ TypeOK /\ ProcessInv
  BY DEF IInv
<1>2. UNCHANGED <<database, history>> /\ ~InTransaction(p) /\ ~InTransaction(p)'
  BY <1>1 DEF Discover, Skip, NotSucceededYet, PrerequisiteMissing, Parse, Exit, Goto,
              InTransaction, TypeOK
<1>3. \A q \in Importer \ {p} :
          /\ pc'[q] = pc[q] /\ ds'[q] = ds[q] /\ hash'[q] = hash[q]
          /\ own'[q] = own[q] /\ parsed'[q] = parsed[q] /\ seen'[q] = seen[q]
  BY <1>1 DEF Discover, Skip, NotSucceededYet, PrerequisiteMissing, Parse, Exit, Goto,
              DropWork, TypeOK
<1>4. own'[p] # None => /\ own'[p] = own[p] /\ ds'[p] = ds[p] /\ hash'[p] = hash[p]
                        /\ pc[p] # "failing"
  BY <1>1 DEF Discover, Skip, NotSucceededYet, PrerequisiteMissing, Parse, Exit,
              TypeOK, ProcessInv, Recorded
<1>5. pc'[p] # "idle" => ds'[p] \in Dataset /\ hash'[p] \in Bundle
  BY <1>1 DEF Discover, Skip, NotSucceededYet, PrerequisiteMissing, Parse, Exit, Goto,
              TypeOK, ProcessInv
<1>6. own'[p] # None <=> pc'[p] \in Recorded
  <2>0. /\ pc \in [Importer -> Stage] /\ own \in [Importer -> Run \union {None}]
        /\ own[p] # None <=> pc[p] \in Recorded
    BY ONLY <1>1 DEF TypeOK, ProcessInv
  <2>1. ASSUME NEW d \in Dataset, Discover(p, d)
        PROVE  own'[p] # None <=> pc'[p] \in Recorded
    BY ONLY <2>0, <2>1 DEF Discover, Goto, Recorded
  <2>2. CASE Skip(p) \/ PrerequisiteMissing(p)
    BY ONLY <2>0, <2>2 DEF Skip, PrerequisiteMissing, Exit, Goto, DropWork, Recorded
  <2>3. CASE NotSucceededYet(p)
    BY ONLY <2>0, <2>3 DEF NotSucceededYet, Goto, Recorded
  <2>4. CASE Parse(p)
    BY ONLY <2>0, <2>4 DEF Parse, Goto, Recorded
  <2>5. QED
    BY <2>1, <2>2, <2>3, <2>4
<1>7. HasParsed(p)' => parsed'[p] \in Bundle
  BY <1>1 DEF Discover, Skip, NotSucceededYet, PrerequisiteMissing, Parse, Exit, Goto,
              DropWork, TypeOK, ProcessInv
<1>8. QED
  BY <1>2, <1>3, <1>4, <1>5, <1>6, <1>7, LocalStep

\* What the operator does to the files is not in the invariant.
LEMMA FilesStep ==
    ASSUME IInv, TypeOK', UNCHANGED <<database, process, history>>
    PROVE  IInv'
<1> USE DEF IInv, database, process, history
<1>1. ProcessInv' /\ LockInv' /\ OwnerInv'
  BY DEF ProcessInv, LockInv, LocksAreOfTransactions, OwnerInv, OwnsRun, InTransaction
<1>2. TableInv'
  BY TablesUntouched DEF TableInv
<1>3. QED
  BY <1>1, <1>2 DEF TableInv

\* Every step keeps the invariant.
LEMMA NextInv == IInv /\ [Next]_vars => IInv'
<1> SUFFICES ASSUME IInv, [Next]_vars PROVE IInv'
  OBVIOUS
<1>1. TypeOK'
  BY NextTyped DEF IInv
<1>2. ASSUME NEW d \in Dataset, NEW b \in Bundle, ReplaceFiles(d, b)
      PROVE  IInv'
  BY <1>1, <1>2, FilesStep DEF ReplaceFiles
<1>3. ASSUME NEW p \in Importer, NEW d \in Dataset, Discover(p, d)
      PROVE  IInv'
  BY <1>1, <1>3, LocalSteps
<1>4. ASSUME NEW p \in Importer, Proceed(p)
      PROVE  IInv'
  <2>1. CASE Skip(p) \/ NotSucceededYet(p) \/ PrerequisiteMissing(p) \/ Parse(p)
    BY <1>1, <2>1, LocalSteps
  <2>2. CASE Record(p)
    BY <1>1, <2>2, RecordStep
  <2>3. CASE Clear(p) \/ ParseAndCopy(p)
    BY <1>1, <2>3, InsideStep
  <2>4. CASE Commit(p)
    BY <1>1, <2>4, CommitStep
  <2>5. CASE RefuseDuplicate(p)
    BY <1>1, <2>5, RollbackStep DEF RefuseDuplicate, Recorded
  <2>6. CASE MarkFailed(p)
    BY <1>1, <2>6, MarkFailedStep
  <2>7. QED
    BY <1>4, <2>1, <2>2, <2>3, <2>4, <2>5, <2>6 DEF Proceed
<1>5. ASSUME NEW p \in Importer, AcquireLock(p)
      PROVE  IInv'
  BY <1>1, <1>5, AcquireLockStep
<1>6. ASSUME NEW p \in Importer, Disturb(p)
      PROVE  IInv'
  <2>1. CASE CommitUnacknowledged(p)
    BY <1>1, <2>1, CommitUnacknowledgedStep
  <2>2. CASE Fail(p)
    BY <1>1, <2>2, RollbackStep DEF Fail, Recorded
  <2>3. CASE Crash(p)
    BY <1>1, <2>3, CrashStep
  <2>4. QED
    BY <1>6, <2>1, <2>2, <2>3 DEF Disturb
<1>7. CASE UNCHANGED vars
  BY <1>1, <1>7, FilesStep DEF vars
<1>8. QED
  BY <1>2, <1>3, <1>4, <1>5, <1>6, <1>7 DEF Next

\* The invariant holds in every reachable state of every instance.
THEOREM Invariance == Spec => []IInv
BY InitInv, NextInv, PTL DEF Spec

-----------------------------------------------------------------------------
(* What the invariant says of the properties the runs check.                *)

\* Every variable keeps its type, however many processes import.
THEOREM TypeCorrect == Spec => []TypeOK
<1>1. IInv => TypeOK
  BY DEF IInv
<1>2. QED
  BY <1>1, Invariance, PTL

\* Concurrent imports of one dataset never leave a mixture of their rows.
THEOREM NeverMixedAlways == Spec => []NeverMixed
<1>1. IInv => NeverMixed
  BY DEF IInv
<1>2. QED
  BY <1>1, Invariance, PTL

\* Two processes that both saw no successful run of a bundle do not both
\* publish it.
THEOREM OneSuccessAlways == Spec => []OneSuccessPerBundle
<1>1. IInv => OneSuccessPerBundle
  BY DEF IInv
<1>2. QED
  BY <1>1, Invariance, PTL

\* A dataset is live only above the datasets it was resolved against.
THEOREM PrerequisitesAlways == Spec => []PrerequisitesLive
<1>1. IInv => PrerequisitesLive
  BY DEF IInv
<1>2. QED
  BY <1>1, Invariance, PTL

\* A lock is held by an open publication transaction of its dataset, and by nobody
\* who waits: neither a failure nor a crash leaves a lock behind
\* (pg_advisory_xact_lock), and no two processes wait for each other.
THEOREM LocksAreReleased == Spec => []LocksAreOfTransactions
<1>1. IInv => LocksAreOfTransactions
  BY DEF IInv, LockInv
<1>2. QED
  BY <1>1, Invariance, PTL

\* Every live row belongs to a successful run or to a lost answer.
THEOREM RowsAccountedFor == Spec => []LiveRowsAccountedFor
<1>1. IInv => LiveRowsAccountedFor
  BY DEF IInv, TypeOK, RowsInv, RunInv, LiveRowsAccountedFor
<1>2. QED
  BY <1>1, Invariance, PTL

\* A run is successful exactly if its rows were committed, lost answers apart.
THEOREM StatusMatches == Spec => []StatusMatchesRows
<1>1. IInv => StatusMatchesRows
  BY DEF IInv, TypeOK, RunInv, StatusMatchesRows
<1>2. QED
  BY <1>1, Invariance, PTL

-----------------------------------------------------------------------------
(* What a step may never do.                                                *)

\* Outside the two steps that change it, import_runs only grows.
LEMMA StatusChanges ==
    ASSUME IInv, [Next]_vars, NEW r \in Run, run[r].status # "absent", run'[r] # run[r]
    PROVE  \E p \in Importer :
              /\ own[p] = r
              /\ pc[p] \in {"marking", "failing"}
<1> USE DEF IInv, TypeOK
<1>1. ASSUME NEW p \in Importer, Record(p)
      PROVE  FALSE
  BY <1>1 DEF Record
<1>2. ASSUME NEW p \in Importer, own[p] # r
      PROVE  ~Commit(p) /\ ~CommitUnacknowledged(p) /\ ~MarkFailed(p)
  BY <1>2 DEF Commit, CommitUnacknowledged, Publish, MarkFailed, SetStatus, ProcessInv, Recorded
<1>3. ASSUME NEW p \in Importer, Commit(p) \/ CommitUnacknowledged(p) \/ MarkFailed(p)
      PROVE  pc[p] \in {"marking", "failing"}
  BY <1>3 DEF Commit, CommitUnacknowledged, Publish, MarkFailed
<1> HIDE DEF IInv, TypeOK
<1>4. \/ \E p \in Importer : Record(p) \/ Commit(p) \/ CommitUnacknowledged(p) \/ MarkFailed(p)
      \/ run' = run
  BY DEF Next, Proceed, Disturb, ReplaceFiles, Discover, Skip, NotSucceededYet,
         PrerequisiteMissing, Parse, Clear, ParseAndCopy, RefuseDuplicate, Fail,
         Rollback, Crash, AcquireLock, database, vars
<1>5. QED
  BY <1>1, <1>2, <1>3, <1>4

\* A failed run stays failed, and a success that was acknowledged stays one.
THEOREM AuditFinal == Spec => AuditIsFinal
<1>1. ASSUME IInv, [Next]_vars, NEW r \in Run
      PROVE  /\ run[r].status = "failed" => run'[r] = run[r]
             /\ run[r].status = "succeeded" /\ r \notin unacked => run'[r] = run[r]
  <2> SUFFICES ASSUME run'[r] # run[r], run[r].status # "absent"
               PROVE  run[r].status = "running" \/ (r \in unacked /\ run[r].status # "failed")
    OBVIOUS
  <2>1. PICK p \in Importer : own[p] = r /\ pc[p] \in {"marking", "failing"}
    BY <1>1, StatusChanges
  <2>2. OwnsRun(p, r)
    BY <1>1, <2>1, ImportConstants DEF IInv, OwnerInv
  <2>3. QED
    BY <2>2 DEF OwnsRun
<1>2. IInv /\ [Next]_vars =>
          [\A r \in Run :
              /\ run[r].status = "failed" => run'[r] = run[r]
              /\ run[r].status = "succeeded" /\ r \notin unacked => run'[r] = run[r]]_vars
  BY <1>1
<1>3. QED
  BY <1>2, Invariance, PTL DEF Spec, AuditIsFinal

-----------------------------------------------------------------------------
(* The importers implement the ledger.                                      *)

\* The ledger's view of import_runs and of the committed rows.
EntryOf(r) == [run |-> r, dataset |-> run[r].dataset, sha256 |-> run[r].sha256]
Successes == {EntryOf(r) : r \in {q \in Run : run[q].status = "succeeded"}}
Committed == {r \in Run : published[r] # None}

\* The empty database is the initial ledger.
LEMMA InitImplements == Init => Ledger!Init
BY ImportConstants DEF Init, Ledger!Init

\* A publication is the ledger's Accept.
LEMMA PublishImplements ==
    ASSUME IInv, TypeOK', NEW p \in Importer, Publish(p)
    PROVE  Ledger!Next
<1>1. PICK d \in Dataset, r \in Run : Replaces(p, d, r)
  BY PublishReplaces
<1>2. hash[p] \in Bundle
  BY DEF IInv, ProcessInv, Publish
<1>3. r \notin Committed /\ \A s \in Successes : ~(s.dataset = d /\ s.sha256 = hash[p])
  <2>1. r \notin Committed /\ d = ds[p]
    BY <1>1 DEF Replaces, Committed
  <2>2. ~Succeeded(ds[p], hash[p])
    BY DEF Publish
  <2>3. ASSUME NEW q \in Run, run[q].status = "succeeded"
        PROVE  ~(run[q].dataset = d /\ run[q].sha256 = hash[p])
    BY <2>1, <2>2, <2>3 DEF IInv, TypeOK, Succeeded
  <2>4. QED
    BY <2>1, <2>3 DEF Successes, EntryOf
<1>4. rows' = [rows EXCEPT ![d] = {r}]
  BY <1>1 DEF Replaces, IInv, TypeOK
<1>5. Committed' = Committed \union {r}
  BY <1>1, ImportConstants DEF Replaces, Committed
<1>6. Successes' = Successes \union {[run |-> r, dataset |-> d, sha256 |-> hash[p]]}
  <2>1. \A q \in Run \ {r} : run'[q] = run[q]
    BY <1>1 DEF Replaces
  <2>2. run'[r] = [dataset |-> d, sha256 |-> hash[p], status |-> "succeeded"]
        /\ run[r].status = "running"
    BY <1>1 DEF Replaces
  <2>3. \A q \in Run : q # r => (EntryOf(q)' = EntryOf(q)
                                  /\ run'[q].status = run[q].status)
    BY <2>1 DEF EntryOf
  <2>4. EntryOf(r)' = [run |-> r, dataset |-> d, sha256 |-> hash[p]]
    BY <2>2 DEF EntryOf
  <2>5. run'[r].status = "succeeded" /\ run[r].status # "succeeded"
    BY <2>2
  <2>6. QED
    BY <2>3, <2>4, <2>5 DEF Successes
<1>7. Ledger!Accept(r, d, hash[p])
  BY <1>3, <1>4, <1>5, <1>6 DEF Ledger!Accept, Successes, Committed, EntryOf
<1>8. QED
  BY <1>1, <1>2, <1>7 DEF Ledger!Next, Ledger!Accept

\* Marking a run failed changes nothing in the ledger, or disowns a success.
LEMMA MarkFailedImplements ==
    ASSUME IInv, NEW p \in Importer, MarkFailed(p)
    PROVE  Ledger!Next \/ UNCHANGED Ledger!ledgerVars
<1> DEFINE r == own[p]
<1>1. r \in Run /\ OwnsRun(p, r)
  BY DEF IInv, TypeOK, ProcessInv, OwnerInv, Recorded, MarkFailed
<1>2. run'[r].status = "failed" /\ \A q \in Run \ {r} : run'[q] = run[q]
  <2>1. SetStatus(r, "failed") /\ run \in [Run -> RunRow]
    BY DEF MarkFailed, IInv, TypeOK
  <2>2. /\ run'[r] = [dataset |-> run[r].dataset, sha256 |-> run[r].sha256,
                      status |-> "failed"]
        /\ \A q \in Run \ {r} : run'[q] = run[q]
    BY <1>1, <2>1, StatusOnly
  <2>3. QED
    BY <2>2
<1>3. UNCHANGED <<rows, published>> /\ Committed' = Committed
  BY DEF MarkFailed, history, Committed
<1>4. \A q \in Run : q # r => (EntryOf(q)' = EntryOf(q) /\ run'[q].status = run[q].status)
  BY <1>2 DEF EntryOf
<1>5. Successes' = {EntryOf(q) : q \in {s \in Run : s # r /\ run[s].status = "succeeded"}}
  BY <1>2, <1>4 DEF Successes
<1>6. CASE run[r].status = "running"
  <2>1. Successes' = Successes
    BY <1>5, <1>6 DEF Successes
  <2>2. QED
    BY <1>3, <2>1 DEF Ledger!ledgerVars, Successes, Committed, EntryOf
<1>7. CASE run[r].status = "succeeded"
  <2>1. \A q \in Run : EntryOf(q) = EntryOf(r) => q = r
    BY DEF EntryOf
  <2>2. Successes' = Successes \ {EntryOf(r)} /\ EntryOf(r) \in Successes
    BY <1>1, <1>5, <1>7, <2>1 DEF Successes
  <2>3. Ledger!Disown(EntryOf(r))
    BY <1>3, <2>2 DEF Ledger!Disown, Successes, Committed, EntryOf
  <2>4. Successes = {[run |-> x, dataset |-> run[x].dataset, sha256 |-> run[x].sha256] :
                        x \in {q \in Run : run[q].status = "succeeded"}}
    BY DEF Successes, EntryOf
  <2> DEFINE e == EntryOf(r)
  <2>5. e \in Successes /\ Ledger!Disown(e)
    BY <2>2, <2>3
  <2> HIDE DEF e, r
  <2>6. QED
    BY <2>4, <2>5 DEF Ledger!Next, Ledger!Disown
<1>8. QED
  BY <1>1, <1>6, <1>7 DEF OwnsRun

\* Recording a run adds a running row, which the ledger does not see.
LEMMA RecordImplements ==
    ASSUME IInv, NEW p \in Importer, Record(p)
    PROVE  UNCHANGED Ledger!ledgerVars
<1>1. PICK r \in Run : run[r] = Absent
        /\ run' = [run EXCEPT ![r] = [dataset |-> ds[p], sha256 |-> hash[p],
                                      status |-> "running"]]
  BY DEF Record
<1>2. /\ run'[r].status # "succeeded" /\ run[r].status # "succeeded"
      /\ \A q \in Run \ {r} : run'[q] = run[q]
  BY <1>1 DEF IInv, TypeOK
<1>3. \A q \in Run : q # r => (EntryOf(q)' = EntryOf(q) /\ run'[q].status = run[q].status)
  BY <1>2 DEF EntryOf
<1>4. Successes' = Successes
  BY <1>2, <1>3 DEF Successes
<1>5. UNCHANGED <<rows, published>>
  BY DEF Record, history
<1>6. QED
  BY <1>4, <1>5 DEF Ledger!ledgerVars, Successes, EntryOf

\* The importers implement the ledger: every publication is one indivisible
\* step that replaces the rows of a dataset and records a success.
THEOREM LedgerImplemented == Spec => ImplementsLedger
<1>1. IInv /\ IInv' /\ [Next]_vars => [Ledger!Next]_(Ledger!ledgerVars)
  <2> SUFFICES ASSUME IInv, TypeOK', [Next]_vars
               PROVE  Ledger!Next \/ UNCHANGED Ledger!ledgerVars
    BY DEF IInv
  <2>1. ASSUME NEW p \in Importer, Commit(p) \/ CommitUnacknowledged(p)
        PROVE  Ledger!Next
    BY <2>1, PublishImplements DEF Commit, CommitUnacknowledged
  <2>2. CASE UNCHANGED <<rows, run, published>>
    BY <2>2 DEF Ledger!ledgerVars
  <2>3. \/ \E p \in Importer : Record(p) \/ Commit(p) \/ CommitUnacknowledged(p) \/ MarkFailed(p)
        \/ UNCHANGED <<rows, run, published>>
    BY DEF Next, Proceed, Disturb, ReplaceFiles, Discover, Skip, NotSucceededYet,
           PrerequisiteMissing, Parse, Clear, ParseAndCopy, RefuseDuplicate, Fail,
           Rollback, Crash, AcquireLock, database, history, vars
  <2>4. QED
    BY <2>1, <2>2, <2>3, RecordImplements, MarkFailedImplements
<1>2. QED
  BY <1>1, InitImplements, Invariance, PTL DEF Spec, ImplementsLedger, Ledger!Spec
=============================================================================
