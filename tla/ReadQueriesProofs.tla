------------------------- MODULE ReadQueriesProofs -------------------------
(***************************************************************************)
(* Proofs about ReadQueries, for any calls, keys and limits.               *)
(***************************************************************************)
EXTENDS ReadQueries, FiniteSetTheorems, TLAPS

-----------------------------------------------------------------------------
(* The inductive invariant.                                                *)

Running == {"loading", "loaded", "settled"}

Types ==
    /\ served \in Nat /\ noticed \in 0 .. served
    /\ open \in BOOLEAN /\ generation \in Nat
    /\ cache \in [Key -> Outcome \union {None}]
    /\ fillers \subseteq Call
    /\ pending \in [Key -> Call \union {None}]
    /\ jobs \in [Call -> JobType]
    /\ calls \in [Call -> CallType]
    /\ aborted \subseteq Call

Finite(s, bound) == IsFiniteSet(s) /\ Cardinality(s) <= bound

Numbers ==
    /\ Finite(Cached, MaxCached)
    /\ Finite(PendingKeys, MaxPending)
    /\ \A j \in Call : Finite(Consumers(j), MaxConsumers)

\* A job under #pending is of the present session, runs, and has somebody who
\* waits for it.
KeySound(k) ==
    /\ jobs[pending[k]].key = k
    /\ jobs[pending[k]].stage \in Running
    /\ ~jobs[pending[k]].aborted
    /\ Current(jobs[pending[k]].generation)
    /\ Consumers(pending[k]) # {}
    /\ jobs[pending[k]].outcome.code # "cancelled"

\* Every other job that runs has been aborted.
JobSound(j) ==
    /\ jobs[j].stage \in Running => jobs[j].key \in Key
    /\ jobs[j].stage \in Running /\ ~jobs[j].aborted => pending[jobs[j].key] = j
    /\ jobs[j].stage = "closed" => ~jobs[j].aborted
    /\ jobs[j].stage \in {"loaded", "settled"} /\ IsValue(jobs[j].outcome) =>
          jobs[j].outcome.by = jobs[j].generation

\* Who waits has a job under way in his session, or its outcome.
Served(c) ==
    \/ /\ pending[calls[c].key] = calls[c].job
       /\ calls[c].generation = jobs[calls[c].job].generation
    \/ /\ jobs[calls[c].job].stage = "closed"
       /\ jobs[calls[c].job].outcome.code # "cancelled"
       /\ IsValue(jobs[calls[c].job].outcome) =>
            jobs[calls[c].job].outcome.by = calls[c].generation

CallSound(c) ==
    /\ calls[c].stage = "new" => jobs[c].stage = "none"
    /\ calls[c].stage = "copying" =>
          IsValue(calls[c].outcome) /\ calls[c].outcome.by = calls[c].generation
    /\ calls[c].stage = "waiting" =>
          calls[c].job \in Call /\ calls[c].key \in Key /\ Served(c)

CacheSound ==
    \A k \in Cached :
        /\ IsValue(cache[k])
        /\ cache[k].of >= noticed
        /\ cache[k].by = generation

\* What may still fill the cache was begun after the last change was noticed.
FillersFresh ==
    \A j \in fillers :
        /\ jobs[j].stage = "loading" => jobs[j].since >= noticed
        /\ jobs[j].stage = "loaded" /\ IsValue(jobs[j].outcome) =>
              jobs[j].outcome.of >= noticed

IInv ==
    /\ Types
    /\ Numbers
    /\ \A k \in PendingKeys : KeySound(k)
    /\ \A j \in Call : JobSound(j)
    /\ \A c \in Call : CallSound(c)
    /\ CacheSound
    /\ FillersFresh

-----------------------------------------------------------------------------
(* Facts that several steps need.                                          *)

\* The members of a small set keep to its bound (#remember's loop, the limits
\* of #shared).
LEMMA SubsetIsSmall ==
    ASSUME NEW s, NEW t \in SUBSET s, NEW bound \in Nat, Finite(s, bound)
    PROVE  Finite(t, bound)
BY FS_Subset, FS_CardinalityType DEF Finite

\* One more, where there are fewer than the bound, keeps to it (the limits of
\* #shared).
LEMMA OneMoreFits ==
    ASSUME NEW s, NEW x, NEW bound \in Nat, Finite(s, bound), ~(Cardinality(s) >= bound)
    PROVE  Finite(s \union {x}, bound)
<1> DEFINE n == Cardinality(s)
           m == Cardinality(s \union {x})
<1>1. IsFiniteSet(s) /\ n \in Nat
  BY ONLY FS_CardinalityType, Finite(s, bound) DEF Finite
<1>2. IsFiniteSet(s \union {x}) /\ (m = n \/ m = n + 1)
  BY ONLY <1>1, FS_AddElement
<1>3. ~(n >= bound)
  OBVIOUS
<1>4. Finite(s \union {x}, bound) <=> IsFiniteSet(s \union {x}) /\ m <= bound
  BY DEF Finite
<1> HIDE DEF n, m
<1>5. m <= bound
  BY <1>1, <1>2, <1>3
<1> QED
  BY <1>2, <1>4, <1>5

\* Values and errors are outcomes.
LEMMA OutcomesTyped ==
    /\ \A of, by \in Nat : Value(of, by) \in Outcome /\ IsValue(Value(of, by))
                            /\ Value(of, by).of = of /\ Value(of, by).by = by
                            /\ Value(of, by).code # "cancelled"
    /\ \A code \in Code : Error(code) \in Outcome /\ Error(code).code = code
    /\ NoOutcome \in Outcome /\ NoOutcome.code = "none"
<1>1. \A of, by \in Nat : Value(of, by) \in Outcome
  BY DEF Value, Outcome, Code
<1>2. \A code \in Code : Error(code) \in Outcome
  BY DEF Error, Outcome
<1> QED
  BY <1>1, <1>2 DEF Value, Error, NoOutcome, IsValue, Code

\* A job that runs and was not aborted is the one under its key, so it is of the
\* present session.
LEMMA LiveIsPending ==
    ASSUME IInv, NEW j \in Call, jobs[j].stage \in Running, ~jobs[j].aborted
    PROVE  /\ jobs[j].key \in PendingKeys /\ pending[jobs[j].key] = j
           /\ Current(jobs[j].generation)
           /\ Consumers(j) # {} /\ jobs[j].outcome.code # "cancelled"
<1>1. jobs[j].key \in Key /\ pending[jobs[j].key] = j
  BY DEF IInv, JobSound
<1>2. jobs[j].key \in PendingKeys
  BY <1>1, QueriesAssumption DEF PendingKeys
<1> QED
  BY <1>1, <1>2 DEF IInv, KeySound

\* What the transport's answer makes of a job, and of no other.
LEMMA LoadedIs ==
    ASSUME Types, NEW j \in Call, NEW answer \in Outcome, jobs' = Loaded(j, answer)
    PROVE  /\ jobs' \in [Call -> JobType]
           /\ jobs'[j].stage = "loaded" /\ jobs'[j].outcome = answer
           /\ jobs'[j].key = jobs[j].key /\ jobs'[j].generation = jobs[j].generation
           /\ jobs'[j].aborted = jobs[j].aborted
           /\ \A i \in Call \ {j} : jobs'[i] = jobs[i]
<1>1. jobs \in [Call -> JobType] /\ jobs[j] \in JobType
  BY DEF Types
<1>2. jobs' = [jobs EXCEPT ![j] = [jobs[j] EXCEPT !.stage = "loaded", !.outcome = answer, !.since = 0]]
  BY <1>1 DEF Loaded
<1>3. [jobs[j] EXCEPT !.stage = "loaded", !.outcome = answer, !.since = 0] \in JobType
  BY <1>1 DEF JobType
<1> QED
  BY <1>1, <1>2, <1>3 DEF JobType

\* A waiter's job is under #pending or has closed, whatever the step did to the
\* jobs of others.
LEMMA OthersServed ==
    ASSUME NEW c \in Call, CallSound(c), calls[c].stage = "waiting",
           calls'[c] = calls[c],
           pending'[calls[c].key] = pending[calls[c].key],
           jobs'[calls[c].job] = jobs[calls[c].job]
    PROVE  Served(c)'
BY DEF CallSound, Served, IsValue

-----------------------------------------------------------------------------
(* Steps of a job.                                                         *)

\* An answer keeps the invariant: it is of the job's session, no older than the
\* job, and "cancelled" only for an aborted one.
LEMMA LoadKeeps ==
    ASSUME IInv, NEW j \in Call, Load(j)
    PROVE  IInv'
<1>1. PICK answer \in Answers(j) : jobs' = Loaded(j, answer)
  BY DEF Load
<1>2. Types /\ jobs[j] \in JobType /\ jobs[j].stage = "loading" /\ jobs[j].stage \in Running
  BY DEF IInv, Types, Load, Running
<1>3. answer \in Outcome
  BY <1>1, <1>2, OutcomesTyped DEF Answers, Types, JobType, Code
<1>4. /\ ~jobs[j].aborted => answer.code # "cancelled"
      /\ IsValue(answer) => answer.by = jobs[j].generation /\ answer.of >= jobs[j].since
  <2>1. CASE jobs[j].aborted
    BY <1>1, <2>1, OutcomesTyped DEF Answers, Error, IsValue
  <2>2. CASE ~jobs[j].aborted
    <3>1. Current(jobs[j].generation)
      BY <2>2, <1>2, LiveIsPending DEF Running
    <3> QED
      BY <1>1, <1>2, <2>2, <3>1, OutcomesTyped DEF Answers, Types, JobType, Error, Value, IsValue
  <2> QED
    BY <2>1, <2>2
<1>5. /\ jobs' \in [Call -> JobType]
      /\ jobs'[j].stage = "loaded" /\ jobs'[j].outcome = answer
      /\ jobs'[j].key = jobs[j].key /\ jobs'[j].generation = jobs[j].generation
      /\ jobs'[j].aborted = jobs[j].aborted
      /\ \A i \in Call \ {j} : jobs'[i] = jobs[i]
  BY <1>1, <1>2, <1>3, LoadedIs
<1>6. UNCHANGED <<served, open, generation, cache, fillers, pending, calls, aborted, noticed>>
  BY DEF Load, session
<1>7. Consumers(j)' = Consumers(j) /\ \A i \in Call : Consumers(i)' = Consumers(i)
  BY <1>6 DEF Consumers
<1>8. Types' /\ Numbers' /\ CacheSound'
  BY <1>5, <1>6, <1>7 DEF IInv, Types, Numbers, CacheSound, Cached, PendingKeys
<1>9. \A k \in PendingKeys' : KeySound(k)'
  BY <1>2, <1>4, <1>5, <1>6, <1>7 DEF IInv, KeySound, PendingKeys, Types, Current, Running
<1>10. \A i \in Call : JobSound(i)'
  BY <1>2, <1>4, <1>5, <1>6 DEF IInv, JobSound, Running
<1>11. \A c \in Call : CallSound(c)'
  BY <1>2, <1>5, <1>6 DEF IInv, CallSound, Served, Running
<1>12. FillersFresh'
  <2>1. answer.of \in Nat /\ jobs[j].since \in Nat /\ noticed \in Nat
    BY <1>2, <1>3 DEF JobType, Outcome, Types
  <2>2. j \in fillers /\ IsValue(answer) => answer.of >= noticed
    BY <2>1, <1>2, <1>4 DEF IInv, FillersFresh
  <2> QED
    BY <2>2, <1>2, <1>5, <1>6 DEF IInv, FillersFresh, Types
<1> QED
  BY <1>8, <1>9, <1>10, <1>11, <1>12 DEF IInv

\* A collection that notices a change keeps it: the cache it empties can be filled
\* by no job that runs (#cacheVersion).
LEMMA NoticeChangeKeeps ==
    ASSUME IInv, NEW j \in Call, NoticeChange(j)
    PROVE  IInv'
<1> DEFINE answer == Value(served, jobs[j].generation)
<1>1. jobs' = Loaded(j, answer)
  BY DEF NoticeChange
<1>2. Types /\ jobs[j] \in JobType /\ jobs[j].stage = "loading" /\ jobs[j].stage \in Running
  BY DEF IInv, Types, NoticeChange, Running
<1>3. answer \in Outcome /\ IsValue(answer) /\ answer.by = jobs[j].generation
      /\ answer.code # "cancelled"
  BY <1>2, OutcomesTyped DEF Types, JobType
<1> HIDE DEF answer
<1>5. /\ jobs' \in [Call -> JobType]
      /\ jobs'[j].stage = "loaded" /\ jobs'[j].outcome = answer
      /\ jobs'[j].key = jobs[j].key /\ jobs'[j].generation = jobs[j].generation
      /\ jobs'[j].aborted = jobs[j].aborted
      /\ \A i \in Call \ {j} : jobs'[i] = jobs[i]
  BY <1>1, <1>2, <1>3, LoadedIs
<1>6. UNCHANGED <<served, open, generation, pending, calls, aborted>>
  BY DEF NoticeChange, session
<1>7. \A i \in Call : Consumers(i)' = Consumers(i)
  BY <1>6 DEF Consumers
<1>8. cache' = [k \in Key |-> None] /\ fillers' = {} /\ noticed' = served /\ Cached' = {}
  BY DEF NoticeChange, Forget, Cached
<1>9. Types' /\ CacheSound' /\ FillersFresh'
  BY <1>2, <1>5, <1>6, <1>8 DEF Types, CacheSound, FillersFresh
<1>10. Numbers'
  <2>1. Finite(Cached', MaxCached)
    BY <1>8, FS_EmptySet, QueriesAssumption DEF Finite
  <2> QED
    BY <2>1, <1>6, <1>7 DEF IInv, Numbers, PendingKeys
<1>11. \A k \in PendingKeys' : KeySound(k)'
  BY <1>2, <1>3, <1>5, <1>6, <1>7 DEF IInv, KeySound, PendingKeys, Types, Current, Running
<1>12. \A i \in Call : JobSound(i)'
  BY <1>2, <1>3, <1>5, <1>6 DEF IInv, JobSound, Running
<1>13. \A c \in Call : CallSound(c)'
  BY <1>2, <1>5, <1>6 DEF IInv, CallSound, Served, Running
<1> QED
  BY <1>9, <1>10, <1>11, <1>12, <1>13 DEF IInv

\* What .then and .catch make of an answer keeps it: a job that nobody aborted
\* keeps its answer, and a job that fills the cache began after the last change.
LEMMA SettleKeeps ==
    ASSUME IInv, NEW j \in Call, Settle(j)
    PROVE  IInv'
<1>1. Types /\ jobs[j] \in JobType /\ jobs[j].stage = "loaded" /\ jobs[j].stage \in Running
  BY DEF IInv, Types, Settle, Running
<1>2. Settlement(j) \in Outcome /\ (IsValue(Settlement(j)) => Settlement(j) = jobs[j].outcome)
  BY <1>1, OutcomesTyped DEF Settlement, JobType, Code, IsValue
<1>3. ~jobs[j].aborted => Settlement(j) = jobs[j].outcome /\ Settlement(j).code # "cancelled"
  BY <1>1, LiveIsPending DEF Settlement
<1>4. /\ jobs' \in [Call -> JobType]
      /\ jobs'[j].stage = "settled" /\ jobs'[j].outcome = Settlement(j)
      /\ jobs'[j].key = jobs[j].key /\ jobs'[j].generation = jobs[j].generation
      /\ jobs'[j].aborted = jobs[j].aborted
      /\ \A i \in Call \ {j} : jobs'[i] = jobs[i]
  <2>1. jobs' = [jobs EXCEPT ![j] = [jobs[j] EXCEPT !.stage = "settled", !.outcome = Settlement(j)]]
    BY <1>1 DEF Settle, Types
  <2>2. [jobs[j] EXCEPT !.stage = "settled", !.outcome = Settlement(j)] \in JobType
    BY <1>1, <1>2 DEF JobType
  <2> QED
    BY <1>1, <2>1, <2>2 DEF Types, JobType
<1>5. UNCHANGED <<served, open, generation, fillers, pending, calls, aborted, noticed>>
  BY DEF Settle, session
<1>6. \A i \in Call : Consumers(i)' = Consumers(i)
  BY <1>5 DEF Consumers
<1>7. /\ cache' \in [Key -> Outcome \union {None}]
      /\ Finite(Cached', MaxCached) /\ CacheSound'
  <2>1. CASE UNCHANGED cache
    BY <1>1, <1>5, <2>1 DEF IInv, Types, Numbers, CacheSound, Cached
  <2>2. CASE MayRemember(j) /\ Remember(jobs[j].key, jobs[j].outcome)
    <3> DEFINE k == jobs[j].key
               value == jobs[j].outcome
    <3>1. IsValue(value) /\ value \in Outcome /\ j \in fillers /\ k \in Key
          /\ value.by = jobs[j].generation
      BY <1>1, <1>2, <2>2 DEF MayRemember, IInv, JobSound, JobType
    <3>2. Current(jobs[j].generation)
      BY <2>2, OutcomesTyped DEF MayRemember, Settlement, IsValue, Code
    <3>3. value.of >= noticed
      BY <1>1, <3>1 DEF IInv, FillersFresh
    <3>4. PICK evicted \in SUBSET (Cached \ {k}) :
             /\ Cardinality((Cached \ evicted) \union {k}) <= MaxCached
             /\ cache' = [q \in Key |-> IF q = k THEN value
                                        ELSE IF q \in evicted THEN None ELSE cache[q]]
      BY <2>2 DEF Remember
    <3> HIDE DEF k, value
    <3>5. Cached' \subseteq (Cached \ evicted) \union {k}
      BY <3>4 DEF Cached
    <3>6. Finite((Cached \ evicted) \union {k}, MaxCached)
      <4>1. IsFiniteSet(Cached \ evicted)
        BY FS_Subset DEF IInv, Numbers, Finite
      <4> QED
        BY <3>4, <4>1, FS_AddElement DEF Finite
    <3>7. Finite(Cached', MaxCached)
      BY <3>5, <3>6, SubsetIsSmall, QueriesAssumption
    <3>8. cache' \in [Key -> Outcome \union {None}]
      BY <1>1, <3>1, <3>4 DEF Types
    <3>9. CacheSound'
      <4> SUFFICES ASSUME NEW q \in Cached'
                   PROVE  IsValue(cache'[q]) /\ cache'[q].of >= noticed'
                          /\ cache'[q].by = generation'
        BY DEF CacheSound, IsValue
      <4>1. CASE q = k
        BY <1>5, <3>1, <3>2, <3>3, <3>4, <4>1 DEF Current, Cached
      <4>2. CASE q # k
        BY <1>5, <3>4, <4>2 DEF Cached, IInv, CacheSound
      <4> QED
        BY <4>1, <4>2
    <3> QED
      BY <3>7, <3>8, <3>9
  <2> QED
    BY <2>1, <2>2 DEF Settle
<1>8. Types' /\ Numbers'
  BY <1>1, <1>4, <1>5, <1>6, <1>7 DEF IInv, Types, Numbers, PendingKeys
<1>9. \A k \in PendingKeys' : KeySound(k)'
  BY <1>1, <1>3, <1>4, <1>5, <1>6 DEF IInv, KeySound, PendingKeys, Types, Current, Running
<1>10. \A i \in Call : JobSound(i)'
  BY <1>1, <1>2, <1>4, <1>5 DEF IInv, JobSound, Running
<1>11. \A c \in Call : CallSound(c)'
  BY <1>1, <1>4, <1>5 DEF IInv, CallSound, Served, Running
<1>12. FillersFresh'
  BY <1>1, <1>4, <1>5 DEF IInv, FillersFresh, Types
<1> QED
  BY <1>7, <1>8, <1>9, <1>10, <1>11, <1>12 DEF IInv

\* A job that closes keeps it: its consumers find its outcome instead (.finally).
LEMMA CloseKeeps ==
    ASSUME IInv, NEW j \in Call, Close(j)
    PROVE  IInv'
<1> DEFINE k == jobs[j].key
<1>1. Types /\ jobs[j] \in JobType /\ jobs[j].stage = "settled" /\ jobs[j].stage \in Running
      /\ k \in Key
  BY DEF IInv, Types, Close, Running, JobSound
<1>2. /\ jobs' \in [Call -> JobType]
      /\ jobs'[j].stage = "closed" /\ jobs'[j].outcome = jobs[j].outcome
      /\ ~jobs'[j].aborted
      /\ \A i \in Call \ {j} : jobs'[i] = jobs[i]
  <2>1. [NoJob EXCEPT !.stage = "closed", !.outcome = jobs[j].outcome] \in JobType
    BY <1>1, OutcomesTyped DEF NoJob, JobType
  <2> QED
    BY <1>1, <2>1 DEF Close, Types, NoJob
<1>3. UNCHANGED <<served, open, generation, cache, fillers, calls, aborted, noticed>>
  BY DEF Close, session
<1>4. /\ pending' \in [Key -> Call \union {None}]
      /\ pending'[k] # j
      /\ \A q \in Key : pending'[q] # pending[q] => q = k /\ pending[q] = j /\ pending'[q] = None
  BY <1>1, QueriesAssumption DEF Close, Types
<1> HIDE DEF k
<1>5. PendingKeys' \subseteq PendingKeys /\ \A q \in PendingKeys' : pending'[q] = pending[q] /\ pending[q] # j
  <2>1. \A q \in PendingKeys' : q \in Key /\ pending'[q] # None
    BY DEF PendingKeys
  <2>2. \A q \in PendingKeys' : pending'[q] = pending[q] /\ q \in PendingKeys
    BY <1>4, <2>1 DEF PendingKeys
  <2>3. \A q \in PendingKeys : pending[q] = j => q = k
    BY DEF IInv, KeySound, k
  <2> QED
    BY <1>4, <2>2, <2>3
<1>6. \A i \in Call : Consumers(i)' = Consumers(i)
  BY <1>3 DEF Consumers
<1>7. Types'
  BY <1>1, <1>2, <1>3, <1>4 DEF Types
<1>8. Numbers'
  <2>1. Finite(PendingKeys', MaxPending)
    BY <1>5, SubsetIsSmall, QueriesAssumption DEF IInv, Numbers
  <2> QED
    BY <2>1, <1>3, <1>6 DEF IInv, Numbers, Cached
<1>9. \A q \in PendingKeys' : KeySound(q)'
  <2> SUFFICES ASSUME NEW q \in PendingKeys'
               PROVE  KeySound(q)'
    OBVIOUS
  <2>1. pending'[q] = pending[q] /\ pending[q] \in Call \ {j} /\ q \in PendingKeys
    BY <1>1, <1>5 DEF PendingKeys, Types
  <2>2. jobs'[pending[q]] = jobs[pending[q]] /\ Consumers(pending[q])' = Consumers(pending[q])
    BY <1>2, <1>6, <2>1
  <2> QED
    BY <1>3, <2>1, <2>2 DEF IInv, KeySound, Current, Consumers
<1>10. \A i \in Call : JobSound(i)'
  BY <1>1, <1>2, <1>4 DEF IInv, JobSound, Running, IsValue
<1>11. \A c \in Call : CallSound(c)'
  <2> SUFFICES ASSUME NEW c \in Call
               PROVE  CallSound(c)'
    OBVIOUS
  <2>1. calls[c].stage = "new" => jobs'[c].stage = "none"
    BY <1>1, <1>2 DEF IInv, CallSound
  <2>2. CASE calls[c].stage = "waiting" /\ calls[c].job = j
    <3>1. pending[calls[c].key] = j /\ calls[c].key \in Key
          /\ calls[c].generation = jobs[j].generation
      BY <1>1, <2>2 DEF IInv, CallSound, Served
    <3>2. calls[c].key \in PendingKeys
      BY <3>1, QueriesAssumption DEF PendingKeys
    <3>3. jobs[j].outcome.code # "cancelled"
          /\ (IsValue(jobs[j].outcome) => jobs[j].outcome.by = jobs[j].generation)
      BY <1>1, <3>1, <3>2 DEF IInv, KeySound, JobSound
    <3> QED
      BY <1>2, <1>3, <2>2, <3>1, <3>3 DEF CallSound, Served, IsValue
  <2>3. CASE calls[c].stage = "waiting" /\ calls[c].job # j
    <3>1. calls[c].job \in Call \ {j} /\ calls[c].key \in Key
      BY <2>3 DEF IInv, CallSound
    <3>2. jobs'[calls[c].job] = jobs[calls[c].job]
          /\ (pending[calls[c].key] = calls[c].job => pending'[calls[c].key] = pending[calls[c].key])
      BY <1>2, <1>4, <2>3, <3>1
    <3> QED
      BY <1>3, <2>3, <3>1, <3>2 DEF IInv, CallSound, Served, IsValue
  <2>4. CASE calls[c].stage # "waiting"
    BY <1>3, <2>1, <2>4 DEF IInv, CallSound, IsValue
  <2> QED
    BY <2>2, <2>3, <2>4
<1>12. CacheSound' /\ FillersFresh'
  BY <1>1, <1>2, <1>3 DEF IInv, CacheSound, Cached, FillersFresh, Types
<1> QED
  BY <1>7, <1>8, <1>9, <1>10, <1>11, <1>12 DEF IInv

-----------------------------------------------------------------------------
(* Steps of a call.                                                        *)

\* What the calls' steps do to the cache, which is nothing or to drop an entry.
CacheKept ==
    /\ cache' \in [Key -> Outcome \union {None}]
    /\ Finite(Cached', MaxCached)
    /\ CacheSound'

\* A cache that stays, or loses the entry that is asked for, is as sound as it was.
LEMMA DropKeeps ==
    ASSUME IInv, UNCHANGED <<noticed, generation>>,
           UNCHANGED cache \/ \E k \in Key : cache' = [cache EXCEPT ![k] = None]
    PROVE  CacheKept
<1>1. CASE UNCHANGED cache
  BY <1>1 DEF IInv, Types, Numbers, CacheSound, Cached, CacheKept
<1>2. CASE \E k \in Key : cache' = [cache EXCEPT ![k] = None]
  <2>1. PICK k \in Key : cache' = [cache EXCEPT ![k] = None]
    BY <1>2
  <2>2. cache' \in [Key -> Outcome \union {None}]
    BY <2>1 DEF IInv, Types
  <2>3. Cached' \subseteq Cached /\ \A q \in Cached' : cache'[q] = cache[q]
    BY <2>1 DEF IInv, Types, Cached
  <2>4. Finite(Cached', MaxCached)
    BY <2>3, SubsetIsSmall, QueriesAssumption DEF IInv, Numbers
  <2>5. CacheSound'
    BY <2>3 DEF IInv, CacheSound, IsValue
  <2> QED
    BY <2>2, <2>4, <2>5 DEF CacheKept
<1> QED
  BY <1>1, <1>2

\* What becomes of a call that waits for no job under way leaves the jobs their
\* consumers.
LEMMA CallChanges ==
    ASSUME IInv, NEW c \in Call, NEW r \in CallType,
           calls[c].stage = "waiting" => jobs[calls[c].job].stage = "closed",
           calls' = [calls EXCEPT ![c] = r],
           r.stage \in {"copying", "clearing", "done"},
           r.stage = "copying" => IsValue(r.outcome) /\ r.outcome.by = r.generation,
           UNCHANGED <<served, open, generation, fillers, pending, jobs, aborted, noticed>>,
           CacheKept
    PROVE  IInv'
<1>1. Types
  BY DEF IInv
<1>2. /\ calls' \in [Call -> CallType] /\ calls'[c] = r
      /\ \A d \in Call \ {c} : calls'[d] = calls[d]
  BY <1>1 DEF Types
<1>3. \A j \in Call : Consumers(j)' = Consumers(j) \ {c}
  BY <1>1, <1>2 DEF Consumers
<1>4. Types'
  BY <1>1, <1>2 DEF Types, CacheKept
<1>5. Numbers'
  <2>1. \A j \in Call : Finite(Consumers(j)', MaxConsumers)
    BY <1>3, SubsetIsSmall, QueriesAssumption DEF IInv, Numbers
  <2> QED
    BY <2>1 DEF IInv, Numbers, PendingKeys, CacheKept
<1>6. \A k \in PendingKeys' : KeySound(k)'
  <2> SUFFICES ASSUME NEW k \in PendingKeys
               PROVE  KeySound(k)'
    BY DEF PendingKeys
  <2>1. KeySound(k) /\ pending[k] \in Call
    BY <1>1 DEF IInv, PendingKeys, Types
  <2>2. c \notin Consumers(pending[k])
    BY <2>1 DEF Consumers, KeySound, Running
  <2>3. Consumers(pending[k])' = Consumers(pending[k])
    BY <1>3, <2>1, <2>2
  <2> QED
    BY <2>1, <2>3 DEF KeySound, Current, Consumers
<1>7. \A j \in Call : JobSound(j)'
  BY DEF IInv, JobSound, IsValue
<1>8. \A d \in Call : CallSound(d)'
  BY <1>2 DEF IInv, CallSound, Served, IsValue
<1>9. FillersFresh' /\ CacheSound'
  BY DEF IInv, FillersFresh, IsValue, CacheKept
<1> QED
  BY <1>4, <1>5, <1>6, <1>7, <1>8, <1>9 DEF IInv

\* A call that ends is a call.
LEMMA EndedTyped ==
    ASSUME NEW o \in Outcome
    PROVE  Ended(o) \in CallType /\ Ended(o).stage = "done" /\ Ended(o).outcome = o
BY OutcomesTyped DEF Ended, NoCall, CallType

\* A call that joins a job under way is of that job's session, and there is room
\* for it (the limit of consumers in #shared).
LEMMA JoinKeeps ==
    ASSUME IInv, NEW c \in Call, NEW k \in PendingKeys, calls[c].stage = "new",
           ~(Cardinality(Consumers(pending[k])) >= MaxConsumers),
           Wait(c, k, pending[k]),
           UNCHANGED <<served, open, generation, fillers, pending, jobs, aborted, noticed>>,
           CacheKept
    PROVE  IInv'
<1> PICK j \in Call : pending[k] = j
  BY DEF IInv, Types, PendingKeys
<1>1. Types /\ k \in Key /\ KeySound(k)
  BY DEF IInv, PendingKeys
<1>2. /\ calls' \in [Call -> CallType]
      /\ calls'[c].stage = "waiting" /\ calls'[c].job = j /\ calls'[c].key = k
      /\ calls'[c].generation = generation
      /\ \A d \in Call \ {c} : calls'[d] = calls[d]
  <2> DEFINE r == [stage |-> "waiting", key |-> k, generation |-> generation,
                   job |-> j, outcome |-> NoOutcome]
  <2>1. r \in CallType
    BY <1>1, OutcomesTyped DEF CallType, Types
  <2>2. calls' = [calls EXCEPT ![c] = r]
    BY <1>1 DEF Wait
  <2> QED
    BY <1>1, <2>1, <2>2 DEF Types
<1>3. Consumers(j)' = Consumers(j) \union {c}
      /\ \A i \in Call \ {j} : Consumers(i)' = Consumers(i)
  BY <1>1, <1>2 DEF Consumers
<1>4. Types'
  BY <1>1, <1>2 DEF Types, CacheKept
<1>5. Numbers'
  <2>1. Finite(Consumers(j)', MaxConsumers)
    BY <1>1, <1>3, OneMoreFits, QueriesAssumption DEF IInv, Numbers
  <2>2. \A i \in Call : Finite(Consumers(i)', MaxConsumers)
    BY <1>3, <2>1 DEF IInv, Numbers
  <2> QED
    BY <2>2 DEF IInv, Numbers, PendingKeys, CacheKept
<1>6. \A q \in PendingKeys' : KeySound(q)'
  <2> SUFFICES ASSUME NEW q \in PendingKeys
               PROVE  KeySound(q)'
    BY DEF PendingKeys
  <2>1. PICK i \in Call : pending[q] = i
    BY <1>1 DEF IInv, PendingKeys, Types
  <2>2. KeySound(q) /\ Consumers(i) # {} /\ pending'[q] = i
    BY <2>1 DEF IInv, KeySound
  <2>3. Consumers(i)' # {}
    BY <1>3, <2>2
  <2> QED
    BY <2>1, <2>2, <2>3 DEF KeySound, Current
<1>7. \A i \in Call : JobSound(i)'
  BY DEF IInv, JobSound, IsValue
<1>8. \A d \in Call : CallSound(d)'
  <2>1. CallSound(c)'
    BY <1>1, <1>2 DEF CallSound, Served, KeySound, Current
  <2>2. \A d \in Call \ {c} : CallSound(d)'
    BY <1>2 DEF IInv, CallSound, Served, IsValue
  <2> QED
    BY <2>1, <2>2
<1>9. FillersFresh' /\ CacheSound'
  BY DEF IInv, FillersFresh, IsValue, CacheKept
<1> QED
  BY <1>4, <1>5, <1>6, <1>7, <1>8, <1>9 DEF IInv

\* A call that creates a job is its first consumer, and there is room for it (the
\* limit of jobs in #shared).
LEMMA CreateKeeps ==
    ASSUME IInv, NEW c \in Call, NEW k \in Key, calls[c].stage = "new", open,
           pending[k] = None,
           ~(Cardinality(PendingKeys) >= MaxPending), Create(c, k),
           UNCHANGED <<served, open, generation, aborted, noticed>>,
           CacheKept
    PROVE  IInv'
<1>1. Types
  BY DEF IInv
<1>2. /\ calls' \in [Call -> CallType]
      /\ calls'[c].stage = "waiting" /\ calls'[c].job = c /\ calls'[c].key = k
      /\ calls'[c].generation = generation
      /\ \A d \in Call \ {c} : calls'[d] = calls[d]
  <2> DEFINE r == [stage |-> "waiting", key |-> k, generation |-> generation,
                   job |-> c, outcome |-> NoOutcome]
  <2>1. r \in CallType
    BY <1>1, OutcomesTyped DEF CallType, Types
  <2>2. calls' = [calls EXCEPT ![c] = r]
    BY DEF Create, Wait
  <2> QED
    BY <1>1, <2>1, <2>2 DEF Types
<1>3. /\ jobs' \in [Call -> JobType]
      /\ jobs'[c].stage = "loading" /\ jobs'[c].key = k /\ jobs'[c].generation = generation
      /\ jobs'[c].since = served /\ ~jobs'[c].aborted /\ jobs'[c].outcome = NoOutcome
      /\ \A d \in Call \ {c} : jobs'[d] = jobs[d]
  <2> DEFINE r == [stage |-> "loading", key |-> k, generation |-> generation,
                   since |-> served, outcome |-> NoOutcome, aborted |-> FALSE]
  <2>1. r \in JobType
    BY <1>1, OutcomesTyped DEF JobType, Types
  <2>2. jobs' = [jobs EXCEPT ![c] = r]
    BY DEF Create
  <2> QED
    BY <1>1, <2>1, <2>2 DEF Types
<1>4. /\ pending' \in [Key -> Call \union {None}] /\ pending'[k] = c
      /\ \A q \in Key \ {k} : pending'[q] = pending[q]
      /\ fillers' = fillers \union {c}
  BY <1>1 DEF Create, Types
<1>5. jobs[c].stage = "none" /\ Consumers(c) = {}
  <2>1. jobs[c].stage = "none"
    BY DEF IInv, CallSound
  <2>2. \A d \in Call : calls[d].stage = "waiting" => calls[d].job # c
    <3> SUFFICES ASSUME NEW d \in Call, calls[d].stage = "waiting", calls[d].job = c
                 PROVE  FALSE
      OBVIOUS
    <3>1. pending[calls[d].key] = c /\ calls[d].key \in Key
      BY <2>1 DEF IInv, CallSound, Served
    <3>2. calls[d].key \in PendingKeys
      BY <3>1, QueriesAssumption DEF PendingKeys
    <3> QED
      BY <2>1, <3>1, <3>2 DEF IInv, KeySound, Running
  <2> QED
    BY <2>1, <2>2 DEF Consumers
<1>6. Consumers(c)' = {c} /\ \A i \in Call \ {c} : Consumers(i)' = Consumers(i)
  BY <1>1, <1>2, <1>5 DEF Consumers
<1>7. PendingKeys' = PendingKeys \union {k}
  BY <1>1, <1>4, QueriesAssumption DEF PendingKeys
<1>8. Types'
  BY <1>1, <1>2, <1>3, <1>4 DEF Types, CacheKept
<1>9. Numbers'
  <2>1. Finite(PendingKeys', MaxPending)
    BY <1>7, OneMoreFits, QueriesAssumption DEF IInv, Numbers
  <2>2. Finite(Consumers(c)', MaxConsumers)
    <3>1. IsFiniteSet({c}) /\ Cardinality({c}) = 1
      BY FS_Singleton
    <3> QED
      BY <1>6, <3>1, QueriesAssumption DEF Finite
  <2> QED
    BY <1>6, <2>1, <2>2 DEF IInv, Numbers, CacheKept
<1>10. \A q \in PendingKeys' : KeySound(q)'
  <2>1. KeySound(k)'
    BY <1>3, <1>4, <1>6, OutcomesTyped DEF KeySound, Running, Current
  <2>2. ASSUME NEW q \in PendingKeys
        PROVE  KeySound(q)'
    <3>1. KeySound(q) /\ q \in Key \ {k} /\ pending[q] \in Call
      BY <1>1 DEF IInv, PendingKeys, Types
    <3>2. pending[q] # c
      BY <1>5, <3>1 DEF KeySound, Running
    <3>3. pending'[q] = pending[q] /\ jobs'[pending[q]] = jobs[pending[q]]
          /\ Consumers(pending[q])' = Consumers(pending[q])
      BY <1>3, <1>4, <1>6, <3>1, <3>2
    <3> QED
      BY <3>1, <3>3 DEF KeySound, Current, Consumers
  <2> QED
    BY <1>7, <2>1, <2>2
<1>11. \A i \in Call : JobSound(i)'
  <2>1. JobSound(c)'
    BY <1>3, <1>4 DEF JobSound
  <2>2. ASSUME NEW i \in Call \ {c}
        PROVE  JobSound(i)'
    <3>1. JobSound(i) /\ jobs'[i] = jobs[i]
      BY <1>3 DEF IInv
    <3>2. jobs[i].key \in Key /\ pending[jobs[i].key] = i => pending'[jobs[i].key] = i
      BY <1>4, QueriesAssumption
    <3> QED
      BY <3>1, <3>2 DEF JobSound, IsValue
  <2> QED
    BY <2>1, <2>2
<1>12. \A d \in Call : CallSound(d)'
  <2>1. CallSound(c)'
    BY <1>2, <1>3, <1>4 DEF CallSound, Served
  <2>2. ASSUME NEW d \in Call \ {c}
        PROVE  CallSound(d)'
    <3>1. CallSound(d) /\ calls'[d] = calls[d] /\ jobs'[d] = jobs[d]
      BY <1>2, <1>3 DEF IInv
    <3>2. ASSUME calls[d].stage = "waiting"
          PROVE  Served(d)'
      <4>1. calls[d].job \in Call \ {c} /\ calls[d].key \in Key
        BY <1>5, <3>1, <3>2 DEF CallSound, Consumers
      <4>2. jobs'[calls[d].job] = jobs[calls[d].job]
            /\ (pending[calls[d].key] = calls[d].job => pending'[calls[d].key] = calls[d].job)
        BY <1>3, <1>4, <4>1, QueriesAssumption
      <4> QED
        BY <3>1, <3>2, <4>1, <4>2 DEF CallSound, Served, IsValue
    <3> QED
      BY <3>1, <3>2 DEF CallSound, IsValue
  <2> QED
    BY <2>1, <2>2
<1>13. FillersFresh' /\ CacheSound'
  BY <1>1, <1>3, <1>4 DEF IInv, FillersFresh, IsValue, CacheKept, Types
<1> QED
  BY <1>8, <1>9, <1>10, <1>11, <1>12, <1>13 DEF IInv

\* What a call makes of an answer, or is refused, keeps the invariant (the first
\* lines of #shared, and its awaits).
LEMMA RefuseKeeps ==
    ASSUME IInv, NEW c \in Call, NEW why \in Code, calls[c].stage = "new", Refuse(c, why),
           UNCHANGED <<served, open, generation, fillers, pending, jobs, aborted, noticed>>,
           CacheKept
    PROVE  IInv'
<1>1. Error(why) \in Outcome
  BY OutcomesTyped
<1>2. Ended(Error(why)) \in CallType /\ Ended(Error(why)).stage = "done"
  BY <1>1, EndedTyped
<1> QED
  BY <1>2, CallChanges DEF Refuse

\* A call as far as its first await keeps it, whether it is refused, reuses a value,
\* joins a job or creates one (#shared).
LEMMA AskKeeps ==
    ASSUME IInv, NEW c \in Call, NEW k \in Key, Ask(c, k)
    PROVE  IInv'
<1>1. UNCHANGED <<served, open, generation, aborted, noticed>> /\ calls[c].stage = "new"
  BY DEF Ask, session
<1>2. CASE /\ Refuse(c, "unauthenticated") \/ Refuse(c, "cancelled")
           /\ UNCHANGED <<cache, pending, jobs, fillers>>
  <2>1. CacheKept
    BY <1>1, <1>2, DropKeeps
  <2> QED
    BY <1>1, <1>2, <2>1, RefuseKeeps DEF Code
<1>3. CASE Reuse(c, k)
  <2> DEFINE r == [stage |-> "copying", key |-> k, generation |-> generation,
                   job |-> None, outcome |-> cache[k]]
  <2>1. k \in Cached /\ calls' = [calls EXCEPT ![c] = r]
        /\ UNCHANGED <<cache, pending, jobs, fillers>>
    BY <1>3 DEF Reuse
  <2>2. cache[k] \in Outcome /\ IsValue(cache[k]) /\ cache[k].by = generation
    BY <2>1 DEF IInv, Types, CacheSound, Cached
  <2>3. r \in CallType
    BY <2>2 DEF CallType, IInv, Types
  <2>4. r.stage = "copying" /\ r.outcome = cache[k] /\ r.generation = generation
    OBVIOUS
  <2>5. CacheKept
    BY <1>1, <2>1, DropKeeps
  <2> HIDE DEF r
  <2> QED
    BY <1>1, <2>1, <2>2, <2>3, <2>4, <2>5, CallChanges
<1>4. CASE /\ cache' = [cache EXCEPT ![k] = None]
           /\ open
           /\ JoinOrCreate(c, k)
  <2>1. CacheKept
    BY <1>1, <1>4, DropKeeps
  <2>2. CASE pending[k] # None
    <3>1. k \in PendingKeys /\ Join(c, k)
      BY <1>4, <2>2 DEF PendingKeys, JoinOrCreate
    <3>2. UNCHANGED <<pending, jobs, fillers>>
      BY <3>1 DEF Join
    <3>3. CASE Cardinality(Consumers(pending[k])) >= MaxConsumers
      <4>1. Refuse(c, "unavailable")
        BY <3>1, <3>3 DEF Join
      <4> QED
        BY <1>1, <2>1, <3>2, <4>1, RefuseKeeps DEF Code
    <3>4. CASE ~(Cardinality(Consumers(pending[k])) >= MaxConsumers)
      <4>1. Wait(c, k, pending[k])
        BY <3>1, <3>4 DEF Join
      <4> QED
        BY <1>1, <2>1, <3>1, <3>2, <3>4, <4>1, JoinKeeps
    <3> QED
      BY <3>3, <3>4
  <2>3. CASE pending[k] = None
    <3>1. Create(c, k)
      BY <1>4, <2>3 DEF JoinOrCreate
    <3>2. CASE Cardinality(PendingKeys) >= MaxPending
      <4>1. Refuse(c, "unavailable") /\ UNCHANGED <<pending, jobs, fillers>>
        BY <3>1, <3>2 DEF Create
      <4> QED
        BY <1>1, <2>1, <4>1, RefuseKeeps DEF Code
    <3>3. CASE ~(Cardinality(PendingKeys) >= MaxPending)
      BY <1>1, <1>4, <2>1, <2>3, <3>1, <3>3, CreateKeeps
    <3> QED
      BY <3>2, <3>3
  <2> QED
    BY <2>2, <2>3
<1> QED
  BY <1>2, <1>3, <1>4 DEF Ask

\* A copied value, or the refusal to hand it over, keeps it.
LEMMA CopyKeeps ==
    ASSUME IInv, NEW c \in Call, Copy(c)
    PROVE  IInv'
<1>1. UNCHANGED <<served, open, generation, cache, fillers, pending, jobs, aborted, noticed>>
      /\ calls[c].stage = "copying"
  BY DEF Copy, session
<1>2. CacheKept
  BY <1>1, DropKeeps
<1>3. PICK o \in Outcome : calls' = [calls EXCEPT ![c] = Ended(o)]
  <2>1. calls[c].outcome \in Outcome /\ Error("cancelled") \in Outcome
    BY OutcomesTyped DEF IInv, Types, CallType, Code
  <2> QED
    BY <2>1 DEF Copy
<1>4. Ended(o) \in CallType /\ Ended(o).stage = "done"
  BY EndedTyped
<1> QED
  BY <1>1, <1>2, <1>3, <1>4, CallChanges

\* What a consumer makes of its job's outcome is an outcome.
LEMMA ReceiptTyped ==
    ASSUME IInv, NEW c \in Call, calls[c].stage = "waiting"
    PROVE  Receipt(c) \in Outcome
<1>1. calls[c].job \in Call
  BY DEF IInv, CallSound
<1>2. jobs[calls[c].job].outcome \in Outcome /\ Error("cancelled") \in Outcome
  BY <1>1, OutcomesTyped DEF IInv, Types, JobType, Code
<1> QED
  BY <1>2 DEF Receipt

\* So does the delivery of an outcome to a consumer.
LEMMA DeliverKeeps ==
    ASSUME IInv, NEW c \in Call, Deliver(c)
    PROVE  IInv'
<1>1. UNCHANGED <<served, open, generation, cache, fillers, pending, jobs, aborted, noticed>>
      /\ calls[c].stage = "waiting" /\ jobs[calls[c].job].stage = "closed"
  BY DEF Deliver, session
<1>2. CacheKept
  BY <1>1, DropKeeps
<1>3. Receipt(c) \in Outcome /\ calls[c] \in CallType
  BY <1>1, ReceiptTyped DEF IInv, Types
<1>4. PICK r \in CallType : calls' = [calls EXCEPT ![c] = r] /\ r.stage \in {"clearing", "done"}
  <2>1. [calls[c] EXCEPT !.stage = "clearing", !.outcome = Receipt(c)] \in CallType
    BY <1>3 DEF CallType
  <2>2. [calls[c] EXCEPT !.stage = "clearing", !.outcome = Receipt(c)].stage = "clearing"
    BY <1>3 DEF CallType
  <2>3. Ended(Receipt(c)) \in CallType /\ Ended(Receipt(c)).stage = "done"
    BY <1>3, EndedTyped
  <2> QED
    BY <2>1, <2>2, <2>3 DEF Deliver
<1> QED
  BY <1>1, <1>2, <1>4, CallChanges

\* A reader who leaves keeps it: the others still have their job, and where there
\* are none it is aborted (leave).
LEMMA LeaveKeeps ==
    ASSUME IInv, NEW c \in Call, Leave(c)
    PROVE  IInv'
<1>1. UNCHANGED <<served, open, generation, cache, fillers, noticed>>
      /\ aborted' = aborted \union {c} /\ Types
  BY DEF Leave, session, IInv
<1>2. CASE calls[c].stage # "waiting"
  <2>1. UNCHANGED <<pending, jobs, calls>>
    BY <1>2 DEF Leave
  <2>2. Types' /\ Numbers' /\ CacheSound' /\ FillersFresh'
    BY <1>1, <2>1 DEF IInv, Types, Numbers, Cached, PendingKeys, Consumers, CacheSound, FillersFresh
  <2>3. \A k \in PendingKeys' : KeySound(k)'
    BY <1>1, <2>1 DEF IInv, KeySound, PendingKeys, Current, Consumers
  <2>4. (\A j \in Call : JobSound(j)') /\ (\A d \in Call : CallSound(d)')
    BY <1>1, <2>1 DEF IInv, JobSound, CallSound, Served
  <2> QED
    BY <2>2, <2>3, <2>4 DEF IInv
<1>3. CASE calls[c].stage = "waiting"
  <2>1. PICK j \in Call, k \in Key : j = calls[c].job /\ k = calls[c].key /\ c \in Consumers(j)
    BY <1>3 DEF IInv, CallSound, Consumers
  <2>2. /\ calls' \in [Call -> CallType] /\ calls'[c].stage = "done"
        /\ \A d \in Call \ {c} : calls'[d] = calls[d]
    <3>1. Ended(Error("cancelled")) \in CallType /\ Ended(Error("cancelled")).stage = "done"
      BY OutcomesTyped, EndedTyped DEF Code
    <3>2. \A d \in Call : LastConsumer(c, j) /\ d \in Consumers(j) => d = c
      BY DEF LastConsumer
    <3> DEFINE left == LastConsumer(c, j) /\ pending[k] = j
    <3>3. calls' = [d \in Call |-> IF d = c \/ (left /\ d \in Consumers(j))
                                   THEN Ended(Error("cancelled")) ELSE calls[d]]
      BY <1>3, <2>1 DEF Leave
    <3>4. calls' = [d \in Call |-> IF d = c THEN Ended(Error("cancelled")) ELSE calls[d]]
      BY <3>2, <3>3
    <3> QED
      BY <1>1, <3>1, <3>4 DEF Types
  <2>3. \A i \in Call : Consumers(i)' = Consumers(i) \ {c}
    BY <2>2 DEF Consumers
  <2>4. \A i \in Call \ {j} : Consumers(i)' = Consumers(i)
    BY <2>1, <2>3 DEF Consumers
  <2>5. \A i \in Call : Finite(Consumers(i)', MaxConsumers)
    BY <2>3, SubsetIsSmall, QueriesAssumption DEF IInv, Numbers
  <2>6. \A q \in PendingKeys : pending[q] = j => q = k
    <3> SUFFICES ASSUME NEW q \in PendingKeys, pending[q] = j
                 PROVE  q = k
      OBVIOUS
    <3>1. jobs[j].key = q /\ jobs[j].stage # "closed"
      BY DEF IInv, KeySound, Running
    <3>2. pending[k] = j
      BY <1>3, <2>1, <3>1 DEF IInv, CallSound, Served
    <3>3. k \in PendingKeys
      BY <3>2, QueriesAssumption DEF PendingKeys
    <3> QED
      BY <3>1, <3>2, <3>3 DEF IInv, KeySound
  <2>7. CASE LastConsumer(c, j) /\ pending[k] = j
    <3>1. pending' = [pending EXCEPT ![k] = None] /\ jobs' = [jobs EXCEPT ![j].aborted = TRUE]
      BY <1>3, <2>1, <2>7 DEF Leave
    <3>2. /\ pending' \in [Key -> Call \union {None}] /\ pending'[k] = None
          /\ \A q \in Key \ {k} : pending'[q] = pending[q]
      BY <1>1, <3>1 DEF Types
    <3>3. /\ jobs' \in [Call -> JobType] /\ jobs'[j].aborted
          /\ jobs'[j].stage = jobs[j].stage /\ jobs'[j].key = jobs[j].key
          /\ jobs'[j].generation = jobs[j].generation /\ jobs'[j].outcome = jobs[j].outcome
          /\ jobs'[j].since = jobs[j].since
          /\ \A i \in Call \ {j} : jobs'[i] = jobs[i]
      <4>1. jobs[j] \in JobType /\ jobs' = [jobs EXCEPT ![j] = [jobs[j] EXCEPT !.aborted = TRUE]]
        BY <1>1, <3>1 DEF Types
      <4>2. [jobs[j] EXCEPT !.aborted = TRUE] \in JobType
        BY <4>1 DEF JobType
      <4> QED
        BY <1>1, <4>1, <4>2 DEF Types, JobType
    <3>4. PendingKeys' = PendingKeys \ {k} /\ k \in PendingKeys
      BY <2>1, <2>7, <3>2, QueriesAssumption DEF PendingKeys
    <3>5. Types'
      BY <1>1, <2>2, <3>2, <3>3 DEF Types
    <3>6. Numbers'
      <4>1. Finite(PendingKeys', MaxPending)
        BY <3>4, SubsetIsSmall, QueriesAssumption DEF IInv, Numbers
      <4> QED
        BY <1>1, <2>5, <4>1 DEF IInv, Numbers, Cached
    <3>7. \A q \in PendingKeys' : KeySound(q)'
      <4> SUFFICES ASSUME NEW q \in PendingKeys \ {k}
                   PROVE  KeySound(q)'
        BY <3>4
      <4>1. PICK i \in Call : pending[q] = i
        BY <1>1 DEF Types, PendingKeys
      <4>2. i # j /\ pending'[q] = i /\ jobs'[i] = jobs[i] /\ Consumers(i)' = Consumers(i)
        BY <2>4, <2>6, <3>2, <3>3, <4>1 DEF PendingKeys
      <4>3. KeySound(q)
        BY DEF IInv
      <4> QED
        BY <1>1, <4>1, <4>2, <4>3 DEF KeySound, Current
    <3>8. \A i \in Call : JobSound(i)'
      <4>1. JobSound(j)'
        BY <2>6, <2>7, <3>3, <3>4 DEF IInv, JobSound, KeySound, Running, IsValue
      <4>2. ASSUME NEW i \in Call \ {j}
            PROVE  JobSound(i)'
        <5>1. JobSound(i) /\ jobs'[i] = jobs[i]
          BY <3>3 DEF IInv
        <5>2. jobs[i].key \in Key /\ pending[jobs[i].key] = i => pending'[jobs[i].key] = i
          BY <2>7, <3>2
        <5> QED
          BY <5>1, <5>2 DEF JobSound, IsValue
      <4> QED
        BY <4>1, <4>2
    <3>9. \A d \in Call : CallSound(d)'
      <4>1. CallSound(c)'
        BY <2>2 DEF CallSound
      <4>2. ASSUME NEW d \in Call \ {c}
            PROVE  CallSound(d)'
        <5>1. CallSound(d) /\ calls'[d] = calls[d] /\ jobs'[d].stage = jobs[d].stage
          BY <2>2, <3>3 DEF IInv
        <5>2. ASSUME calls[d].stage = "waiting"
              PROVE  Served(d)'
          <6>1. calls[d].job \in Call \ {j} /\ calls[d].key \in Key
            BY <2>7, <5>1, <5>2 DEF CallSound, LastConsumer, Consumers
          <6>2. jobs'[calls[d].job] = jobs[calls[d].job]
                /\ (pending[calls[d].key] = calls[d].job => pending'[calls[d].key] = calls[d].job)
            BY <2>7, <3>2, <3>3, <6>1
          <6> QED
            BY <5>1, <5>2, <6>1, <6>2 DEF CallSound, Served, IsValue
        <5> QED
          BY <5>1, <5>2 DEF CallSound, IsValue
      <4> QED
        BY <4>1, <4>2
    <3>10. CacheSound' /\ FillersFresh'
      BY <1>1, <3>3 DEF IInv, CacheSound, Cached, FillersFresh, Types, IsValue
    <3> QED
      BY <3>5, <3>6, <3>7, <3>8, <3>9, <3>10 DEF IInv
  <2>8. CASE ~(LastConsumer(c, j) /\ pending[k] = j)
    <3>1. UNCHANGED <<pending, jobs>>
      BY <1>3, <2>1, <2>8 DEF Leave
    <3>2. Types' /\ Numbers'
      BY <1>1, <2>2, <2>5, <3>1 DEF IInv, Types, Numbers, Cached, PendingKeys
    <3>3. \A q \in PendingKeys' : KeySound(q)'
      <4> SUFFICES ASSUME NEW q \in PendingKeys
                   PROVE  KeySound(q)'
        BY <3>1 DEF PendingKeys
      <4>1. PICK i \in Call : pending[q] = i
        BY <1>1 DEF Types, PendingKeys
      <4>2. KeySound(q)
        BY DEF IInv
      <4>3. Consumers(i)' # {}
        <5>1. CASE i = j
          BY <2>1, <2>3, <2>6, <2>8, <4>1, <5>1 DEF LastConsumer
        <5>2. CASE i # j
          BY <2>4, <4>1, <4>2, <5>2 DEF KeySound
        <5> QED
          BY <5>1, <5>2
      <4> QED
        BY <1>1, <3>1, <4>1, <4>2, <4>3 DEF KeySound, Current
    <3>4. (\A i \in Call : JobSound(i)') /\ (\A d \in Call : CallSound(d)')
      BY <2>2, <3>1 DEF IInv, JobSound, CallSound, Served, IsValue
    <3>5. CacheSound' /\ FillersFresh'
      BY <1>1, <3>1 DEF IInv, CacheSound, Cached, FillersFresh
    <3> QED
      BY <3>2, <3>3, <3>4, <3>5 DEF IInv
  <2> QED
    BY <2>7, <2>8
<1> QED
  BY <1>2, <1>3

-----------------------------------------------------------------------------
(* Steps of the session and of the service.                                *)

\* Clearing all keeps the invariant: every job under way is aborted, and every call
\* that waits for one is told (#clear and the abort listeners).
LEMMA ClearKeeps ==
    ASSUME IInv, Clear, UNCHANGED <<served, aborted>>,
           open' \in BOOLEAN, generation' \in Nat,
           calls' \in [Call -> CallType],
           \A c \in Call : calls'[c] = calls[c] \/ calls'[c].stage = "done",
           \A c \in Call : Rejected(c) => calls'[c].stage = "done"
    PROVE  IInv'
<1>1. Types
  BY DEF IInv
<1>2. /\ cache' = [k \in Key |-> None] /\ fillers' = {} /\ noticed' = served
      /\ pending' = [k \in Key |-> None]
      /\ Cached' = {} /\ PendingKeys' = {}
  BY DEF Clear, Forget, Cached, PendingKeys
<1>3. /\ jobs' \in [Call -> JobType]
      /\ \A j \in Call : /\ jobs'[j].stage = jobs[j].stage /\ jobs'[j].key = jobs[j].key
                         /\ jobs'[j].generation = jobs[j].generation
                         /\ jobs'[j].outcome = jobs[j].outcome
                         /\ IF j \in PendingJobs THEN jobs'[j].aborted ELSE jobs'[j] = jobs[j]
  <2> SUFFICES ASSUME NEW j \in Call
               PROVE  /\ jobs'[j] \in JobType
                      /\ jobs'[j].stage = jobs[j].stage /\ jobs'[j].key = jobs[j].key
                      /\ jobs'[j].generation = jobs[j].generation
                      /\ jobs'[j].outcome = jobs[j].outcome
                      /\ IF j \in PendingJobs THEN jobs'[j].aborted ELSE jobs'[j] = jobs[j]
    BY DEF Clear
  <2>1. jobs[j] \in JobType
    BY <1>1 DEF Types
  <2>2. jobs'[j] = IF j \in PendingJobs THEN [jobs[j] EXCEPT !.aborted = TRUE] ELSE jobs[j]
    BY DEF Clear
  <2> QED
    BY <2>1, <2>2 DEF JobType
<1>4. \A j \in Call : Consumers(j)' \subseteq Consumers(j)
  BY DEF Consumers
<1>5. Types'
  BY <1>1, <1>2, <1>3 DEF Types
<1>6. Numbers'
  <2>1. \A j \in Call : Finite(Consumers(j)', MaxConsumers)
    BY <1>4, SubsetIsSmall, QueriesAssumption DEF IInv, Numbers
  <2>2. \A bound \in Nat : Finite({}, bound)
    BY FS_EmptySet DEF Finite
  <2> QED
    BY <1>2, <2>1, <2>2, QueriesAssumption DEF Numbers
<1>7. (\A k \in PendingKeys' : KeySound(k)') /\ CacheSound' /\ FillersFresh'
  BY <1>2 DEF CacheSound, FillersFresh
<1>8. ASSUME NEW j \in Call
      PROVE  JobSound(j)'
  <2>1. CASE j \in PendingJobs
    <3>1. jobs[j].stage \in Running
      BY <2>1 DEF PendingJobs, IInv, KeySound
    <3> QED
      BY <1>3, <2>1, <3>1 DEF IInv, JobSound, Running, IsValue
  <2>2. CASE j \notin PendingJobs
    <3>1. ~(jobs[j].stage \in Running /\ ~jobs[j].aborted)
      BY <2>2, LiveIsPending DEF PendingJobs
    <3> QED
      BY <1>3, <2>2, <3>1 DEF IInv, JobSound, IsValue
  <2> QED
    BY <2>1, <2>2
<1>9. ASSUME NEW c \in Call
      PROVE  CallSound(c)'
  <2>1. CASE calls'[c].stage = "done"
    BY <2>1 DEF CallSound
  <2>2. CASE calls'[c] = calls[c] /\ calls[c].stage = "waiting" /\ ~Rejected(c)
    <3>1. calls[c].job \in Call /\ calls[c].key \in Key /\ calls[c].job \notin PendingJobs
      BY <2>2 DEF IInv, CallSound, Rejected
    <3>2. pending[calls[c].key] # calls[c].job
      BY <3>1, QueriesAssumption DEF PendingJobs, PendingKeys
    <3> QED
      BY <1>3, <2>2, <3>1, <3>2 DEF IInv, CallSound, Served, IsValue
  <2>3. CASE calls'[c] = calls[c] /\ calls[c].stage # "waiting"
    BY <1>3, <2>3 DEF IInv, CallSound, IsValue
  <2> QED
    BY <2>1, <2>2, <2>3
<1> QED
  BY <1>5, <1>6, <1>7, <1>8, <1>9 DEF IInv

\* The calls after a clear: those that waited for a job under way have ended.
LEMMA AfterClearTyped ==
    ASSUME IInv
    PROVE  /\ AfterClear \in [Call -> CallType]
           /\ \A c \in Call : AfterClear[c] = calls[c] \/ AfterClear[c].stage = "done"
           /\ \A c \in Call : Rejected(c) => AfterClear[c] = Ended(Error("cancelled"))
           /\ \A c \in Call : ~Rejected(c) => AfterClear[c] = calls[c]
<1>1. Ended(Error("cancelled")) \in CallType /\ Ended(Error("cancelled")).stage = "done"
  BY OutcomesTyped, EndedTyped DEF Code
<1> QED
  BY <1>1 DEF AfterClear, IInv, Types

\* The end of a session keeps it.
LEMMA EndSessionKeeps ==
    ASSUME IInv, EndSession
    PROVE  IInv'
<1>1. open' \in BOOLEAN /\ generation' \in Nat /\ Clear /\ calls' = AfterClear
      /\ UNCHANGED <<served, aborted>>
  <2>1. open' = FALSE /\ Clear /\ calls' = AfterClear /\ UNCHANGED <<served, aborted>>
    BY DEF EndSession
  <2>2. generation' \in Nat
    BY DEF EndSession, IInv, Types
  <2> QED
    BY <2>1, <2>2
<1>2. Ended(Error("cancelled")).stage = "done"
  BY OutcomesTyped, EndedTyped DEF Code
<1> QED
  BY <1>1, <1>2, AfterClearTyped, ClearKeeps

\* So does the refusal of a publication, which clears all.
LEMMA ClearAfterRefusalKeeps ==
    ASSUME IInv, NEW c \in Call, ClearAfterRefusal(c)
    PROVE  IInv'
<1>1. open' \in BOOLEAN /\ generation' \in Nat /\ Clear /\ UNCHANGED <<served, aborted>>
      /\ calls' = [AfterClear EXCEPT ![c] = Ended(Error("publication-changed"))]
  BY DEF ClearAfterRefusal, session, IInv, Types
<1>2. /\ Ended(Error("publication-changed")) \in CallType
      /\ Ended(Error("publication-changed")).stage = "done"
      /\ Ended(Error("cancelled")).stage = "done"
  BY OutcomesTyped, EndedTyped DEF Code
<1>3. calls' \in [Call -> CallType] /\ calls'[c].stage = "done"
      /\ \A d \in Call \ {c} : calls'[d] = AfterClear[d]
  BY <1>1, <1>2, AfterClearTyped
<1> QED
  BY <1>1, <1>2, <1>3, AfterClearTyped, ClearKeeps

\* A session begins only where none is open, and so where no job is under #pending.
LEMMA SignInKeeps ==
    ASSUME IInv, SignIn
    PROVE  IInv'
<1>1. UNCHANGED <<served, generation, cache, fillers, pending, jobs, calls, aborted, noticed>>
      /\ open' = TRUE /\ ~open
  BY DEF SignIn
<1>2. PendingKeys' = {}
  BY <1>1 DEF IInv, KeySound, Current, PendingKeys
<1>3. Types' /\ Numbers' /\ CacheSound' /\ FillersFresh'
  BY <1>1 DEF IInv, Types, Numbers, Cached, PendingKeys, Consumers, CacheSound, FillersFresh
<1>4. (\A j \in Call : JobSound(j)') /\ (\A d \in Call : CallSound(d)')
  BY <1>1 DEF IInv, JobSound, CallSound, Served
<1> QED
  BY <1>2, <1>3, <1>4 DEF IInv

\* A publication changes nothing in the browser, and neither does a stutter.
LEMMA OutsideKeeps ==
    ASSUME IInv, Publish \/ UNCHANGED vars
    PROVE  IInv'
<1>1. UNCHANGED <<open, generation, cache, fillers, pending, jobs, calls, aborted, noticed>>
      /\ served' \in Nat /\ served' >= served
  BY DEF Publish, vars, session, IInv, Types
<1>2. Types' /\ Numbers' /\ CacheSound' /\ FillersFresh'
  BY <1>1 DEF IInv, Types, Numbers, Cached, PendingKeys, Consumers, CacheSound, FillersFresh
<1>3. \A k \in PendingKeys' : KeySound(k)'
  BY <1>1 DEF IInv, KeySound, PendingKeys, Current, Consumers
<1>4. (\A j \in Call : JobSound(j)') /\ (\A d \in Call : CallSound(d)')
  BY <1>1 DEF IInv, JobSound, CallSound, Served
<1> QED
  BY <1>2, <1>3, <1>4 DEF IInv

-----------------------------------------------------------------------------
(* The theorems.                                                           *)

\* Before the first call there is nothing to keep.
LEMMA InitInvariant == Init => IInv
<1> SUFFICES ASSUME Init
             PROVE  IInv
  OBVIOUS
<1>1. Types
  <2>1. NoJob \in JobType /\ NoCall \in CallType
    BY OutcomesTyped DEF NoJob, NoCall, JobType, CallType
  <2> QED
    BY <2>1 DEF Init, Types
<1>2. Cached = {} /\ PendingKeys = {} /\ \A j \in Call : Consumers(j) = {}
  BY DEF Init, Cached, PendingKeys, Consumers, NoCall
<1>3. Numbers
  <2>1. \A bound \in Nat : Finite({}, bound)
    BY FS_EmptySet DEF Finite
  <2> QED
    BY <1>2, <2>1, QueriesAssumption DEF Numbers
<1>4. (\A j \in Call : JobSound(j)) /\ (\A c \in Call : CallSound(c))
  BY DEF Init, NoJob, NoCall, JobSound, CallSound, Running
<1> QED
  BY <1>1, <1>2, <1>3, <1>4 DEF Init, IInv, CacheSound, FillersFresh

\* Every step keeps the invariant.
LEMMA NextInvariant == IInv /\ [Next]_vars => IInv'
<1> SUFFICES ASSUME IInv, [Next]_vars
             PROVE  IInv'
  OBVIOUS
<1>1. ASSUME NEW j \in Call, Load(j) \/ NoticeChange(j) \/ Settle(j) \/ Close(j)
      PROVE  IInv'
  BY <1>1, LoadKeeps, NoticeChangeKeeps, SettleKeeps, CloseKeeps
<1>2. ASSUME NEW c \in Call, Copy(c) \/ Deliver(c) \/ ClearAfterRefusal(c) \/ Leave(c)
      PROVE  IInv'
  BY <1>2, CopyKeeps, DeliverKeeps, ClearAfterRefusalKeeps, LeaveKeeps
<1>3. ASSUME NEW c \in Call, NEW k \in Key, Ask(c, k)
      PROVE  IInv'
  BY <1>3, AskKeeps
<1> QED
  BY <1>1, <1>2, <1>3, EndSessionKeeps, SignInKeeps, OutsideKeeps DEF Next, Turn

\* The bookkeeping of jobs, consumers, cache and fillers always holds
\* (read-queries.ts).
THEOREM Invariance == Spec => []IInv
BY InitInvariant, NextInvariant, PTL DEF Spec

\* The variables have their types, and cache, jobs and consumers keep to their
\* numbers (#remember, the limits of #shared).
THEOREM TypeCorrect == Spec => []TypeOK
<1>1. IInv => TypeOK
  BY DEF IInv, Types, Numbers, Finite, TypeOK
<1> QED
  BY <1>1, Invariance, PTL

\* The cache never holds again what was read before a change that was noticed
\* (#cacheVersion).
THEOREM CacheStaysFresh == Spec => []CacheNotOlder
<1>1. IInv => CacheNotOlder
  BY DEF IInv, CacheSound, CacheNotOlder
<1> QED
  BY <1>1, Invariance, PTL

\* A fetch that was not aborted is the only one of its key and runs for somebody,
\* and whoever waits will be answered (#pending, leave).
THEOREM FetchesServeSomebody == Spec => []OneFetchForSomebody
<1>1. ASSUME IInv
      PROVE  OneFetchForSomebody
  <2>1. ASSUME NEW j \in Call, jobs[j].stage = "loading", ~jobs[j].aborted
        PROVE  Consumers(j) # {} /\ pending[jobs[j].key] = j
    BY <1>1, <2>1, LiveIsPending DEF Running
  <2>2. ASSUME NEW c \in Call, calls[c].stage = "waiting"
        PROVE  jobs[calls[c].job].stage # "none" /\ ~jobs[calls[c].job].aborted
    <3>1. calls[c].job \in Call /\ calls[c].key \in Key /\ Served(c)
      BY <1>1, <2>2 DEF IInv, CallSound
    <3>2. CASE pending[calls[c].key] = calls[c].job
      <4>1. calls[c].key \in PendingKeys
        BY <3>1, <3>2, QueriesAssumption DEF PendingKeys
      <4> QED
        BY <1>1, <3>2, <4>1 DEF IInv, KeySound, Running
    <3>3. CASE jobs[calls[c].job].stage = "closed"
      BY <1>1, <3>1, <3>3 DEF IInv, JobSound
    <3> QED
      BY <3>1, <3>2, <3>3 DEF Served
  <2> QED
    BY <2>1, <2>2 DEF OneFetchForSomebody
<1> QED
  BY <1>1, Invariance, PTL

-----------------------------------------------------------------------------
(* How calls end.                                                          *)

\* A call ends as the properties demand.
GoodEnd(c) ==
    /\ IsValue(calls'[c].outcome) =>
          /\ calls'[c].outcome.by = calls[c].generation
          /\ Current(calls[c].generation)
          /\ c \notin aborted
    /\ calls'[c].outcome.code = "cancelled" =>
          \/ c \in aborted'
          \/ ~open' \/ generation' # calls[c].generation
          \/ \E d \in Call \ {c} : calls[d].stage = "clearing" /\ Ends(d)

\* An error is no value.
LEMMA EndedWithError ==
    ASSUME NEW why \in Code \ {"value"}
    PROVE  /\ Ended(Error(why)).stage = "done" /\ Ended(Error(why)).outcome.code = why
           /\ ~IsValue(Ended(Error(why)).outcome)
<1>1. Error(why) \in Outcome /\ Error(why).code = why
  BY OutcomesTyped
<1> QED
  BY <1>1, EndedTyped DEF IsValue

\* A call that #shared refuses ends with a reason of its own.
LEMMA AskEnds ==
    ASSUME IInv, NEW d \in Call, NEW k \in Key, Ask(d, k), NEW c \in Call, Ends(c)
    PROVE  GoodEnd(c)
<1>1. calls \in [Call -> CallType] /\ calls[d].stage = "new" /\ aborted' = aborted
  BY DEF Ask, IInv, Types
<1>2. CASE \E why \in Code : Refuse(d, why) /\ (why = "cancelled" => d \in aborted) /\ why # "value"
  <2>1. PICK why \in Code \ {"value"} : Refuse(d, why) /\ (why = "cancelled" => d \in aborted)
    BY <1>2
  <2>2. calls'[d] = Ended(Error(why)) /\ c = d
    BY <1>1, <2>1 DEF Refuse, Ends
  <2> QED
    BY <1>1, <2>1, <2>2, EndedWithError DEF GoodEnd
<1>3. CASE Reuse(d, k)
  BY <1>1, <1>3 DEF Reuse, Ends
<1>4. CASE \E j : Wait(d, k, j)
  BY <1>1, <1>4 DEF Wait, Ends
<1>5. \/ \E why \in Code : Refuse(d, why) /\ (why = "cancelled" => d \in aborted) /\ why # "value"
      \/ Reuse(d, k)
      \/ \E j : Wait(d, k, j)
  BY DEF Ask, JoinOrCreate, Join, Create, Code
<1> QED
  BY <1>2, <1>3, <1>4, <1>5

\* A copied value is of the session that holds, and goes to who is still there.
LEMMA CopyEnds ==
    ASSUME IInv, NEW d \in Call, Copy(d), NEW c \in Call, Ends(c)
    PROVE  GoodEnd(c)
<1>1. calls \in [Call -> CallType] /\ calls[d].stage = "copying"
      /\ UNCHANGED <<open, generation, aborted>>
  BY DEF Copy, session, IInv, Types
<1>2. c = d
  BY <1>1 DEF Copy, Ends
<1>3. CASE Current(calls[c].generation) /\ c \notin aborted
  <2>1. calls'[c] = Ended(calls[c].outcome) /\ calls[c].outcome \in Outcome
    BY <1>1, <1>2, <1>3 DEF Copy, CallType
  <2>2. calls'[c].outcome = calls[c].outcome
    BY <2>1, EndedTyped
  <2>3. IsValue(calls[c].outcome) /\ calls[c].outcome.by = calls[c].generation
    BY <1>1, <1>2 DEF IInv, CallSound
  <2> QED
    BY <1>3, <2>2, <2>3 DEF GoodEnd, IsValue
<1>4. CASE ~(Current(calls[c].generation) /\ c \notin aborted)
  <2>1. calls'[c] = Ended(Error("cancelled"))
    BY <1>1, <1>2, <1>4 DEF Copy
  <2> QED
    BY <1>1, <1>4, <2>1, EndedWithError DEF GoodEnd, Current, Code
<1> QED
  BY <1>3, <1>4

\* A delivered value is of the session that the consumer asked in; a job that was
\* not aborted tells nobody "cancelled".
LEMMA DeliverEnds ==
    ASSUME IInv, NEW d \in Call, Deliver(d), NEW c \in Call, Ends(c)
    PROVE  GoodEnd(c)
<1>1. calls \in [Call -> CallType] /\ calls[d].stage = "waiting"
      /\ jobs[calls[d].job].stage = "closed" /\ UNCHANGED <<open, generation, aborted>>
  BY DEF Deliver, session, IInv, Types
<1>2. c = d
  BY <1>1 DEF Deliver, Ends
<1>3. Receipt(c).code # "publication-changed" /\ calls'[c] = Ended(Receipt(c))
  <2>1. CASE Receipt(c).code = "publication-changed"
    <3>1. calls'[c] = [calls[c] EXCEPT !.stage = "clearing", !.outcome = Receipt(c)]
      BY <1>1, <1>2, <2>1 DEF Deliver
    <3>2. calls[c] \in CallType
      BY <1>1
    <3>3. calls'[c].stage = "clearing"
      BY <3>1, <3>2 DEF CallType
    <3> QED
      BY <3>3 DEF Ends
  <2>2. CASE Receipt(c).code # "publication-changed"
    BY <1>1, <1>2, <2>2 DEF Deliver
  <2> QED
    BY <2>1, <2>2
<1>4. calls'[c].outcome = Receipt(c)
  BY <1>1, <1>2, <1>3, ReceiptTyped, EndedTyped
<1>5. /\ jobs[calls[c].job].outcome.code # "cancelled"
      /\ IsValue(jobs[calls[c].job].outcome) =>
            jobs[calls[c].job].outcome.by = calls[c].generation
  <2>1. calls[c].job \in Call /\ calls[c].key \in Key /\ Served(c)
    BY <1>1, <1>2 DEF IInv, CallSound
  <2>2. pending[calls[c].key] # calls[c].job
    <3>1. pending[calls[c].key] = calls[c].job => calls[c].key \in PendingKeys
      BY <2>1, QueriesAssumption DEF PendingKeys
    <3> QED
      BY <1>1, <1>2, <3>1 DEF IInv, KeySound, Running
  <2> QED
    BY <2>1, <2>2 DEF Served
<1>6. CASE Receipt(c) = jobs[calls[c].job].outcome
           /\ ~(IsValue(jobs[calls[c].job].outcome) /\ (~Current(calls[c].generation) \/ c \in aborted))
  BY <1>4, <1>5, <1>6 DEF GoodEnd, IsValue
<1>7. CASE Receipt(c) = Error("cancelled") /\ (~Current(calls[c].generation) \/ c \in aborted)
  <2>1. Error("cancelled").code = "cancelled"
    BY OutcomesTyped DEF Code
  <2> QED
    BY <1>1, <1>4, <1>7, <2>1 DEF GoodEnd, Current, IsValue
<1> QED
  BY <1>6, <1>7 DEF Receipt

\* Who leaves is told so, and nobody else.
LEMMA LeaveEnds ==
    ASSUME IInv, NEW d \in Call, Leave(d), NEW c \in Call, Ends(c)
    PROVE  GoodEnd(c)
<1>1. calls[d].stage = "waiting"
  BY DEF Leave, Ends
<1>2. aborted' = aborted \union {d}
  BY DEF Leave
<1>3. c = d /\ calls'[c] = Ended(Error("cancelled"))
  <2> DEFINE j == calls[d].job
             last == LastConsumer(d, j) /\ pending[calls[d].key] = j
  <2>1. calls' = [e \in Call |-> IF e = d \/ (last /\ e \in Consumers(j))
                                 THEN Ended(Error("cancelled")) ELSE calls[e]]
    BY <1>1 DEF Leave
  <2>2. \A e \in Call : last /\ e \in Consumers(j) => e = d
    BY DEF LastConsumer
  <2> QED
    BY <2>1, <2>2 DEF Ends
<1> QED
  BY <1>2, <1>3, EndedWithError DEF GoodEnd, Code

\* A clear tells those who wait, at the end of their session or because another's
\* publication was refused.
LEMMA ClearEnds ==
    ASSUME IInv, EndSession \/ \E d \in Call : ClearAfterRefusal(d), NEW c \in Call, Ends(c)
    PROVE  GoodEnd(c)
<1>1. AfterClear[c] = calls[c] \/ AfterClear[c] = Ended(Error("cancelled"))
  BY AfterClearTyped
<1>2. CASE EndSession
  <2>1. calls'[c] = Ended(Error("cancelled")) /\ open' = FALSE
    BY <1>1, <1>2 DEF EndSession, Ends
  <2> QED
    BY <2>1, EndedWithError DEF GoodEnd, Code
<1>3. CASE \E d \in Call : ClearAfterRefusal(d)
  <2>1. PICK d \in Call : ClearAfterRefusal(d)
    BY <1>3
  <2>2. calls[d].stage = "clearing" /\ calls'[d] = Ended(Error("publication-changed"))
        /\ (c # d => calls'[c] = AfterClear[c])
    BY <2>1, AfterClearTyped DEF ClearAfterRefusal
  <2>3. Ends(d)
    BY <2>2, EndedWithError DEF Ends, Code
  <2>4. CASE c = d
    BY <2>2, <2>4, EndedWithError DEF GoodEnd, Code
  <2>5. CASE c # d
    <3>1. calls'[c] = Ended(Error("cancelled"))
      BY <1>1, <2>2, <2>5 DEF Ends
    <3> QED
      BY <2>2, <2>3, <2>5, <3>1, EndedWithError DEF GoodEnd, Code
  <2> QED
    BY <2>4, <2>5
<1> QED
  BY <1>2, <1>3

\* No other step ends a call.
LEMMA EveryEndIsGood ==
    ASSUME IInv, [Next]_vars, NEW c \in Call, Ends(c)
    PROVE  GoodEnd(c)
<1>1. ~UNCHANGED calls
  BY DEF Ends
<1>2. \A j \in Call : ~(Load(j) \/ NoticeChange(j) \/ Settle(j) \/ Close(j))
  BY <1>1 DEF Load, NoticeChange, Settle, Close
<1>3. ~SignIn /\ ~Publish /\ ~UNCHANGED vars
  BY <1>1 DEF SignIn, Publish, vars
<1>4. \/ \E d \in Call : Copy(d) \/ Deliver(d) \/ Leave(d)
      \/ \E d \in Call, k \in Key : Ask(d, k)
      \/ EndSession \/ \E d \in Call : ClearAfterRefusal(d)
  BY <1>2, <1>3 DEF Next, Turn
<1> QED
  BY <1>4, CopyEnds, DeliverEnds, LeaveEnds, AskEnds, ClearEnds

\* A call that ends with a value gets one of its own session, while that is in
\* force and the reader has not left (the checks after each await of #shared).
THEOREM ValuesAreOfTheirSession == Spec => ValuesStayInSession
<1>1. IInv /\ [Next]_vars =>
        [\A c \in Call :
          Ends(c) /\ IsValue(calls'[c].outcome) =>
              /\ calls'[c].outcome.by = calls[c].generation
              /\ Current(calls[c].generation)
              /\ c \notin aborted]_vars
  BY EveryEndIsGood DEF GoodEnd
<1> QED
  BY <1>1, Invariance, PTL DEF Spec, ValuesStayInSession

\* A reader is told "cancelled" because he left, because his session is over, or
\* because all was cleared (leave, #clear).
THEOREM CancellationsHaveCauses == Spec => CancelledForCause
<1>1. IInv /\ [Next]_vars =>
        [\A c \in Call :
          Ends(c) /\ calls'[c].outcome.code = "cancelled" =>
              \/ c \in aborted'
              \/ ~open' \/ generation' # calls[c].generation
              \/ \E d \in Call \ {c} : calls[d].stage = "clearing" /\ Ends(d)]_vars
  BY EveryEndIsGood DEF GoodEnd
<1> QED
  BY <1>1, Invariance, PTL DEF Spec, CancelledForCause

-----------------------------------------------------------------------------
(* The session that is assumed.                                            *)

\* The session of the readers is one that BrowserSession provides: they assume
\* nothing of it but what SessionLife promises (the snapshots that the constructor
\* of ReadQueries subscribes to).
THEOREM SessionIsThatOfTheBrowser == Spec => SessionAssumed
<1>1. Init => Life!Init
  BY DEF Init, Life!Init
<1>2. ASSUME [Next]_vars
      PROVE  [Life!Next]_(Life!lifeVars)
  <2>1. CASE EndSession
    BY <2>1 DEF EndSession, Life!Next, Life!End
  <2>2. CASE SignIn
    BY <2>2 DEF SignIn, Life!Next, Life!Accept
  <2>3. CASE UNCHANGED session
    BY <2>3 DEF session, Life!lifeVars
  <2>4. CASE Turn
    <3>1. UNCHANGED session
      BY <2>4 DEF Turn, Load, NoticeChange, Settle, Close, Copy, Deliver, ClearAfterRefusal
    <3> QED
      BY <2>3, <3>1
  <2>5. CASE \E c \in Call, k \in Key : Ask(c, k)
    BY <2>3, <2>5 DEF Ask
  <2>6. CASE (\E c \in Call : Leave(c)) \/ Publish
    BY <2>3, <2>6 DEF Leave, Publish
  <2>7. CASE UNCHANGED vars
    BY <2>3, <2>7 DEF vars
  <2> QED
    BY <1>2, <2>1, <2>2, <2>4, <2>5, <2>6, <2>7 DEF Next
<1> QED
  BY <1>1, <1>2, PTL DEF Spec, SessionAssumed, Life!Spec
=============================================================================
