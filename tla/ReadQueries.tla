---------------------------- MODULE ReadQueries ----------------------------
(***************************************************************************)
(* The read service of the browser (frontend/src/api/read-queries.ts):     *)
(* one fetch shared by all who ask for the same thing, a cache of thirty   *)
(* seconds, and what a new session, a changed publication or a reader who  *)
(* leaves does to both.                                                    *)
(*                                                                         *)
(* A call is a call of #shared; the job it creates bears its name.         *)
(* JavaScript runs to its next await, so the links of a job's promise      *)
(* chain are actions: Load (the transport), Settle (.then and .catch),     *)
(* Close (.finally), and Deliver for every consumer.                       *)
(***************************************************************************)
EXTENDS Naturals, FiniteSets

CONSTANTS
    Call,             \* calls of #shared
    Key,              \* what can be asked for
    Remembered,       \* keys whose answers are cached
    Pinned,           \* analyses of a named publication
    Collected,        \* collections, which compare two freshness reports
    None,
    MaxPending,       \* distinct jobs
    MaxConsumers,     \* consumers of one job
    MaxCached,        \* entries of the cache
    MaxGeneration,    \* bound: sessions
    MaxServed         \* bound: versions of the server's data

ASSUME QueriesAssumption ==
    /\ None \notin Call
    /\ Remembered \subseteq Key
    /\ Pinned \subseteq Key
    /\ Collected \subseteq Key \ Remembered
    /\ MaxPending \in Nat \ {0}
    /\ MaxConsumers \in Nat \ {0}
    /\ MaxCached \in Nat \ {0}
    /\ MaxGeneration \in Nat
    /\ MaxServed \in Nat

VARIABLES
    served,           \* the version of the data that the server holds
    open,             \* whether there are credentials
    generation,       \* of the session
    cache,            \* #cache
    fillers,          \* jobs begun under the present #cacheVersion
    pending,          \* #pending
    jobs,             \* all jobs, with their controllers
    calls,            \* all calls
    aborted,          \* calls whose signal is aborted
    noticed           \* history: the version served when the cache was last cleared

session == <<open, generation>>
vars == <<served, session, cache, fillers, pending, jobs, calls, aborted, noticed>>

-----------------------------------------------------------------------------
\* How a promise ends: with a value, of the version the server held and the
\* session that asked, or with an error's code.
Code == {"none", "value", "cancelled", "unauthenticated", "unavailable",
         "publication-changed", "failed"}
Outcome == [code : Code, of : Nat, by : Nat]

Value(of, by) == [code |-> "value", of |-> of, by |-> by]
Error(code) == [code |-> code, of |-> 0, by |-> 0]
NoOutcome == Error("none")

IsValue(outcome) == outcome.code = "value"

\* A job: "loading" runs #api, "loaded" has its answer, "settled" has passed
\* .then and .catch, "closed" has passed .finally.
NoJob == [stage |-> "none", key |-> None, generation |-> 0, since |-> 0, outcome |-> NoOutcome, aborted |-> FALSE]

\* A call: "copying" a cached value, "waiting" for a job, or "clearing" after a
\* refusal of its publication; "done" with an outcome.
NoCall == [stage |-> "new", key |-> None, generation |-> 0, job |-> None,
           outcome |-> NoOutcome]

Init ==
    /\ served = 0 /\ noticed = 0
    /\ open = TRUE /\ generation = 0
    /\ cache = [k \in Key |-> None]
    /\ fillers = {}
    /\ pending = [k \in Key |-> None]
    /\ jobs = [c \in Call |-> NoJob]
    /\ calls = [c \in Call |-> NoCall]
    /\ aborted = {}

-----------------------------------------------------------------------------
\* The session a call was made in is still in force.
Current(g) == open /\ generation = g

Consumers(j) == {c \in Call : calls[c].stage = "waiting" /\ calls[c].job = j}

PendingKeys == {k \in Key : pending[k] # None}
PendingJobs == {pending[k] : k \in PendingKeys}

Cached == {k \in Key : cache[k] # None}

Ended(outcome) == [NoCall EXCEPT !.stage = "done", !.outcome = outcome]

\* Fault: the version stays, so that a job under way fills the cleared cache.
ForgetKeepingVersion ==
    /\ cache' = [k \in Key |-> None]
    /\ fillers' = fillers
    /\ noticed' = served

\* Dropping the cache, so that no job under way fills it again: a new version is
\* the version of no job.
Forget ==
    /\ cache' = [k \in Key |-> None]
    /\ fillers' = {}
    /\ noticed' = served

\* Everything is dropped and every job aborted; the abort listeners of the
\* consumers reject them in the same stretch.
Clear ==
    /\ Forget
    /\ pending' = [k \in Key |-> None]
    /\ jobs' = [j \in Call |->
                  IF j \in PendingJobs THEN [jobs[j] EXCEPT !.aborted = TRUE] ELSE jobs[j]]

Rejected(c) == calls[c].stage = "waiting" /\ calls[c].job \in PendingJobs

AfterClear == [c \in Call |-> IF Rejected(c) THEN Ended(Error("cancelled")) ELSE calls[c]]

-----------------------------------------------------------------------------
\* The session ends: its listener clears whatever the session's readers share.
\* dispose() is an end that no sign-in follows.
EndSession ==
    /\ generation < MaxGeneration
    /\ open' = FALSE
    /\ generation' = generation + 1
    /\ Clear
    /\ calls' = AfterClear
    /\ UNCHANGED <<served, aborted>>

\* A sign-in has begun (which ended what was there) and is accepted.
SignIn ==
    /\ ~open
    /\ open' = TRUE
    /\ UNCHANGED <<served, generation, cache, fillers,
                   pending, jobs, calls, aborted, noticed>>

-----------------------------------------------------------------------------
Refuse(c, why) ==
    calls' = [calls EXCEPT ![c] = Ended(Error(why))]

Wait(c, k, j) ==
    calls' = [calls EXCEPT ![c] =
                [stage |-> "waiting", key |-> k, generation |-> generation,
                 job |-> j, outcome |-> NoOutcome]]

\* The cached value is copied; the promise resolves one turn later.
Reuse(c, k) ==
    /\ k \in Cached
    /\ calls' = [calls EXCEPT ![c] =
                   [stage |-> "copying", key |-> k, generation |-> generation,
                    job |-> None, outcome |-> cache[k]]]
    /\ UNCHANGED <<cache, pending, jobs, fillers>>

\* A job under way is shared, whatever it began with.
Join(c, k) ==
    /\ IF Cardinality(Consumers(pending[k])) >= MaxConsumers
       THEN Refuse(c, "unavailable")
       ELSE Wait(c, k, pending[k])
    /\ UNCHANGED <<pending, jobs, fillers>>

Create(c, k) ==
    IF Cardinality(PendingKeys) >= MaxPending
    THEN Refuse(c, "unavailable") /\ UNCHANGED <<pending, jobs, fillers>>
    ELSE /\ pending' = [pending EXCEPT ![k] = c]
         /\ jobs' = [jobs EXCEPT ![c] =
                       [stage |-> "loading", key |-> k, generation |-> generation,
                        since |-> served, outcome |-> NoOutcome, aborted |-> FALSE]]
         /\ fillers' = fillers \union {c}
         /\ Wait(c, k, c)

JoinOrCreate(c, k) == IF pending[k] # None THEN Join(c, k) ELSE Create(c, k)

\* A call of #shared, as far as its first await.  That the caller wants a fresh
\* value and that the entry's thirty seconds are over have the same effect:
\* the entry is dropped.  Which of them is the case is left open.
Ask(c, k) ==
    /\ calls[c].stage = "new"
    /\ \/ /\ ~open
          /\ Refuse(c, "unauthenticated")
          /\ UNCHANGED <<cache, pending, jobs, fillers>>
       \/ /\ open /\ c \in aborted
          /\ Refuse(c, "cancelled")
          /\ UNCHANGED <<cache, pending, jobs, fillers>>
       \/ /\ open /\ c \notin aborted
          /\ \/ Reuse(c, k)
             \/ cache' = [cache EXCEPT ![k] = None] /\ JoinOrCreate(c, k)
    /\ UNCHANGED <<served, session, aborted, noticed>>

Copy(c) ==
    /\ calls[c].stage = "copying"
    /\ calls' = [calls EXCEPT ![c] =
                   IF Current(calls[c].generation) /\ c \notin aborted
                   THEN Ended(calls[c].outcome)
                   ELSE Ended(Error("cancelled"))]
    /\ UNCHANGED <<served, session, cache, fillers, pending, jobs, aborted, noticed>>

\* Fault: whoever leaves takes the job with him.
AnyConsumer(c, j) == c \in Consumers(j)

\* Nobody but c waits for job j.
LastConsumer(c, j) == Consumers(j) = {c}

\* The reader leaves.  Waiting for a job, he is rejected at once, and the last
\* to leave aborts it; anywhere else his signal is looked at later.
Leave(c) ==
    /\ c \notin aborted
    /\ calls[c].stage # "done"
    /\ aborted' = aborted \union {c}
    /\ IF calls[c].stage = "waiting"
       THEN LET j == calls[c].job
                k == calls[c].key
                last == LastConsumer(c, j) /\ pending[k] = j
            IN  /\ pending' = IF last THEN [pending EXCEPT ![k] = None] ELSE pending
                /\ jobs' = IF last THEN [jobs EXCEPT ![j].aborted = TRUE] ELSE jobs
                /\ calls' = [d \in Call |->
                               IF d = c \/ (last /\ d \in Consumers(j))
                               THEN Ended(Error("cancelled"))
                               ELSE calls[d]]
       ELSE UNCHANGED <<pending, jobs, calls>>
    /\ UNCHANGED <<served, session, cache, fillers, noticed>>

-----------------------------------------------------------------------------
\* The transport answers with what the server held at some time since the job
\* began, or fails; an aborted job, or one of an ended session, is cancelled.
Answers(j) ==
    IF jobs[j].aborted \/ ~Current(jobs[j].generation)
    THEN {Error("cancelled")}
    ELSE {Value(of, jobs[j].generation) : of \in jobs[j].since .. served}
            \union {Error("failed")}
            \union (IF jobs[j].key \in Pinned THEN {Error("publication-changed")} ELSE {})

Loaded(j, answer) == [jobs EXCEPT ![j].stage = "loaded", ![j].outcome = answer, ![j].since = 0]

Load(j) ==
    /\ jobs[j].stage = "loading"
    /\ \E answer \in Answers(j) : jobs' = Loaded(j, answer)
    /\ UNCHANGED <<served, session, cache, fillers, pending, calls, aborted, noticed>>

\* A collection whose second freshness report differs from its first returns
\* nothing of what it read, and invalidates the cache.
NoticeChange(j) ==
    /\ jobs[j].stage = "loading"
    /\ jobs[j].key \in Collected
    /\ ~jobs[j].aborted
    /\ Current(jobs[j].generation)
    /\ Forget
    /\ jobs' = Loaded(j, Value(served, jobs[j].generation))
    /\ UNCHANGED <<served, session, pending, calls, aborted>>

\* What .then and .catch make of a job's answer.
Settlement(j) ==
    IF jobs[j].aborted \/ ~Current(jobs[j].generation) \/ Consumers(j) = {}
    THEN Error("cancelled")
    ELSE jobs[j].outcome

\* The cache may take the value, unless it was cleared after the job began.
MayRemember(j) ==
    /\ IsValue(Settlement(j))
    /\ jobs[j].key \in Remembered
    /\ j \in fillers

\* Small enough, the value is kept, and as many of the least recently used
\* entries leave as the number of entries and their sizes demand; which ones
\* those are is left open.
Remember(k, value) ==
    \E evicted \in SUBSET (Cached \ {k}) :
        /\ Cardinality((Cached \ evicted) \union {k}) <= MaxCached
        /\ cache' = [q \in Key |->
                       IF q = k THEN value
                       ELSE IF q \in evicted THEN None ELSE cache[q]]

Settle(j) ==
    /\ jobs[j].stage = "loaded"
    /\ jobs' = [jobs EXCEPT ![j].stage = "settled", ![j].outcome = Settlement(j)]
    /\ \/ MayRemember(j) /\ Remember(jobs[j].key, jobs[j].outcome)
       \/ UNCHANGED cache
    /\ UNCHANGED <<served, session, fillers, pending, calls, aborted, noticed>>

Close(j) ==
    /\ jobs[j].stage = "settled"
    /\ jobs' = [jobs EXCEPT ![j] =
                  [NoJob EXCEPT !.stage = "closed", !.outcome = jobs[j].outcome]]
    /\ pending' = IF pending[jobs[j].key] = j
                  THEN [pending EXCEPT ![jobs[j].key] = None]
                  ELSE pending
    /\ UNCHANGED <<served, session, cache, fillers, calls, aborted, noticed>>

\* Fault: the value is handed over to whoever still waits.
ReceiptUnchecked(c) == jobs[calls[c].job].outcome

\* What a consumer makes of its job's outcome.
Receipt(c) ==
    LET outcome == jobs[calls[c].job].outcome
    IN  IF IsValue(outcome) /\ (~Current(calls[c].generation) \/ c \in aborted)
        THEN Error("cancelled") ELSE outcome

Deliver(c) ==
    /\ calls[c].stage = "waiting"
    /\ jobs[calls[c].job].stage = "closed"
    /\ calls' = [calls EXCEPT ![c] =
                   IF Receipt(c).code = "publication-changed"
                   THEN [calls[c] EXCEPT !.stage = "clearing", !.outcome = Receipt(c)]
                   ELSE Ended(Receipt(c))]
    /\ UNCHANGED <<served, session, cache, fillers, pending, jobs, aborted, noticed>>

\* analysis() passes the refusal of its publication on, after a clear.
ClearAfterRefusal(c) ==
    /\ calls[c].stage = "clearing"
    /\ Clear
    /\ calls' = [AfterClear EXCEPT ![c] = Ended(Error("publication-changed"))]
    /\ UNCHANGED <<served, session, aborted>>

-----------------------------------------------------------------------------
\* The environment: a publication or an import.
Publish ==
    /\ served < MaxServed
    /\ served' = served + 1
    /\ UNCHANGED <<session, cache, fillers, pending, jobs, calls, aborted, noticed>>

\* A turn of the event loop.
Turn ==
    \/ \E j \in Call : Load(j) \/ NoticeChange(j) \/ Settle(j) \/ Close(j)
    \/ \E c \in Call : Copy(c) \/ Deliver(c) \/ ClearAfterRefusal(c)

Next ==
    \/ Turn
    \/ \E c \in Call, k \in Key : Ask(c, k)
    \/ \E c \in Call : Leave(c)
    \/ EndSession
    \/ SignIn
    \/ Publish

Spec == Init /\ [][Next]_vars

-----------------------------------------------------------------------------
JobType ==
    [stage : {"none", "loading", "loaded", "settled", "closed"},
     key : Key \union {None}, generation : Nat, since : Nat,
     outcome : Outcome, aborted : BOOLEAN]

CallType ==
    [stage : {"new", "copying", "waiting", "clearing", "done"},
     key : Key \union {None}, generation : Nat, job : Call \union {None},
     outcome : Outcome]

\* The variables have their types, and the cache, the jobs and their consumers
\* keep to their numbers (#remember's loop, the limits of #shared).
TypeOK ==
    /\ served \in Nat /\ noticed \in 0 .. served
    /\ open \in BOOLEAN /\ generation \in Nat
    /\ cache \in [Key -> Outcome \union {None}] /\ Cardinality(Cached) <= MaxCached
    /\ fillers \subseteq Call
    /\ pending \in [Key -> Call \union {None}] /\ Cardinality(PendingKeys) <= MaxPending
    /\ jobs \in [Call -> JobType]
    /\ calls \in [Call -> CallType]
    /\ \A j \in Call : Cardinality(Consumers(j)) <= MaxConsumers
    /\ aborted \subseteq Call

\* What the readers assume of their session is what SessionLife promises.
Life == INSTANCE SessionLife WITH
    alive <- TRUE, login <- open, Login <- {TRUE}, None <- FALSE

SessionAssumed == Life!Spec

\* Once a change was noticed - by a refused publication, by a collection's second
\* freshness report or by a new session - the cache never again holds what was
\* read before, even when the fetch was under way at the time (#cacheVersion).
CacheNotOlder ==
    \A k \in Cached :
        /\ cache[k].of >= noticed
        /\ cache[k].by = generation

\* A fetch runs for somebody: one that no consumer waits for has been aborted, so
\* that it frees its place in the scheduler; one that is not aborted is the only
\* one of its key; and whoever waits has a job that will answer him (#pending,
\* leave).
OneFetchForSomebody ==
    /\ \A j \in Call : jobs[j].stage = "loading" /\ ~jobs[j].aborted =>
        /\ Consumers(j) # {}
        /\ pending[jobs[j].key] = j
    /\ \A c \in Call : calls[c].stage = "waiting" =>
        /\ jobs[calls[c].job].stage # "none"
        /\ ~jobs[calls[c].job].aborted

Ends(c) == calls[c].stage # "done" /\ calls'[c].stage = "done"

\* A call that ends with a value gets one that was fetched in the session it was
\* asked in, while that session is in force and its reader has not left: neither
\* a shared fetch nor the cache carries a value into another session.
ValuesStayInSession ==
    [][\A c \in Call :
          Ends(c) /\ IsValue(calls'[c].outcome) =>
              /\ calls'[c].outcome.by = calls[c].generation
              /\ Current(calls[c].generation)
              /\ c \notin aborted]_vars

\* A reader is told "cancelled" for a reason of his own: he left, his session is
\* over, or all was cleared.  That somebody who shares the fetch leaves is none.
CancelledForCause ==
    [][\A c \in Call :
          Ends(c) /\ calls'[c].outcome.code = "cancelled" =>
              \/ c \in aborted'
              \/ ~open' \/ generation' # calls[c].generation
              \/ \E d \in Call \ {c} : calls[d].stage = "clearing" /\ Ends(d)]_vars

=============================================================================
