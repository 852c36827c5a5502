--------------------------- MODULE ReadScheduler ---------------------------
(***************************************************************************)
(* The queue that every raw read of a browser session goes through           *)
(* (api/read-scheduler.ts): a few slots, a bounded queue with a deadline, and *)
(* departures spaced and counted over a rolling window.                      *)
(*                                                                         *)
(* Timers run on elapsed time, but spacing and window are measured with      *)
(* Date.now(), which somebody may set.  A timer never fires early; it may      *)
(* fire late.  A job is one call of run with its AbortSignal; several jobs    *)
(* may share a signal.                                                      *)
(***************************************************************************)
EXTENDS Naturals, FiniteSets

CONSTANTS
    Job,         \* calls of run; bounds a model
    None,        \* no time
    Slots,       \* reads that may be active
    MaxQueued,   \* jobs that may wait
    Patience,    \* how long a job may wait
    Gap,         \* between two departures
    Window, MaxStarts,  \* departures in a rolling window
    MaxTime,     \* the bound of elapsed time
    ClockSteps   \* may the wall clock be set?

ASSUME SchedulerConstants ==
    /\ IsFiniteSet(Job)
    /\ None \notin Nat
    /\ {Slots, MaxQueued, Gap, Window, MaxStarts} \subseteq Nat \ {0}
    /\ Patience \in Nat /\ MaxTime \in Nat
    /\ ClockSteps \in BOOLEAN

VARIABLES
    elapsed,     \* what setTimeout measures
    wall,        \* Date.now()
    queue,       \* the jobs that wait; they depart in the order of their tickets
    active,      \* #active
    starts,      \* the departures that #starts still holds
    nextStart,   \* #nextStart
    timer,       \* when #timer fires
    outcome,     \* of the promise that run returned
    ticket,      \* the order in which jobs were queued
    deadline,    \* when the deadline of a queued job fires
    startedAt,   \* the time that #starts holds for a job
    work,        \* the operation behind a job
    aborted,     \* jobs whose signal is aborted
    departed     \* history: the elapsed time at which a job departed

clocks  == <<elapsed, wall>>
pumped  == <<queue, active, starts, nextStart, timer, startedAt>>
vars    == <<clocks, pumped, outcome, ticket, deadline, work, aborted, departed>>

Outcome == {"none", "pending", "queue-full", "cancelled", "queue-timeout", "settled"}

TypeOK ==
    /\ elapsed \in Nat /\ wall \in Nat
    /\ queue \subseteq Job /\ starts \subseteq Job /\ aborted \subseteq Job
    /\ active \in Nat /\ nextStart \in Nat /\ timer \in Nat \union {None}
    /\ outcome \in [Job -> Outcome]
    /\ ticket \in [Job -> Nat] /\ deadline \in [Job -> Nat] /\ startedAt \in [Job -> Nat]
    /\ work \in [Job -> {"none", "working", "answered", "released"}]
    /\ departed \in [Job -> Nat \union {None}]

Init ==
    /\ elapsed = 0 /\ wall = 0
    /\ queue = {} /\ active = 0 /\ starts = {} /\ nextStart = 0 /\ timer = None
    /\ outcome = [j \in Job |-> "none"]
    /\ ticket = [j \in Job |-> 0]
    /\ deadline = [j \in Job |-> 0]
    /\ startedAt = [j \in Job |-> 0]
    /\ work = [j \in Job |-> "none"]
    /\ aborted = {}
    /\ departed = [j \in Job |-> None]

-----------------------------------------------------------------------------
(* #pump, with the queue, the active reads and the work its caller left.     *)

Later(s, t) == IF s > t THEN s ELSE t

\* Fault: the queue is popped.
LastOf(q, order) == CHOOSE j \in q : \A k \in q : order[j] >= order[k]

First(q, order) == CHOOSE j \in q : \A k \in q : order[j] <= order[k]

FreeSlot(a) == a < Slots

\* Departures that still count, and the time of the next one.
Recent == {j \in starts : startedAt[j] + Window > wall}

\* Fault: one departure too many in a window.
ReadyAtOneMore(s, at, order, next) ==
    IF Cardinality(s) > MaxStarts THEN Later(next, at[First(s, order)] + Window) ELSE Later(next, wall)

\* Fault: a full window makes the next departure wait for a whole window.
ReadyAtWholeWindow(s, at, order, next) ==
    IF Cardinality(s) >= MaxStarts THEN Later(next, wall + Window) ELSE Later(next, wall)

ReadyAt(s, at, order, next) ==
    IF Cardinality(s) >= MaxStarts THEN Later(next, at[First(s, order)] + Window) ELSE Later(next, wall)

Ready == ReadyAt(Recent, startedAt, ticket, nextStart)

\* Nothing to start, or no slot for it.
Rest(q, a, wk) ==
    /\ q = {} \/ ~FreeSlot(a)
    /\ queue' = q /\ active' = a /\ work' = wk
    /\ timer' = None
    /\ UNCHANGED <<starts, nextStart, startedAt, departed>>

\* Too early.
Wait(q, a, wk) ==
    /\ q # {} /\ FreeSlot(a)
    /\ Ready > wall
    /\ queue' = q /\ active' = a /\ work' = wk
    /\ starts' = Recent
    /\ timer' = elapsed + (Ready - wall)
    /\ UNCHANGED <<nextStart, startedAt, departed>>

\* The first job starts.
StartThen(q, a, wk, next) ==
    /\ q # {} /\ FreeSlot(a)
    /\ Ready <= wall
    /\ LET j == First(q, ticket') IN
        /\ queue' = q \ {j}
        /\ startedAt' = [startedAt EXCEPT ![j] = wall]
        /\ starts' = Recent \union {j}
        /\ work' = [wk EXCEPT ![j] = "working"]
        /\ departed' = [departed EXCEPT ![j] = elapsed]
    /\ active' = a + 1
    /\ nextStart' = next

Start(q, a, wk) == StartThen(q, a, wk, wall + Gap)

\* Fault: the second pump is forgotten.
DepartOnce(q, a, wk) == Start(q, a, wk) /\ timer' = None

\* Pump runs again, which cannot start another job: the next start lies Gap ahead.
Depart(q, a, wk) ==
    /\ Start(q, a, wk)
    /\ timer' = IF queue' = {} \/ ~FreeSlot(active') THEN None
                ELSE elapsed + (ReadyAt(starts', startedAt', ticket', nextStart') - wall)

Pump(q, a, wk) == Rest(q, a, wk) \/ Wait(q, a, wk) \/ Depart(q, a, wk)

-----------------------------------------------------------------------------
(* run                                                                      *)

Pending == {j \in Job : outcome[j] = "pending"}

RunBegins(j) == outcome[j] = "none"

Refuse(j) ==
    /\ RunBegins(j)
    /\ j \in aborted \/ Cardinality(queue) >= MaxQueued
    /\ outcome' = [outcome EXCEPT ![j] = IF j \in aborted THEN "cancelled" ELSE "queue-full"]
    /\ UNCHANGED <<clocks, pumped, ticket, deadline, work, aborted, departed>>

Enter(j) ==
    /\ RunBegins(j)
    /\ j \notin aborted
    /\ elapsed + Patience <= MaxTime
    /\ outcome' = [outcome EXCEPT ![j] = "pending"]
    /\ ticket' = [ticket EXCEPT ![j] = 1 + Cardinality({k \in Job : ticket[k] > 0})]
    /\ deadline' = [deadline EXCEPT ![j] = elapsed + Patience]
    /\ UNCHANGED <<clocks, aborted>>

Admit(j) ==
    /\ Cardinality(queue) < MaxQueued
    /\ Enter(j)
    /\ Pump(queue \union {j}, active, work)

Run(j) == Refuse(j) \/ Admit(j)

\* A signal that jobs share is aborted: their listeners run one by one, each
\* ending with a pump, which drops other aborted jobs it meets.
AbortSignals(S) ==
    /\ S # {} /\ S \subseteq Job \ aborted
    /\ aborted' = aborted \union S
    /\ outcome' = [j \in Job |-> IF j \in S \intersect Pending THEN "cancelled" ELSE outcome[j]]
    /\ UNCHANGED <<clocks, ticket, deadline>>

\* The last listener leaves nothing, but an earlier one saw a queue.
Emptied(S) ==
    /\ Cardinality(S \intersect Pending) > 1
    /\ queue # {} /\ queue \subseteq S
    /\ FreeSlot(active)

AbortNone(S) ==
    /\ S \intersect Pending = {}
    /\ UNCHANGED <<pumped, work, departed>>

AbortAll(S) ==
    /\ Emptied(S)
    /\ queue' = {}
    /\ starts' = Recent
    /\ timer' = None
    /\ UNCHANGED <<active, nextStart, startedAt, work, departed>>

AbortSome(S) ==
    /\ S \intersect Pending # {}
    /\ ~Emptied(S)
    /\ Pump(queue \ S, active, work)

Abort(S) ==
    /\ AbortSignals(S)
    /\ AbortNone(S) \/ AbortAll(S) \/ AbortSome(S)

\* The deadline of a job that still waits.
Expire(j) ==
    /\ j \in queue
    /\ elapsed >= deadline[j]
    /\ outcome' = [outcome EXCEPT ![j] = "queue-timeout"]
    /\ UNCHANGED <<clocks, ticket, deadline, aborted>>

\* Fault: the job starts for nobody.
DeadlineKeepingPlace(j) ==
    /\ Expire(j)
    /\ Pump(queue, active, work)

Deadline(j) ==
    /\ Expire(j)
    /\ Pump(queue \ {j}, active, work)

\* The operation settles; finish takes its result if nothing settled before.
Answer(j) ==
    /\ work[j] = "working"
    /\ work' = [work EXCEPT ![j] = "answered"]
    /\ outcome' = [outcome EXCEPT ![j] = IF j \in Pending THEN "settled" ELSE @]
    /\ UNCHANGED <<clocks, pumped, ticket, deadline, aborted, departed>>

\* finally, a microtask later, gives the slot back.
Release(j) ==
    /\ work[j] = "answered"
    /\ UNCHANGED <<clocks, outcome, ticket, deadline, aborted>>
    /\ Pump(queue, active - 1, [work EXCEPT ![j] = "released"])

-----------------------------------------------------------------------------
(* Timers and clocks.                                                       *)

Fire ==
    /\ timer # None /\ elapsed >= timer
    /\ UNCHANGED <<clocks, outcome, ticket, deadline, aborted>>
    /\ Pump(queue, active, work)

Tick ==
    /\ elapsed < MaxTime
    /\ elapsed' = elapsed + 1 /\ wall' = wall + 1
    /\ UNCHANGED <<pumped, outcome, ticket, deadline, work, aborted, departed>>

SetClock ==
    /\ ClockSteps
    /\ wall' \in 0 .. MaxTime
    /\ UNCHANGED <<elapsed, pumped, outcome, ticket, deadline, work, aborted, departed>>

Step(j) == Run(j) \/ Deadline(j) \/ Answer(j) \/ Release(j)

Next ==
    \/ \E j \in Job : Step(j)
    \/ \E S \in SUBSET Job : Abort(S)
    \/ Fire \/ Tick \/ SetClock

Spec == Init /\ [][Next]_vars

\* Time passes and a due deadline fires.
TimersRun == WF_vars(Tick) /\ \A j \in Job : WF_vars(Deadline(j))

FairSpec == Spec /\ TimersRun

-----------------------------------------------------------------------------
(* Properties.                                                              *)

HoldsSlot(j) == work[j] \in {"working", "answered"}
Departed == {j \in Job : departed[j] # None}

\* No more reads run than there are slots, whatever their callers have given
\* up: an aborted read keeps its slot until it settles (start, line 66).  No
\* more jobs wait than the queue admits (run, line 33).
BoundsKept ==
    /\ Cardinality({j \in Job : work[j] = "working"}) <= Slots
    /\ Cardinality(queue) <= MaxQueued

\* Whenever a job waits and a slot is free, a timer is set: no path through
\* run, abort, deadline, answer or pump forgets the queue (pump, line 90).
NoLostWakeup == queue # {} /\ FreeSlot(active) => timer # None

\* The jobs that wait are those whose promise is pending and that have not
\* started: nothing starts for a caller who was told otherwise, and no pending
\* caller was forgotten (cancel, deadline, start; lines 48-83).
WaitersAreQueued == queue = {j \in Pending : departed[j] = None}

\* Departures are at least Gap apart, in the time that really passes (pump,
\* line 110); this needs a clock that nobody sets.
DeparturesSpaced ==
    \A j, k \in Departed : j # k =>
        departed[j] + Gap <= departed[k] \/ departed[k] + Gap <= departed[j]

InWindow(t) == {j \in Departed : departed[j] + Window > t}

\* At any time at most MaxStarts departures lie in the window that ends then
\* (pump, lines 95-99); with a clock that nobody sets.
BudgetKept == Cardinality(InWindow(elapsed)) <= MaxStarts

\* What spacing and budget allow at time t.
MayDepart(t) ==
    /\ \A j \in Departed : departed[j] + Gap <= t
    /\ Cardinality(InWindow(t)) < MaxStarts

\* The timer is not set later than these two rules demand (pump, line 101),
\* with a clock that nobody sets.
NoNeedlessWait ==
    timer # None => \A t \in elapsed .. timer - 1 : ~MayDepart(t)

\* Jobs start in the order in which they came (the queue is shifted, line
\* 104), also when those before them are aborted or expire.
DepartsInOrder ==
    [][\A j, k \in Job :
        j \in Departed' \ Departed /\ ticket[k] > 0 /\ ticket[k] < ticket'[j]
        => k \notin queue']_vars

\* A promise settles once: a late answer, abort or deadline does not change
\* what a caller was told (finish, line 41).
SettlesOnce ==
    [][\A j \in Job : outcome[j] \notin {"none", "pending"} => outcome'[j] = outcome[j]]_vars

\* A job does not wait for ever, even if no transport ever answers
\* (deadline, line 54).
WaitingEnds == \A j \in Job : j \in queue ~> j \notin queue

-----------------------------------------------------------------------------
(* Inductive invariants.                                                    *)

Ticketed == {j \in Job : ticket[j] > 0}

\* What every interleaving keeps, however the clock is set: the queue is that
\* of the waiting callers and within its bound, every slot in use is counted
\* once, a timer watches the queue, and tickets tell who came first.
IInv ==
    /\ TypeOK
    /\ WaitersAreQueued
    /\ Cardinality(queue) <= MaxQueued
    /\ active = Cardinality({j \in Job : HoldsSlot(j)}) /\ active <= Slots
    /\ NoLostWakeup
    /\ starts \subseteq Departed
    /\ \A j \in Job : work[j] = "none" <=> departed[j] = None
    /\ \A j \in Job : outcome[j] = "none" => ticket[j] = 0
    /\ queue \union Departed \subseteq Ticketed
    /\ \A j \in Ticketed : ticket[j] <= Cardinality(Ticketed)
    /\ \A j, k \in Ticketed : ticket[j] = ticket[k] => j = k
    /\ \A j \in Departed, k \in queue : ticket[j] < ticket[k]

\* What the pump knows of past departures is what happened, as long as nobody
\* sets the clock.
SyncInv ==
    /\ wall = elapsed
    /\ \A j \in Departed :
        /\ startedAt[j] = departed[j] /\ departed[j] <= elapsed
        /\ departed[j] + Gap <= nextStart
    /\ nextStart = 0 \/ \E j \in Departed : nextStart = departed[j] + Gap
    /\ InWindow(elapsed) \subseteq starts
    /\ \A j, k \in Departed : ticket[j] < ticket[k] => departed[j] <= departed[k]
    /\ DeparturesSpaced
    /\ BudgetKept
    /\ NoNeedlessWait
=============================================================================
