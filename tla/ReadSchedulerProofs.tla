------------------------ MODULE ReadSchedulerProofs ------------------------
(***************************************************************************)
(* Proofs about ReadScheduler, for any number of jobs and any bounds.        *)
(***************************************************************************)
EXTENDS ReadScheduler, FiniteSetTheorems, WellFoundedInduction, TLAPS

USE SchedulerConstants

-----------------------------------------------------------------------------
(* Sets of jobs.                                                            *)

\* Every nonempty set with numbers for its members has a first member (the
\* head of the queue, line 104).
LEMMA FirstIsFirst ==
    ASSUME NEW q, q # {}, NEW order, \A j \in q : order[j] \in Nat
    PROVE  /\ First(q, order) \in q
           /\ \A k \in q : order[First(q, order)] <= order[k]
<1> DEFINE T == {order[j] : j \in q}
<1>1. T \subseteq Nat /\ T # {}
  OBVIOUS
<1>2. PICK m \in T : \A n \in T : ~(<<n, m>> \in OpToRel(<, Nat))
  BY <1>1, NatLessThanWellFounded, WFMin
<1>3. \A n \in T : ~(n < m)
  BY <1>1, <1>2 DEF OpToRel
<1>4. PICK j \in q : m = order[j]
  BY <1>2
<1>5. \A k \in q : order[j] <= order[k]
  BY <1>1, <1>3, <1>4
<1> QED
  BY <1>5 DEF First

\* The time of the next start is a time, no earlier than nextStart (readyAt,
\* lines 96-99).
LEMMA ReadyIsTime ==
    ASSUME NEW s \in SUBSET Job, NEW at \in [Job -> Nat], NEW order \in [Job -> Nat],
           NEW next \in Nat, wall \in Nat
    PROVE  ReadyAt(s, at, order, next) \in Nat /\ ReadyAt(s, at, order, next) >= next
<1>1. CASE Cardinality(s) >= MaxStarts
  <2>1. s # {}
    BY <1>1, FS_EmptySet
  <2>2. at[First(s, order)] \in Nat
    BY <2>1, FirstIsFirst
  <2> QED
    BY <1>1, <2>2 DEF ReadyAt, Later
<1>2. CASE ~(Cardinality(s) >= MaxStarts)
  BY <1>2 DEF ReadyAt, Later
<1> QED
  BY <1>1, <1>2

-----------------------------------------------------------------------------
(* What the callers of pump hand to it, and what it makes of that.          *)

TicketsOf(tk) == {j \in Job : tk[j] > 0}
HoldersOf(wk) == {j \in Job : wk[j] \in {"working", "answered"}}

Consistent(q, a, wk) ==
    /\ elapsed' = elapsed /\ wall' = wall
    /\ outcome' \in [Job -> Outcome] /\ ticket' \in [Job -> Nat]
    /\ deadline' \in [Job -> Nat] /\ aborted' \subseteq Job
    /\ wk \in [Job -> {"none", "working", "answered", "released"}]
    /\ q = {j \in Job : outcome'[j] = "pending" /\ departed[j] = None}
    /\ Cardinality(q) <= MaxQueued
    /\ a = Cardinality(HoldersOf(wk)) /\ a <= Slots
    /\ \A j \in Job : wk[j] = "none" <=> departed[j] = None
    /\ \A j \in Job : outcome'[j] = "none" => ticket'[j] = 0
    /\ q \union Departed \subseteq TicketsOf(ticket')
    /\ \A j \in TicketsOf(ticket') : ticket'[j] <= Cardinality(TicketsOf(ticket'))
    /\ \A j, k \in TicketsOf(ticket') : ticket'[j] = ticket'[k] => j = k
    /\ \A j \in Departed, k \in q : ticket'[j] < ticket'[k]

\* A pump that starts nothing keeps the invariant (lines 93 and 100-103).
LEMMA PumpRests ==
    ASSUME IInv, NEW q, NEW a, NEW wk, Consistent(q, a, wk),
           Rest(q, a, wk) \/ Wait(q, a, wk)
    PROVE  IInv'
<1>1. starts' \subseteq starts /\ queue' = q /\ active' = a /\ work' = wk
      /\ nextStart' = nextStart /\ startedAt' = startedAt /\ departed' = departed
  BY DEF Rest, Wait, Recent
<1>2. timer' \in Nat \union {None} /\ (q # {} /\ FreeSlot(a) => timer' # None)
  <2>1. CASE Rest(q, a, wk)
    BY <2>1 DEF Rest
  <2>2. CASE Wait(q, a, wk)
    <3>1. Recent \in SUBSET Job /\ startedAt \in [Job -> Nat] /\ ticket \in [Job -> Nat]
          /\ nextStart \in Nat /\ wall \in Nat /\ elapsed \in Nat
      BY DEF IInv, TypeOK, Recent
    <3>2. Ready \in Nat
      BY <3>1, ReadyIsTime DEF Ready
    <3> QED
      BY <2>2, <3>1, <3>2 DEF Wait
  <2> QED
    BY <2>1, <2>2
<1>3. IsFiniteSet(HoldersOf(wk)) /\ a \in Nat
  BY FS_Subset, FS_CardinalityType DEF HoldersOf, Consistent
<1>4. TypeOK'
  BY <1>1, <1>2, <1>3 DEF IInv, TypeOK, Consistent
<1>5. {j \in Job : HoldsSlot(j)}' = HoldersOf(wk) /\ Departed' = Departed
      /\ Ticketed' = TicketsOf(ticket')
  BY <1>1 DEF HoldsSlot, HoldersOf, Departed, Ticketed, TicketsOf
<1>6. WaitersAreQueued' /\ NoLostWakeup'
  BY <1>1, <1>2 DEF WaitersAreQueued, NoLostWakeup, Pending, FreeSlot, Consistent
<1>7. starts' \subseteq Departed'
  BY <1>1, <1>5 DEF IInv
<1> QED
  BY <1>1, <1>4, <1>5, <1>6, <1>7 DEF IInv, Consistent

\* So does one that starts a job: it takes a free slot, and its ticket comes
\* before those that still wait (lines 104-112).
LEMMA PumpStarts ==
    ASSUME IInv, NEW q, NEW a, NEW wk, Consistent(q, a, wk), Depart(q, a, wk)
    PROVE  IInv'
<1> DEFINE j == First(q, ticket')
<1>1. j \in q /\ \A k \in q : ticket'[j] <= ticket'[k]
  BY FirstIsFirst DEF Depart, Start, StartThen, Consistent
<1>2. j \in Job /\ outcome'[j] = "pending" /\ departed[j] = None /\ wk[j] = "none"
  BY <1>1 DEF Consistent
<1>3. queue' = q \ {j} /\ active' = a + 1 /\ FreeSlot(a)
      /\ startedAt' = [startedAt EXCEPT ![j] = wall]
      /\ starts' = Recent \union {j}
      /\ work' = [wk EXCEPT ![j] = "working"]
      /\ departed' = [departed EXCEPT ![j] = elapsed]
      /\ nextStart' = wall + Gap
  BY DEF Depart, Start, StartThen
<1> HIDE DEF j
<1>4. IsFiniteSet(HoldersOf(wk)) /\ a \in Nat /\ IsFiniteSet(q)
  BY FS_Subset, FS_CardinalityType DEF HoldersOf, Consistent
<1>5. TypeOK
  BY DEF IInv
<1>6. startedAt' \in [Job -> Nat] /\ departed' \in [Job -> Nat \union {None}]
      /\ work' \in [Job -> {"none", "working", "answered", "released"}]
      /\ starts' \in SUBSET Job /\ nextStart' \in Nat /\ queue' \subseteq Job /\ active' \in Nat
  BY <1>2, <1>3, <1>4, <1>5 DEF TypeOK, Recent, Consistent
<1>7. timer' \in Nat \union {None} /\ (queue' # {} /\ FreeSlot(active') => timer' # None)
  <2>1. timer' = IF queue' = {} \/ ~FreeSlot(active') THEN None
                 ELSE elapsed + (ReadyAt(starts', startedAt', ticket', nextStart') - wall)
    BY DEF Depart
  <2>2. ReadyAt(starts', startedAt', ticket', nextStart') \in Nat
        /\ ReadyAt(starts', startedAt', ticket', nextStart') >= nextStart'
    BY <1>5, <1>6, ReadyIsTime DEF TypeOK, Consistent
  <2>3. nextStart' >= wall /\ wall \in Nat /\ elapsed \in Nat
    BY <1>3, <1>5 DEF TypeOK
  <2> QED
    BY <1>6, <2>1, <2>2, <2>3
<1>8. TypeOK'
  BY <1>5, <1>6, <1>7 DEF TypeOK, Consistent
<1>9. Departed' = Departed \union {j} /\ Ticketed' = TicketsOf(ticket')
  BY <1>2, <1>3, <1>5 DEF Departed, Ticketed, TicketsOf, TypeOK
<1>10. WaitersAreQueued' /\ NoLostWakeup'
  <2>1. queue' = {k \in Job : outcome'[k] = "pending" /\ departed'[k] = None}
    BY <1>2, <1>3, <1>5 DEF Consistent, TypeOK
  <2> QED
    BY <1>7, <2>1 DEF WaitersAreQueued, NoLostWakeup, Pending
<1>0. Slots \in Nat /\ MaxQueued \in Nat
  OBVIOUS
<1>11. Cardinality(queue') <= MaxQueued
  <2>1. Cardinality(q) \in Nat /\ Cardinality(q \ {j}) = Cardinality(q) - 1
    BY <1>1, <1>4, FS_RemoveElement, FS_CardinalityType
  <2>2. Cardinality(q) <= MaxQueued
    BY DEF Consistent
  <2> QED
    BY <1>0, <1>3, <2>1, <2>2
<1>12. active' = Cardinality({k \in Job : HoldsSlot(k)}') /\ active' <= Slots
  <2>1. {k \in Job : HoldsSlot(k)}' = HoldersOf(wk) \union {j}
    BY <1>2, <1>3 DEF HoldsSlot, HoldersOf, Consistent
  <2>2. j \notin HoldersOf(wk)
    BY <1>2 DEF HoldersOf
  <2>3. Cardinality(HoldersOf(wk) \union {j}) = a + 1
    BY <1>4, <2>2, FS_AddElement DEF Consistent
  <2> QED
    <3>1. active' = Cardinality({k \in Job : HoldsSlot(k)}')
      BY <1>3, <2>1, <2>3
    <3>2. active' <= Slots
      BY <1>0, <1>3, <1>4 DEF FreeSlot
    <3> QED
      BY <3>1, <3>2
<1>13. starts' \subseteq Departed'
  BY <1>3, <1>9 DEF IInv, Recent
<1>14. \A k \in Job : work'[k] = "none" <=> departed'[k] = None
  BY <1>2, <1>3, <1>5 DEF Consistent, TypeOK
<1>15. queue' \union Departed' \subseteq Ticketed'
  BY <1>1, <1>3, <1>9 DEF Consistent
<1>16. \A d \in Departed', k \in queue' : ticket'[d] < ticket'[k]
  <2> SUFFICES ASSUME NEW d \in Departed', NEW k \in queue'
               PROVE  ticket'[d] < ticket'[k]
    OBVIOUS
  <2>1. k \in q /\ k # j
    BY <1>3
  <2>2. CASE d = j
    <3>1. j \in TicketsOf(ticket') /\ k \in TicketsOf(ticket')
      BY <1>1, <2>1 DEF Consistent
    <3>2. ticket'[j] # ticket'[k] /\ ticket'[j] \in Nat /\ ticket'[k] \in Nat
      BY <2>1, <3>1 DEF Consistent, TicketsOf
    <3> QED
      BY <1>1, <2>1, <2>2, <3>2
  <2>3. CASE d \in Departed
    BY <2>1, <2>3 DEF Consistent
  <2> QED
    BY <1>9, <2>2, <2>3
<1> QED
  BY <1>8, <1>9, <1>10, <1>11, <1>12, <1>13, <1>14, <1>15, <1>16 DEF IInv, Consistent

\* Every pump keeps the invariant if its caller is consistent.
LEMMA PumpKeeps ==
    ASSUME IInv, NEW q, NEW a, NEW wk, Consistent(q, a, wk), Pump(q, a, wk)
    PROVE  IInv'
  BY PumpRests, PumpStarts DEF Pump

-----------------------------------------------------------------------------
(* The actions.                                                             *)

\* What IInv says of tickets and slots, in the words of Consistent.
LEMMA Bookkeeping ==
    ASSUME IInv
    PROVE  /\ Ticketed = TicketsOf(ticket)
           /\ active = Cardinality(HoldersOf(work)) /\ active <= Slots
           /\ IsFiniteSet(queue) /\ IsFiniteSet(HoldersOf(work)) /\ IsFiniteSet(Ticketed)
           /\ queue = {j \in Job : outcome[j] = "pending" /\ departed[j] = None}
<1>1. {j \in Job : HoldsSlot(j)} = HoldersOf(work)
  BY DEF HoldsSlot, HoldersOf
<1>2. queue = {j \in Job : outcome[j] = "pending" /\ departed[j] = None}
  BY DEF IInv, WaitersAreQueued, Pending
<1> QED
  BY <1>1, <1>2, FS_Subset DEF IInv, HoldersOf, Ticketed, TicketsOf

\* A caller that keeps the tickets and takes nobody into the queue is
\* consistent (cancel, deadline and finally, lines 48-81).
LEMMA KeptTicketsAreConsistent ==
    ASSUME IInv, NEW q \in SUBSET queue, NEW a, NEW wk,
           elapsed' = elapsed, wall' = wall, ticket' = ticket, deadline' = deadline,
           aborted' \subseteq Job, outcome' \in [Job -> Outcome],
           \A j \in Job : outcome'[j] = "none" => outcome[j] = "none",
           q = {j \in Job : outcome'[j] = "pending" /\ departed[j] = None},
           wk \in [Job -> {"none", "working", "answered", "released"}],
           a = Cardinality(HoldersOf(wk)), a <= Slots,
           \A j \in Job : wk[j] = "none" <=> work[j] = "none"
    PROVE  Consistent(q, a, wk)
<1>1. Cardinality(q) <= MaxQueued
  <2>1. Cardinality(q) <= Cardinality(queue) /\ Cardinality(q) \in Nat /\ Cardinality(queue) \in Nat
    BY Bookkeeping, FS_Subset, FS_CardinalityType
  <2>2. Cardinality(queue) <= MaxQueued /\ MaxQueued \in Nat
    BY DEF IInv
  <2> QED
    BY <2>1, <2>2
<1>2. Ticketed = TicketsOf(ticket)
  BY Bookkeeping
<1> QED
  BY <1>1, <1>2 DEF IInv, TypeOK, Consistent

\* A refusal keeps the invariant (run, lines 33-36).
LEMMA RefuseKeeps ==
    ASSUME IInv, NEW j \in Job, Refuse(j)
    PROVE  IInv'
<1>1. UNCHANGED <<elapsed, wall, queue, active, starts, nextStart, timer, startedAt,
                  ticket, deadline, work, aborted, departed>>
  BY DEF Refuse, clocks, pumped
<1>2. outcome[j] = "none"
      /\ outcome' = [outcome EXCEPT ![j] = IF j \in aborted THEN "cancelled" ELSE "queue-full"]
  BY DEF Refuse, RunBegins
<1>3. TypeOK'
  BY <1>1, <1>2 DEF IInv, TypeOK, Outcome
<1>4. WaitersAreQueued'
  BY <1>1, <1>2 DEF IInv, TypeOK, WaitersAreQueued, Pending
<1> QED
  BY <1>1, <1>2, <1>3, <1>4
     DEF IInv, TypeOK, NoLostWakeup, FreeSlot, HoldsSlot, Departed, Ticketed

\* A new job comes last (run, lines 84-86).
LEMMA AdmitIsConsistent ==
    ASSUME IInv, NEW j \in Job, Admit(j)
    PROVE  Consistent(queue \union {j}, active, work)
<1> DEFINE n == 1 + Cardinality(Ticketed)
<1>1. outcome[j] = "none" /\ ticket[j] = 0 /\ departed[j] = None /\ j \notin queue
  <2>1. outcome[j] = "none" /\ ticket[j] = 0
    BY DEF Admit, Enter, RunBegins, IInv
  <2>2. j \notin Ticketed
    BY <2>1 DEF Ticketed
  <2> QED
    BY <2>1, <2>2 DEF IInv, TypeOK, Departed
<1>2. UNCHANGED <<elapsed, wall, aborted>>
      /\ outcome' = [outcome EXCEPT ![j] = "pending"]
      /\ ticket' = [ticket EXCEPT ![j] = n]
      /\ deadline' = [deadline EXCEPT ![j] = elapsed + Patience]
      /\ Cardinality(queue) < MaxQueued
      /\ Pump(queue \union {j}, active, work)
  BY DEF Admit, Enter, clocks, Ticketed
<1>3. Cardinality(Ticketed) \in Nat /\ n \in Nat /\ n > 0
  BY Bookkeeping, FS_CardinalityType
<1> HIDE DEF n
<1>4. TicketsOf(ticket') = Ticketed \union {j} /\ j \notin Ticketed
  BY <1>1, <1>2, <1>3 DEF TicketsOf, Ticketed, IInv, TypeOK
<1>5. Cardinality(TicketsOf(ticket')) = n
  <2>1. Cardinality(Ticketed \union {j}) = Cardinality(Ticketed) + 1
    BY <1>4, Bookkeeping, FS_AddElement
  <2> QED
    BY <1>3, <1>4, <2>1 DEF n
<1>6. outcome' \in [Job -> Outcome] /\ ticket' \in [Job -> Nat] /\ deadline' \in [Job -> Nat]
      /\ aborted' \subseteq Job /\ work \in [Job -> {"none", "working", "answered", "released"}]
  BY <1>2, <1>3 DEF IInv, TypeOK, Outcome
<1>7. queue \union {j} = {k \in Job : outcome'[k] = "pending" /\ departed[k] = None}
  BY <1>1, <1>2, Bookkeeping DEF IInv, TypeOK
<1>8. Cardinality(queue \union {j}) <= MaxQueued
  <2>1. Cardinality(queue \union {j}) = Cardinality(queue) + 1 /\ Cardinality(queue) \in Nat
    BY <1>1, Bookkeeping, FS_AddElement, FS_CardinalityType
  <2>2. MaxQueued \in Nat
    OBVIOUS
  <2> QED
    BY <1>2, <2>1, <2>2
<1>9. \A k \in Ticketed : ticket'[k] = ticket[k] /\ ticket[k] \in Nat /\ ticket[k] < n
  BY <1>1, <1>2, <1>3, <1>4 DEF IInv, TypeOK, Ticketed, n
<1>10. ticket'[j] = n
  BY <1>2 DEF IInv, TypeOK
<1>11. \A k \in TicketsOf(ticket') : ticket'[k] <= Cardinality(TicketsOf(ticket'))
  BY <1>3, <1>4, <1>5, <1>9, <1>10
<1>12. \A k, l \in TicketsOf(ticket') : ticket'[k] = ticket'[l] => k = l
  <2>1. \A k, l \in Ticketed : ticket[k] = ticket[l] => k = l
    BY DEF IInv
  <2> QED
    BY <1>3, <1>4, <1>9, <1>10, <2>1
<1>13. queue \union {j} \union Departed \subseteq TicketsOf(ticket')
  BY <1>4 DEF IInv
<1>14. \A d \in Departed, k \in queue \union {j} : ticket'[d] < ticket'[k]
  <2>1. queue \union Departed \subseteq Ticketed /\ \A d \in Departed, k \in queue : ticket[d] < ticket[k]
    BY DEF IInv
  <2> QED
    BY <1>9, <1>10, <2>1
<1>15. \A k \in Job : outcome'[k] = "none" => ticket'[k] = 0
  BY <1>2 DEF IInv, TypeOK
<1>16. \A k \in Job : work[k] = "none" <=> departed[k] = None
  BY DEF IInv
<1> QED
  BY <1>2, <1>6, <1>7, <1>8, <1>11, <1>12, <1>13, <1>14, <1>15, <1>16, Bookkeeping
     DEF Consistent

\* What aborting does to the callers (cancel, lines 48-53).
LEMMA AbortedCallers ==
    ASSUME IInv, NEW S \in SUBSET Job, Abort(S)
    PROVE  /\ UNCHANGED <<elapsed, wall, ticket, deadline>> /\ aborted' \subseteq Job
           /\ outcome' \in [Job -> Outcome]
           /\ \A j \in Job : outcome'[j] = "none" => outcome[j] = "none"
           /\ queue \ S = {j \in Job : outcome'[j] = "pending" /\ departed[j] = None}
<1>1. UNCHANGED <<elapsed, wall, ticket, deadline>> /\ aborted' \subseteq Job
      /\ outcome' = [j \in Job |-> IF j \in S \intersect Pending THEN "cancelled" ELSE outcome[j]]
  BY DEF Abort, AbortSignals, clocks, IInv, TypeOK
<1>2. outcome' \in [Job -> Outcome]
      /\ \A j \in Job : outcome'[j] = "none" => outcome[j] = "none"
  BY <1>1 DEF IInv, TypeOK, Outcome
<1>3. queue \ S = {j \in Job : outcome'[j] = "pending" /\ departed[j] = None}
  BY <1>1, Bookkeeping DEF Pending
<1> QED
  BY <1>1, <1>2, <1>3

\* An abort after which some still wait (cancel, lines 48-53).
LEMMA AbortIsConsistent ==
    ASSUME IInv, NEW S \in SUBSET Job, Abort(S)
    PROVE  Consistent(queue \ S, active, work)
  BY AbortedCallers, Bookkeeping, KeptTicketsAreConsistent DEF IInv, TypeOK

\* An abort that leaves nothing to pump (lines 43 and 105-108).
LEMMA QuietAbortKeeps ==
    ASSUME IInv, NEW S \in SUBSET Job, Abort(S), AbortNone(S) \/ AbortAll(S)
    PROVE  IInv'
<1>1. UNCHANGED <<elapsed, wall, ticket, deadline>> /\ aborted' \subseteq Job
  BY AbortedCallers
<1>2. outcome' \in [Job -> Outcome]
      /\ \A j \in Job : outcome'[j] = "none" => outcome[j] = "none"
  BY AbortedCallers
<1>3. queue \ S = {j \in Job : outcome'[j] = "pending" /\ departed[j] = None}
  BY AbortedCallers
<1> QED
  <2>1. queue' = queue \ S /\ (queue' # queue => timer' = None /\ queue' = {})
        /\ starts' \subseteq starts /\ timer' \in {timer, None}
        /\ (timer' = timer \/ queue' = {})
        /\ UNCHANGED <<active, nextStart, startedAt, work, departed>>
    <3>1. CASE AbortNone(S)
      <4>1. queue \ S = queue
        BY <3>1, Bookkeeping DEF AbortNone, Pending
      <4> QED
        BY <3>1, <4>1 DEF AbortNone, pumped
    <3>2. CASE AbortAll(S)
      BY <3>2 DEF AbortAll, Emptied, Recent
    <3> QED
      BY <3>1, <3>2
  <2>2. TypeOK'
    BY <1>1, <1>2, <2>1 DEF IInv, TypeOK
  <2>3. WaitersAreQueued'
    BY <1>3, <2>1 DEF WaitersAreQueued, Pending
  <2>4. NoLostWakeup'
    BY <2>1 DEF IInv, NoLostWakeup, FreeSlot
  <2>5. Cardinality(queue') <= MaxQueued
    <3>1. Cardinality(queue \ S) <= Cardinality(queue) /\ Cardinality(queue \ S) \in Nat
          /\ Cardinality(queue) \in Nat
      BY Bookkeeping, FS_Subset, FS_CardinalityType
    <3>2. Cardinality(queue) <= MaxQueued /\ MaxQueued \in Nat
      BY DEF IInv
    <3> QED
      BY <2>1, <3>1, <3>2
  <2>6. Departed' = Departed /\ Ticketed' = Ticketed
        /\ {j \in Job : HoldsSlot(j)}' = {j \in Job : HoldsSlot(j)}
    BY <1>1, <2>1 DEF Departed, Ticketed, HoldsSlot
  <2> QED
    BY <1>1, <1>2, <2>1, <2>2, <2>3, <2>4, <2>5, <2>6 DEF IInv

\* A job that expires leaves the queue and its caller at once (lines 54-58).
LEMMA DeadlineIsConsistent ==
    ASSUME IInv, NEW j \in Job, Deadline(j)
    PROVE  Consistent(queue \ {j}, active, work)
<1>1. UNCHANGED <<elapsed, wall, ticket, deadline, aborted>>
      /\ outcome' = [outcome EXCEPT ![j] = "queue-timeout"]
      /\ Pump(queue \ {j}, active, work)
  BY DEF Deadline, Expire, clocks
<1>2. outcome' \in [Job -> Outcome]
      /\ \A k \in Job : outcome'[k] = "none" => outcome[k] = "none"
  BY <1>1 DEF IInv, TypeOK, Outcome
<1>3. queue \ {j} = {k \in Job : outcome'[k] = "pending" /\ departed[k] = None}
  BY <1>1, Bookkeeping DEF IInv, TypeOK
<1> QED
  BY <1>1, <1>2, <1>3, Bookkeeping, KeptTicketsAreConsistent DEF IInv, TypeOK

\* An answer keeps its slot (lines 73-77).
LEMMA AnswerKeeps ==
    ASSUME IInv, NEW j \in Job, Answer(j)
    PROVE  IInv'
<1>1. UNCHANGED <<elapsed, wall, queue, active, starts, nextStart, timer, startedAt,
                  ticket, deadline, aborted, departed>>
  BY DEF Answer, clocks, pumped
<1>2. work[j] = "working" /\ work' = [work EXCEPT ![j] = "answered"]
      /\ outcome' = [outcome EXCEPT ![j] = IF j \in Pending THEN "settled" ELSE @]
  BY DEF Answer
<1>3. TypeOK'
  BY <1>1, <1>2 DEF IInv, TypeOK, Outcome
<1>4. departed[j] # None
  BY <1>2 DEF IInv
<1>5. WaitersAreQueued'
  BY <1>1, <1>2, <1>4 DEF IInv, TypeOK, WaitersAreQueued, Pending
<1>6. {k \in Job : HoldsSlot(k)}' = {k \in Job : HoldsSlot(k)}
  BY <1>2 DEF HoldsSlot, IInv, TypeOK
<1>7. Departed' = Departed /\ Ticketed' = Ticketed /\ (NoLostWakeup => NoLostWakeup')
  BY <1>1 DEF Departed, Ticketed, NoLostWakeup, FreeSlot
<1>8. \A k \in Job : (work'[k] = "none" <=> work[k] = "none")
                     /\ (outcome'[k] = "none" => outcome[k] = "none")
  BY <1>2 DEF IInv, TypeOK
<1> QED
  BY <1>1, <1>3, <1>5, <1>6, <1>7, <1>8 DEF IInv

\* The slot is given back once (lines 78-81).
LEMMA ReleaseIsConsistent ==
    ASSUME IInv, NEW j \in Job, Release(j)
    PROVE  Consistent(queue, active - 1, [work EXCEPT ![j] = "released"])
<1> DEFINE wk == [work EXCEPT ![j] = "released"]
<1>1. UNCHANGED <<elapsed, wall, outcome, ticket, deadline, aborted>>
      /\ work[j] = "answered" /\ Pump(queue, active - 1, wk)
  BY DEF Release, clocks
<1>2. wk \in [Job -> {"none", "working", "answered", "released"}]
      /\ \A k \in Job : wk[k] = "none" <=> work[k] = "none"
  BY <1>1 DEF IInv, TypeOK
<1>3. HoldersOf(wk) = HoldersOf(work) \ {j} /\ j \in HoldersOf(work)
  BY <1>1 DEF HoldersOf, IInv, TypeOK
<1> HIDE DEF wk
<1>4. active - 1 = Cardinality(HoldersOf(wk)) /\ active - 1 <= Slots
  <2>1. Cardinality(HoldersOf(wk)) = active - 1
    <3>1. active = Cardinality(HoldersOf(work)) /\ IsFiniteSet(HoldersOf(work))
      BY Bookkeeping
    <3>2. Cardinality(HoldersOf(work) \ {j}) = Cardinality(HoldersOf(work)) - 1
      BY <1>3, <3>1, FS_RemoveElement
    <3> QED
      BY <1>3, <3>1, <3>2
  <2>2. active \in Nat /\ active <= Slots /\ Slots \in Nat
    BY DEF IInv, TypeOK
  <2> QED
    BY <2>1, <2>2
<1>5. outcome' \in [Job -> Outcome] /\ aborted' \subseteq Job
      /\ queue = {k \in Job : outcome'[k] = "pending" /\ departed[k] = None}
  BY <1>1, Bookkeeping DEF IInv, TypeOK
<1>6. Consistent(queue, active - 1, wk)
  BY <1>1, <1>2, <1>4, <1>5, KeptTicketsAreConsistent
<1> QED
  BY <1>6 DEF wk

\* A timer that fires, early or late, pumps (line 101).
LEMMA FireIsConsistent ==
    ASSUME IInv, Fire
    PROVE  Consistent(queue, active, work)
<1>1. UNCHANGED <<elapsed, wall, outcome, ticket, deadline, aborted>>
      /\ Pump(queue, active, work)
  BY DEF Fire, clocks
<1>2. outcome' \in [Job -> Outcome] /\ aborted' \subseteq Job
      /\ work \in [Job -> {"none", "working", "answered", "released"}]
      /\ queue = {k \in Job : outcome'[k] = "pending" /\ departed[k] = None}
  BY <1>1, Bookkeeping DEF IInv, TypeOK
<1> QED
  BY <1>1, <1>2, Bookkeeping, KeptTicketsAreConsistent

\* Time and clocks do not touch the queue.
LEMMA ClocksKeep ==
    ASSUME IInv, Tick \/ SetClock \/ UNCHANGED vars
    PROVE  IInv'
<1>1. UNCHANGED <<queue, active, starts, nextStart, timer, startedAt, outcome,
                  ticket, deadline, work, aborted, departed>>
  BY DEF Tick, SetClock, vars, pumped
<1>2. elapsed' \in Nat /\ wall' \in Nat
  BY DEF Tick, SetClock, vars, clocks, IInv, TypeOK
<1> QED
  BY <1>1, <1>2 DEF IInv, TypeOK, WaitersAreQueued, Pending, NoLostWakeup, FreeSlot,
                    HoldsSlot, Departed, Ticketed

\* The steps that pump, each from a consistent state.
Pumping ==
    \/ \E j \in Job : Admit(j) \/ Deadline(j) \/ Release(j)
    \/ \E S \in SUBSET Job : Abort(S) /\ AbortSome(S)
    \/ Fire

\* Whoever pumps is consistent.
LEMMA PumpersAreConsistent ==
    ASSUME IInv, Pumping
    PROVE  \E q, a, wk : Consistent(q, a, wk) /\ Pump(q, a, wk)
<1>1. ASSUME NEW j \in Job, Admit(j) PROVE Pump(queue \union {j}, active, work)
  BY <1>1 DEF Admit
<1>2. ASSUME NEW j \in Job, Deadline(j) PROVE Pump(queue \ {j}, active, work)
  BY <1>2 DEF Deadline
<1>3. ASSUME NEW j \in Job, Release(j) PROVE Pump(queue, active - 1, [work EXCEPT ![j] = "released"])
  BY <1>3 DEF Release
<1>4. ASSUME NEW S \in SUBSET Job, AbortSome(S) PROVE Pump(queue \ S, active, work)
  BY <1>4 DEF AbortSome
<1>5. ASSUME Fire PROVE Pump(queue, active, work)
  BY <1>5 DEF Fire
<1> QED
  BY <1>1, <1>2, <1>3, <1>4, <1>5, AdmitIsConsistent, DeadlineIsConsistent,
     ReleaseIsConsistent, AbortIsConsistent, FireIsConsistent
     DEF Pumping

\* One step keeps the invariant.
LEMMA NextKeeps ==
    ASSUME IInv, [Next]_vars
    PROVE  IInv'
<1>1. CASE Pumping
  BY <1>1, PumpersAreConsistent, PumpKeeps
<1>2. CASE \E j \in Job : Refuse(j) \/ Answer(j)
  BY <1>2, RefuseKeeps, AnswerKeeps
<1>3. CASE \E S \in SUBSET Job : Abort(S) /\ (AbortNone(S) \/ AbortAll(S))
  BY <1>3, QuietAbortKeeps
<1>4. CASE Tick \/ SetClock \/ UNCHANGED vars
  BY <1>4, ClocksKeep
<1> QED
  BY <1>1, <1>2, <1>3, <1>4 DEF Next, Step, Run, Abort, Pumping

\* No interleaving of calls, aborts, deadlines, answers and timers breaks the
\* bookkeeping of the scheduler, however the clock is set.
THEOREM Invariance == Spec => []IInv
<1>1. Init => IInv
  <2> SUFFICES ASSUME Init PROVE IInv
    OBVIOUS
  <2>1. TypeOK
    BY DEF Init, TypeOK, Outcome
  <2>2. {j \in Job : HoldsSlot(j)} = {} /\ Departed = {} /\ Ticketed = {} /\ Pending = {}
    BY DEF Init, HoldsSlot, Departed, Ticketed, Pending
  <2>3. Cardinality({}) = 0
    BY FS_EmptySet
  <2> QED
    BY <2>1, <2>2, <2>3 DEF Init, IInv, WaitersAreQueued, NoLostWakeup
<1>2. IInv /\ [Next]_vars => IInv'
  BY NextKeeps
<1> QED
  BY <1>1, <1>2, PTL DEF Spec

\* Type correctness of the scheduler.
THEOREM TypeCorrect == Spec => []TypeOK
<1>1. IInv => TypeOK
  BY DEF IInv
<1> QED
  BY <1>1, Invariance, PTL

\* No path forgets the queue: a timer watches it whenever a slot is free.
THEOREM NothingIsForgotten == Spec => []NoLostWakeup
<1>1. IInv => NoLostWakeup
  BY DEF IInv
<1> QED
  BY <1>1, Invariance, PTL

\* The queue is that of the callers who still wait.
THEOREM QueueIsOfWaiters == Spec => []WaitersAreQueued
<1>1. IInv => WaitersAreQueued
  BY DEF IInv
<1> QED
  BY <1>1, Invariance, PTL

\* Aborted or not, no more reads run than there are slots.
THEOREM BoundsHold == Spec => []BoundsKept
<1>1. IInv => BoundsKept
  <2> SUFFICES ASSUME IInv PROVE BoundsKept
    OBVIOUS
  <2> DEFINE W == {j \in Job : work[j] = "working"}
  <2>1. W \subseteq HoldersOf(work)
    BY DEF HoldersOf
  <2>2. Cardinality(W) <= Cardinality(HoldersOf(work)) /\ Cardinality(W) \in Nat
        /\ Cardinality(HoldersOf(work)) \in Nat
    BY <2>1, Bookkeeping, FS_Subset, FS_CardinalityType
  <2>3. Cardinality(HoldersOf(work)) <= Slots /\ Slots \in Nat
    BY Bookkeeping
  <2>4. Cardinality(W) <= Slots
    BY <2>2, <2>3
  <2> QED
    BY <2>4 DEF BoundsKept, IInv
<1> QED
  BY <1>1, Invariance, PTL

-----------------------------------------------------------------------------
(* Order and settlement.                                                    *)

\* A job keeps its ticket (a place in the queue is given once, line 85).
LEMMA TicketsStay ==
    ASSUME IInv, [Next]_vars
    PROVE  \A j \in Ticketed : ticket'[j] = ticket[j]
<1>1. CASE \E j \in Job : Admit(j)
  <2>1. PICK j \in Job : Admit(j)
    BY <1>1
  <2>2. ticket[j] = 0 /\ \A k \in Job : k # j => ticket'[k] = ticket[k]
    BY <2>1 DEF Admit, Enter, RunBegins, IInv, TypeOK
  <2> QED
    BY <2>2 DEF Ticketed
<1>2. CASE ~\E j \in Job : Admit(j)
  <2>1. ticket' = ticket
    BY <1>2 DEF Next, Step, Run, Refuse, Abort, AbortSignals, Deadline, Expire, Answer,
                Release, Fire, Tick, SetClock, vars
  <2> QED
    BY <2>1
<1> QED
  BY <1>1, <1>2

\* Jobs start in the order in which they came.
THEOREM FirstComeFirstServed == Spec => DepartsInOrder
<1> DEFINE Ordered == \A j, k \in Job :
        j \in Departed' \ Departed /\ ticket[k] > 0 /\ ticket[k] < ticket'[j] => k \notin queue'
<1>1. IInv /\ [Next]_vars => [Ordered]_vars
  <2> SUFFICES ASSUME IInv, [Next]_vars, NEW j \in Job, NEW k \in Job,
                      j \in Departed', ticket[k] > 0, ticket[k] < ticket'[j], k \in queue'
               PROVE  FALSE
    OBVIOUS
  <2>1. ticket'[j] < ticket'[k] /\ ticket'[j] \in Nat /\ ticket'[k] \in Nat
    BY NextKeeps DEF IInv, TypeOK
  <2>2. ticket'[k] = ticket[k]
    BY TicketsStay DEF Ticketed
  <2> QED
    BY <2>1, <2>2
<1> QED
  BY <1>1, Invariance, PTL DEF Spec, DepartsInOrder

\* A promise settles once.
THEOREM PromisesSettleOnce == Spec => SettlesOnce
<1> DEFINE Once ==
        \A j \in Job : outcome[j] \notin {"none", "pending"} => outcome'[j] = outcome[j]
<1>1. IInv /\ [Next]_vars => [Once]_vars
  <2> SUFFICES ASSUME IInv, Next, NEW j \in Job, outcome[j] \notin {"none", "pending"}
               PROVE  outcome'[j] = outcome[j]
    BY DEF vars
  <2>1. outcome \in [Job -> Outcome]
    BY DEF IInv, TypeOK
  <2>2. ASSUME NEW k \in Job, Run(k) PROVE outcome'[j] = outcome[j]
    BY <2>1, <2>2 DEF Run, Refuse, Admit, Enter, RunBegins
  <2>3. ASSUME NEW k \in Job, Deadline(k) PROVE outcome'[j] = outcome[j]
    <3>1. outcome[k] = "pending" /\ outcome' = [outcome EXCEPT ![k] = "queue-timeout"]
      BY <2>3, Bookkeeping DEF Deadline, Expire
    <3> QED
      BY <2>1, <3>1
  <2>4. ASSUME NEW k \in Job, Answer(k) PROVE outcome'[j] = outcome[j]
    BY <2>1, <2>4 DEF Answer, Pending
  <2>5. ASSUME NEW S \in SUBSET Job, Abort(S) PROVE outcome'[j] = outcome[j]
    BY <2>5 DEF Abort, AbortSignals, Pending
  <2>6. CASE Fire \/ Tick \/ SetClock \/ \E k \in Job : Release(k)
    BY <2>6 DEF Fire, Tick, SetClock, Release
  <2> QED
    BY <2>2, <2>3, <2>4, <2>5, <2>6 DEF Next, Step
<1> QED
  BY <1>1, Invariance, PTL DEF Spec, SettlesOnce

-----------------------------------------------------------------------------
(* Spacing and budget, when nobody sets the clock.                          *)

\* Before the time that readyAt gives, spacing or budget forbid a departure
\* (lines 96-99).
LEMMA ReadyForbids ==
    ASSUME NEW dep \in [Job -> Nat \union {None}], NEW s \in SUBSET Job,
           NEW at \in [Job -> Nat], NEW order \in [Job -> Nat], NEW next \in Nat,
           wall \in Nat, NEW t \in Nat, wall <= t, t < ReadyAt(s, at, order, next),
           \A j \in s : dep[j] # None /\ at[j] = dep[j],
           \A j, k \in s : order[j] <= order[k] => at[j] <= at[k],
           next = 0 \/ \E j \in Job : dep[j] # None /\ next = dep[j] + Gap
    PROVE  \/ \E j \in Job : dep[j] # None /\ t < dep[j] + Gap
           \/ Cardinality({j \in Job : dep[j] # None /\ dep[j] + Window > t}) >= MaxStarts
<1>1. CASE t < next
  BY <1>1
<1>2. CASE ~(t < next)
  <2> DEFINE f == First(s, order)
             W == {j \in Job : dep[j] # None /\ dep[j] + Window > t}
  <2>0. MaxStarts \in Nat /\ MaxStarts # 0 /\ Window \in Nat
    OBVIOUS
  <2>1. Cardinality(s) >= MaxStarts /\ ReadyAt(s, at, order, next) = Later(next, at[f] + Window)
    BY <1>2 DEF ReadyAt, Later
  <2>2. s # {}
    <3>1. Cardinality({}) = 0
      BY FS_EmptySet
    <3>2. ~(Cardinality({}) >= MaxStarts)
      BY <2>0, <3>1
    <3> QED
      BY <2>1, <3>2
  <2>3. f \in s /\ \A j \in s : order[f] <= order[j]
    BY <2>2, FirstIsFirst
  <2> HIDE DEF f
  <2>4. t < at[f] + Window
    BY <1>2, <2>0, <2>1, <2>3 DEF Later
  <2>5. s \subseteq W
    BY <2>0, <2>3, <2>4
  <2>6. Cardinality(s) <= Cardinality(W) /\ Cardinality(s) \in Nat /\ Cardinality(W) \in Nat
    BY <2>5, FS_Subset, FS_CardinalityType
  <2>7. Cardinality(W) >= MaxStarts
    BY <2>0, <2>1, <2>6
  <2> QED
    BY <2>7
<1> QED
  BY <1>1, <1>2

\* With a true clock the pump knows every departure of the window (line 95).
LEMMA RecentIsWindow ==
    ASSUME IInv, SyncInv
    PROVE  Recent = InWindow(elapsed)
  BY DEF IInv, SyncInv, Recent, InWindow

\* A pump that starts nothing (lines 93 and 100-103).
LEMMA PumpRestsInTime ==
    ASSUME IInv, SyncInv, NEW q, NEW a, NEW wk, Consistent(q, a, wk),
           \A j \in Departed : ticket'[j] = ticket[j],
           Rest(q, a, wk) \/ Wait(q, a, wk)
    PROVE  SyncInv'
<1>1. UNCHANGED <<elapsed, wall, nextStart, startedAt, departed>>
      /\ (starts' = starts \/ starts' = Recent)
  BY DEF Rest, Wait, Consistent
<1>2. Departed' = Departed /\ InWindow(elapsed)' = InWindow(elapsed)
  BY <1>1 DEF Departed, InWindow
<1>3. InWindow(elapsed)' \subseteq starts'
  BY <1>1, <1>2, RecentIsWindow DEF SyncInv
<1>4. DeparturesSpaced' /\ BudgetKept'
  BY <1>1, <1>2 DEF SyncInv, DeparturesSpaced, BudgetKept
<1>5. NoNeedlessWait'
  <2>1. CASE Rest(q, a, wk)
    BY <2>1 DEF Rest, NoNeedlessWait
  <2>2. CASE Wait(q, a, wk)
    <3>1. TypeOK /\ wall = elapsed /\ Recent \in SUBSET Job
      BY DEF IInv, SyncInv, TypeOK, Recent
    <3>2. Ready \in Nat
      BY <3>1, ReadyIsTime DEF Ready, TypeOK
    <3>3. timer' = Ready
      BY <2>2, <3>1, <3>2 DEF Wait, TypeOK
    <3>4. \A j \in Recent : departed[j] # None /\ startedAt[j] = departed[j]
      BY DEF IInv, SyncInv, Recent, Departed
    <3>5. \A j, k \in Recent : ticket[j] <= ticket[k] => startedAt[j] <= startedAt[k]
      <4> SUFFICES ASSUME NEW j \in Recent, NEW k \in Recent, ticket[j] <= ticket[k]
                   PROVE  startedAt[j] <= startedAt[k]
        OBVIOUS
      <4>1. j \in Departed /\ k \in Departed /\ j \in Ticketed /\ k \in Ticketed
        BY DEF Recent, IInv
      <4>2. j = k \/ ticket[j] < ticket[k]
        BY <3>1, <4>1 DEF IInv, TypeOK, Ticketed
      <4>3. startedAt[k] \in Nat /\ startedAt[j] = departed[j] /\ startedAt[k] = departed[k]
        BY <3>1, <3>4, <4>1 DEF TypeOK, Departed
      <4> QED
        BY <4>1, <4>2, <4>3 DEF SyncInv
    <3>6. nextStart = 0 \/ \E j \in Job : departed[j] # None /\ nextStart = departed[j] + Gap
      BY DEF SyncInv, Departed
    <3>7. ASSUME NEW t \in elapsed .. Ready - 1 PROVE ~MayDepart(t)
      <4>1. t \in Nat /\ wall <= t /\ t < Ready
        BY <3>1, <3>2 DEF TypeOK
      <4>2. \/ \E j \in Job : departed[j] # None /\ t < departed[j] + Gap
            \/ Cardinality({j \in Job : departed[j] # None /\ departed[j] + Window > t}) >= MaxStarts
        BY <3>1, <3>4, <3>5, <3>6, <4>1, ReadyForbids DEF Ready, TypeOK
      <4>3. InWindow(t) = {j \in Job : departed[j] # None /\ departed[j] + Window > t}
        BY DEF InWindow, Departed
      <4>4. Cardinality(InWindow(t)) \in Nat
        BY FS_Subset, FS_CardinalityType DEF InWindow, Departed
      <4>5. \A j \in Job : departed[j] # None => departed[j] \in Nat
        BY <3>1 DEF TypeOK
      <4> QED
        BY <4>1, <4>2, <4>3, <4>4, <4>5 DEF MayDepart, Departed
    <3>8. \A t : MayDepart(t)' <=> MayDepart(t)
      BY <1>1 DEF MayDepart, InWindow, Departed
    <3> QED
      BY <1>1, <3>3, <3>7, <3>8 DEF NoNeedlessWait
  <2> QED
    BY <2>1, <2>2
<1>6. \A j, k \in Departed' : ticket'[j] < ticket'[k] => departed'[j] <= departed'[k]
  BY <1>1, <1>2 DEF SyncInv
<1> QED
  BY <1>1, <1>2, <1>3, <1>4, <1>5, <1>6 DEF SyncInv

\* A job that starts now comes Gap after the last one, and there is room for it
\* in the window (lines 100-112).
LEMMA PumpStartsInTime ==
    ASSUME IInv, SyncInv, NEW q, NEW a, NEW wk, Consistent(q, a, wk),
           \A j \in Departed : ticket'[j] = ticket[j],
           Depart(q, a, wk)
    PROVE  SyncInv'
<1> DEFINE j == First(q, ticket')
<1>1. j \in q /\ \A k \in q : ticket'[j] <= ticket'[k]
  BY FirstIsFirst DEF Depart, Start, StartThen, Consistent
<1>2. j \in Job /\ j \notin Departed /\ departed[j] = None
  BY <1>1 DEF Consistent, Departed
<1>3. Ready <= wall
      /\ startedAt' = [startedAt EXCEPT ![j] = wall]
      /\ starts' = Recent \union {j}
      /\ departed' = [departed EXCEPT ![j] = elapsed]
      /\ nextStart' = wall + Gap
      /\ elapsed' = elapsed /\ wall' = wall
  BY DEF Depart, Start, StartThen, Consistent
<1>4. timer' = IF queue' = {} \/ ~FreeSlot(active') THEN None
               ELSE elapsed + (ReadyAt(starts', startedAt', ticket', nextStart') - wall)
  BY DEF Depart
<1>5. \A d \in Departed : ticket'[d] < ticket'[j]
  BY <1>1 DEF Consistent
<1> HIDE DEF j
<1>6. TypeOK /\ TypeOK' /\ wall = elapsed /\ elapsed \in Nat /\ Gap \in Nat /\ Gap > 0
      /\ Window \in Nat /\ Window > 0 /\ MaxStarts \in Nat
  <2>1. TypeOK /\ wall = elapsed /\ elapsed \in Nat
    BY DEF IInv, SyncInv, TypeOK
  <2>2. TypeOK'
    BY PumpStarts DEF IInv
  <2> QED
    BY <2>1, <2>2
<1>7. Departed' = Departed \union {j} /\ departed'[j] = elapsed /\ startedAt'[j] = wall
      /\ \A d \in Departed : departed'[d] = departed[d] /\ startedAt'[d] = startedAt[d]
  BY <1>2, <1>3, <1>6 DEF Departed, TypeOK
<1>8. \A d \in Departed : /\ startedAt[d] = departed[d] /\ departed[d] \in Nat
                          /\ departed[d] <= elapsed /\ departed[d] + Gap <= nextStart
  BY <1>6 DEF SyncInv, TypeOK, Departed
<1>9. nextStart <= elapsed /\ nextStart \in Nat
  <2>1. Ready \in Nat /\ Ready >= nextStart /\ nextStart \in Nat
    BY <1>6, ReadyIsTime DEF Ready, TypeOK, Recent
  <2> QED
    BY <1>3, <1>6, <2>1
<1>10. \A d \in Departed' : /\ startedAt'[d] = departed'[d] /\ departed'[d] <= elapsed'
                            /\ departed'[d] + Gap <= nextStart'
  BY <1>3, <1>6, <1>7, <1>8, <1>9
<1>11. \E d \in Departed' : nextStart' = departed'[d] + Gap
  BY <1>3, <1>6, <1>7
<1>12. InWindow(elapsed)' \subseteq starts'
  <2>1. \A d \in Departed : departed'[d] + Window > elapsed' => d \in Recent
    BY <1>3, <1>7, RecentIsWindow DEF InWindow
  <2> QED
    BY <1>3, <1>7, <2>1 DEF InWindow
<1>13. \A d, e \in Departed' : ticket'[d] < ticket'[e] => departed'[d] <= departed'[e]
  <2> SUFFICES ASSUME NEW d \in Departed', NEW e \in Departed', ticket'[d] < ticket'[e]
               PROVE  departed'[d] <= departed'[e]
    OBVIOUS
  <2>1. CASE e = j
    BY <1>3, <1>7, <1>10, <2>1
  <2>2. CASE e # j /\ d = j
    <3>1. ticket'[e] < ticket'[j] /\ ticket'[e] \in Nat /\ ticket'[j] \in Nat
      BY <1>2, <1>5, <1>6, <1>7, <2>2 DEF TypeOK, Departed
    <3> QED
      BY <2>2, <3>1
  <2>3. CASE e # j /\ d # j
    <3>1. d \in Departed /\ e \in Departed
      BY <1>7, <2>3
    <3> QED
      BY <1>7, <3>1 DEF SyncInv
  <2> QED
    BY <2>1, <2>2, <2>3
<1>14. DeparturesSpaced'
  <2> SUFFICES ASSUME NEW d \in Departed', NEW e \in Departed', d # e
               PROVE  departed'[d] + Gap <= departed'[e] \/ departed'[e] + Gap <= departed'[d]
    BY DEF DeparturesSpaced
  <2>1. CASE d = j \/ e = j
    BY <1>6, <1>7, <1>8, <1>9, <2>1
  <2>2. CASE d # j /\ e # j
    BY <1>7, <2>2 DEF SyncInv, DeparturesSpaced
  <2> QED
    BY <2>1, <2>2
<1>15. BudgetKept'
  <2>1. IsFiniteSet(Recent) /\ Cardinality(Recent) \in Nat
    BY <1>6, FS_Subset, FS_CardinalityType DEF Recent, TypeOK
  <2>2. Cardinality(Recent) < MaxStarts
    <3> SUFFICES ASSUME Cardinality(Recent) >= MaxStarts PROVE FALSE
      BY <1>6, <2>1
    <3>1. Recent # {}
      <4>1. Cardinality({}) = 0
        BY FS_EmptySet
      <4>2. ~(Cardinality({}) >= MaxStarts)
        BY <4>1
      <4> QED
        BY <4>2
    <3>2. First(Recent, ticket) \in Recent
      BY <1>6, <3>1, FirstIsFirst DEF Recent, TypeOK
    <3>3. startedAt[First(Recent, ticket)] + Window > wall
          /\ startedAt[First(Recent, ticket)] \in Nat
      BY <1>6, <3>2 DEF Recent, TypeOK
    <3>4. Ready > wall
      BY <1>6, <1>9, <3>3 DEF Ready, ReadyAt, Later
    <3> QED
      BY <1>3, <1>6, <1>9, <3>3, <3>4 DEF Ready, ReadyAt, Later
  <2>3. Cardinality(Recent \union {j}) <= Cardinality(Recent) + 1
        /\ IsFiniteSet(Recent \union {j}) /\ Cardinality(Recent \union {j}) \in Nat
    <3>1. IsFiniteSet(Recent \union {j})
          /\ Cardinality(Recent \union {j}) =
                IF j \in Recent THEN Cardinality(Recent) ELSE Cardinality(Recent) + 1
      BY <2>1, FS_AddElement
    <3> QED
      BY <2>1, <3>1
  <2>4. Cardinality(InWindow(elapsed)') <= Cardinality(Recent \union {j})
        /\ Cardinality(InWindow(elapsed)') \in Nat
    BY <1>3, <1>12, <2>3, FS_Subset, FS_CardinalityType
  <2>5. Cardinality(InWindow(elapsed)') <= MaxStarts
    BY <1>6, <2>1, <2>2, <2>3, <2>4
  <2> QED
    BY <2>5 DEF BudgetKept
<1>16. NoNeedlessWait'
  <2> DEFINE R == ReadyAt(starts', startedAt', ticket', nextStart')
  <2>1. R \in Nat
    BY <1>6, ReadyIsTime DEF TypeOK
  <2>2. timer' = None \/ timer' = R
    BY <1>4, <1>6, <2>1
  <2>3. starts' \subseteq Departed' /\ starts' \subseteq Ticketed'
        /\ \A k, l \in Ticketed' : ticket'[k] = ticket'[l] => k = l
    BY PumpStarts DEF IInv
  <2>4. \A k \in starts' : departed'[k] # None /\ startedAt'[k] = departed'[k]
    BY <1>10, <2>3 DEF Departed
  <2>5. \A k, l \in starts' : ticket'[k] <= ticket'[l] => startedAt'[k] <= startedAt'[l]
    <3> SUFFICES ASSUME NEW k \in starts', NEW l \in starts', ticket'[k] <= ticket'[l]
                 PROVE  startedAt'[k] <= startedAt'[l]
      OBVIOUS
    <3>1. ticket'[k] \in Nat /\ ticket'[l] \in Nat /\ startedAt'[l] \in Nat
      BY <1>6, <2>3 DEF TypeOK, Departed
    <3>2. k = l \/ ticket'[k] < ticket'[l]
      BY <2>3, <3>1
    <3> QED
      BY <1>13, <2>3, <2>4, <3>1, <3>2
  <2>6. \E k \in Job : departed'[k] # None /\ nextStart' = departed'[k] + Gap
    BY <1>11 DEF Departed
  <2>7. ASSUME NEW t \in elapsed .. R - 1
        PROVE  \/ \E k \in Job : departed'[k] # None /\ t < departed'[k] + Gap
               \/ Cardinality({k \in Job : departed'[k] # None /\ departed'[k] + Window > t}) >= MaxStarts
    <3>1. t \in Nat /\ wall <= t /\ t < R
      BY <1>6, <2>1
    <3>2. departed' \in [Job -> Nat \union {None}] /\ starts' \in SUBSET Job
          /\ startedAt' \in [Job -> Nat] /\ ticket' \in [Job -> Nat] /\ nextStart' \in Nat /\ wall \in Nat
      BY <1>6 DEF TypeOK
    <3> QED
      BY <2>4, <2>5, <2>6, <3>1, <3>2, ReadyForbids
  <2> HIDE DEF R
  <2>8. ASSUME NEW t \in elapsed .. R - 1
        PROVE  ~MayDepart(t)'
    <3>1. InWindow(t)' = {k \in Job : departed'[k] # None /\ departed'[k] + Window > t}
      BY DEF InWindow, Departed
    <3>2. Cardinality(InWindow(t)') \in Nat
      BY <3>1, FS_Subset, FS_CardinalityType
    <3>3. \A k \in Job : departed'[k] # None => departed'[k] \in Nat
      BY <1>6 DEF TypeOK
    <3>4. t \in Nat
      BY <1>6, <2>1
    <3>5. CASE \E k \in Job : departed'[k] # None /\ t < departed'[k] + Gap
      BY <1>6, <3>3, <3>4, <3>5 DEF MayDepart, Departed
    <3>6. CASE Cardinality(InWindow(t)') >= MaxStarts
      BY <1>6, <3>2, <3>6 DEF MayDepart
    <3> QED
      BY <2>7, <3>1, <3>5, <3>6
  <2> QED
    BY <1>3, <2>2, <2>8 DEF NoNeedlessWait
<1> QED
  BY <1>3, <1>6, <1>10, <1>11, <1>12, <1>13, <1>14, <1>15, <1>16 DEF SyncInv

\* Every pump, in the hands of a consistent caller.
LEMMA PumpsInTime ==
    ASSUME IInv, SyncInv, NEW q, NEW a, NEW wk, Consistent(q, a, wk),
           \A j \in Departed : ticket'[j] = ticket[j],
           Pump(q, a, wk)
    PROVE  SyncInv'
  BY PumpRestsInTime, PumpStartsInTime DEF Pump

\* A step with a true clock.
LEMMA NextInTime ==
    ASSUME IInv, SyncInv, ~ClockSteps, [Next]_vars
    PROVE  SyncInv'
<1>1. \A j \in Departed : ticket'[j] = ticket[j]
  BY TicketsStay DEF IInv
<1>2. CASE Pumping
  BY <1>1, <1>2, PumpersAreConsistent, PumpsInTime
<1>3. CASE \/ \E j \in Job : Refuse(j) \/ Answer(j)
           \/ \E S \in SUBSET Job : Abort(S) /\ AbortNone(S)
           \/ UNCHANGED vars
  <2>1. UNCHANGED <<elapsed, wall, starts, nextStart, timer, startedAt, ticket, departed>>
    BY <1>3 DEF Refuse, Answer, Abort, AbortSignals, AbortNone, vars, clocks, pumped
  <2> QED
    BY <2>1 DEF SyncInv, DeparturesSpaced, BudgetKept, NoNeedlessWait, MayDepart, InWindow, Departed
<1>4. CASE \E S \in SUBSET Job : Abort(S) /\ AbortAll(S)
  <2>1. UNCHANGED <<elapsed, wall, nextStart, startedAt, ticket, departed>>
        /\ starts' = Recent /\ timer' = None
    BY <1>4 DEF Abort, AbortSignals, AbortAll, clocks
  <2>2. Departed' = Departed /\ InWindow(elapsed)' = InWindow(elapsed)
    BY <2>1 DEF Departed, InWindow
  <2>3. DeparturesSpaced' /\ BudgetKept' /\ NoNeedlessWait'
    BY <2>1, <2>2 DEF SyncInv, DeparturesSpaced, BudgetKept, NoNeedlessWait
  <2> QED
    BY <2>1, <2>2, <2>3, RecentIsWindow DEF SyncInv
<1>5. CASE Tick
  <2>1. UNCHANGED <<starts, nextStart, timer, startedAt, ticket, departed>>
        /\ elapsed' = elapsed + 1 /\ wall' = wall + 1 /\ elapsed \in Nat
    BY <1>5 DEF Tick, pumped, IInv, TypeOK
  <2>2. Departed' = Departed /\ \A j \in Departed : departed[j] \in Nat
    BY <2>1 DEF Departed, IInv, TypeOK
  <2>3. InWindow(elapsed)' \subseteq InWindow(elapsed)
    BY <2>1, <2>2 DEF InWindow
  <2>4. DeparturesSpaced'
    BY <2>1, <2>2 DEF SyncInv, DeparturesSpaced
  <2>5. BudgetKept'
    <3>1. IsFiniteSet(InWindow(elapsed))
      BY FS_Subset DEF InWindow, Departed
    <3>2. /\ Cardinality(InWindow(elapsed)') <= Cardinality(InWindow(elapsed))
          /\ Cardinality(InWindow(elapsed)') \in Nat /\ Cardinality(InWindow(elapsed)) \in Nat
      BY <2>3, <3>1, FS_Subset, FS_CardinalityType
    <3>3. Cardinality(InWindow(elapsed)) <= MaxStarts /\ MaxStarts \in Nat
      BY DEF SyncInv, BudgetKept
    <3>4. Cardinality(InWindow(elapsed)') <= MaxStarts
      BY <3>2, <3>3
    <3> QED
      BY <3>4 DEF BudgetKept
  <2>6. NoNeedlessWait'
    <3>1. \A t : MayDepart(t)' <=> MayDepart(t)
      BY <2>1 DEF MayDepart, InWindow, Departed
    <3>2. timer # None => \A t \in elapsed .. timer - 1 : ~MayDepart(t)
      BY DEF SyncInv, NoNeedlessWait
    <3>3. timer # None => elapsed + 1 .. timer - 1 \subseteq elapsed .. timer - 1
      BY <2>1 DEF IInv, TypeOK
    <3> QED
      BY <2>1, <3>1, <3>2, <3>3 DEF NoNeedlessWait
  <2>7. wall' = elapsed' /\ \A j \in Departed : departed[j] <= elapsed'
    BY <2>1, <2>2 DEF SyncInv
  <2> QED
    BY <2>1, <2>2, <2>3, <2>4, <2>5, <2>6, <2>7 DEF SyncInv
<1>6. CASE SetClock
  BY <1>6 DEF SetClock
<1> QED
  BY <1>2, <1>3, <1>4, <1>5, <1>6 DEF Next, Step, Run, Abort, Pumping

\* As long as nobody sets the clock, departures are spaced, the budget is kept,
\* and no timer waits longer than the two demand.
THEOREM KeepsTime == ~ClockSteps /\ Spec => []SyncInv
<1> SUFFICES ASSUME ~ClockSteps PROVE Spec => []SyncInv
  OBVIOUS
<1>1. Init => SyncInv
  <2> SUFFICES ASSUME Init PROVE SyncInv
    OBVIOUS
  <2>1. Departed = {} /\ InWindow(elapsed) = {}
    BY DEF Init, Departed, InWindow
  <2>2. Cardinality({}) = 0
    BY FS_EmptySet
  <2> QED
    BY <2>1, <2>2 DEF Init, SyncInv, DeparturesSpaced, BudgetKept, NoNeedlessWait
<1>2. IInv /\ SyncInv /\ [Next]_vars => SyncInv'
  BY NextInTime
<1> QED
  BY <1>1, <1>2, Invariance, PTL DEF Spec

\* Departures are at least Gap apart.
THEOREM SpacingHolds == ~ClockSteps /\ Spec => []DeparturesSpaced
<1>1. SyncInv => DeparturesSpaced
  BY DEF SyncInv
<1> QED
  BY <1>1, KeepsTime, PTL

\* No window holds more departures than the budget.
THEOREM BudgetHolds == ~ClockSteps /\ Spec => []BudgetKept
<1>1. SyncInv => BudgetKept
  BY DEF SyncInv
<1> QED
  BY <1>1, KeepsTime, PTL

\* No job waits for a timer that is set too late.
THEOREM NoTimeIsLost == ~ClockSteps /\ Spec => []NoNeedlessWait
<1>1. SyncInv => NoNeedlessWait
  BY DEF SyncInv
<1> QED
  BY <1>1, KeepsTime, PTL
=============================================================================
