------------------------ MODULE BrowserSessionProofs ------------------------
(***************************************************************************)
(* Proofs about BrowserSession, for any number of sign-ins, callbacks and    *)
(* reads, any clock and any lifetimes.                                     *)
(***************************************************************************)
EXTENDS BrowserSession, TLAPS

-----------------------------------------------------------------------------
(* What the building blocks of the actions do.                              *)

\* A step that changes the stage of a flow changes nothing else of any flow.
LEMMA FlowStage ==
    ASSUME flow \in [Flow -> FlowRow], NEW f \in Flow,
           NEW st \in {"done"} \union SignInStage \union CompleteStage,
           flow' = [flow EXCEPT ![f].stage = st]
    PROVE  /\ flow' \in [Flow -> FlowRow]
           /\ flow'[f].stage = st
           /\ \A g \in Flow \ {f} : flow'[g] = flow[g]
           /\ \A g \in Flow : /\ flow'[g].op = flow[g].op
                              /\ flow'[g].txn = flow[g].txn
                              /\ flow'[g].state = flow[g].state
<1> DEFINE new == [flow[f] EXCEPT !.stage = st]
<1>1. flow[f] \in FlowRow
  OBVIOUS
<1>2. /\ new \in FlowRow /\ new.stage = st
      /\ new.op = flow[f].op /\ new.txn = flow[f].txn /\ new.state = flow[f].state
  BY <1>1 DEF FlowRow
<1>3. flow' = [flow EXCEPT ![f] = new]
  OBVIOUS
<1> HIDE DEF new
<1>4. QED
  BY <1>2, <1>3

\* The same for a read.
LEMMA ReadStage ==
    ASSUME read \in [Read -> ReadRow], NEW r \in Read,
           NEW st \in {"working", "refused", "delivered", "dropped"},
           read' = [read EXCEPT ![r].stage = st]
    PROVE  /\ read' \in [Read -> ReadRow]
           /\ read'[r].stage = st
           /\ \A s \in Read \ {r} : read'[s] = read[s]
           /\ \A s \in Read : read'[s].op = read[s].op /\ read'[s].login = read[s].login
<1> DEFINE new == [read[r] EXCEPT !.stage = st]
<1>1. read[r] \in ReadRow
  OBVIOUS
<1>2. new \in ReadRow /\ new.stage = st /\ new.op = read[r].op /\ new.login = read[r].login
  BY <1>1 DEF ReadRow
<1>3. read' = [read EXCEPT ![r] = new]
  OBVIOUS
<1> HIDE DEF new
<1>4. QED
  BY <1>2, <1>3

\* A document that is gone runs nothing, and nothing else of it changes.
LEMMA Discarded ==
    ASSUME flow \in [Flow -> FlowRow], read \in [Read -> ReadRow], Discard
    PROVE  /\ flow' \in [Flow -> FlowRow] /\ read' \in [Read -> ReadRow]
           /\ \A f \in Flow :
                flow'[f].stage = IF Running(f) THEN "done" ELSE flow[f].stage
           /\ \A f \in Flow : /\ flow'[f].op = flow[f].op
                              /\ flow'[f].txn = flow[f].txn
           /\ \A r \in Read : ~InFlight(r)'
<1>1. \A f \in Flow : flow[f] \in FlowRow
  OBVIOUS
<1>2. \A f \in Flow : LET new == [flow[f] EXCEPT !.stage = "done"] IN
        /\ new \in FlowRow /\ new.stage = "done"
        /\ new.op = flow[f].op /\ new.txn = flow[f].txn
  BY <1>1 DEF FlowRow
<1>3. \A r \in Read : read[r] \in ReadRow
  OBVIOUS
<1>4. \A r \in Read : LET new == [read[r] EXCEPT !.stage = "dropped"] IN
        new \in ReadRow /\ new.stage = "dropped"
  BY <1>3 DEF ReadRow
<1>5. flow' \in [Flow -> FlowRow]
  BY <1>1, <1>2 DEF Discard
<1>6. read' \in [Read -> ReadRow]
  BY <1>3, <1>4 DEF Discard
<1>7. \A f \in Flow : /\ flow'[f].stage = IF Running(f) THEN "done" ELSE flow[f].stage
                      /\ flow'[f].op = flow[f].op /\ flow'[f].txn = flow[f].txn
  BY <1>1, <1>2 DEF Discard
<1>8. \A r \in Read : ~InFlight(r)'
  BY <1>3, <1>4 DEF Discard, InFlight
<1>9. QED
  BY <1>5, <1>6, <1>7, <1>8

-----------------------------------------------------------------------------
(* Type correctness.                                                        *)

\* The initial state is typed.
LEMMA InitTyped == Init => TypeOK
<1> SUFFICES ASSUME Init PROVE TypeOK
  OBVIOUS
<1>1. [stage |-> "new", op |-> 0, txn |-> None, state |-> None] \in FlowRow
  BY DEF FlowRow
<1>2. [stage |-> "new", op |-> 0, login |-> None] \in ReadRow
  BY DEF ReadRow
<1>3. flow \in [Flow -> FlowRow] /\ read \in [Read -> ReadRow]
  BY <1>1, <1>2 DEF Init
<1>4. QED
  BY <1>3 DEF Init, TypeOK

\* Ending a session leaves a typed session.
LEMMA EndTyped ==
    ASSUME TypeOK, NEW o \in {"idle", "error", "expired", "signed-out"}, End(o)
    PROVE  /\ phase' \in {"idle", "pending", "authenticated", "error", "expired", "signed-out"}
           /\ generation' \in Nat /\ credentials' = None /\ cancelled' \subseteq Flow
BY DEF TypeOK, End

\* So does a check of the expiry.
LEMMA RecheckTyped ==
    ASSUME TypeOK, Recheck
    PROVE  /\ phase' \in {"idle", "pending", "authenticated", "error", "expired", "signed-out"}
           /\ generation' \in Nat /\ credentials' \in Login \union {None}
           /\ cancelled' \subseteq Flow
BY EndTyped DEF TypeOK, Recheck, session

\* Every step keeps the types.
LEMMA NextTyped == TypeOK /\ [Next]_vars => TypeOK'
<1> SUFFICES ASSUME TypeOK, [Next]_vars PROVE TypeOK'
  OBVIOUS
<1> USE SessionConstants DEF session, history
<1>1. CASE Tick
  BY <1>1 DEF Tick, TypeOK, Instant
<1>2. CASE CheckExpiry
  BY <1>2, EndTyped DEF CheckExpiry, TypeOK
<1>3. CASE Logout
  BY <1>3, EndTyped DEF Logout, TypeOK
<1>4. CASE Hide
  <2>1. /\ phase' \in {"idle", "pending", "authenticated", "error", "expired", "signed-out"}
        /\ generation' \in Nat /\ credentials' = None /\ cancelled' \subseteq Flow
    BY <1>4, EndTyped DEF Hide
  <2>2. flow' \in [Flow -> FlowRow] /\ read' \in [Read -> ReadRow]
    BY <1>4, Discarded DEF Hide, TypeOK
  <2>3. /\ doc' \in {"open", "cached", "gone"} /\ leaving' \in BOOLEAN
        /\ redirect' \in Transaction \union {None} /\ busy' \in Flow \union {None}
    BY <1>4 DEF Hide, TypeOK
  <2>4. QED
    BY <1>4, <2>1, <2>2, <2>3 DEF Hide, TypeOK
<1>5. CASE Kill \/ Evict
  BY <1>5, Discarded, EndTyped DEF Kill, Evict, TypeOK
<1>6. CASE Show
  BY <1>6, EndTyped DEF Show, TypeOK
<1>7. CASE Open
  BY <1>7 DEF Open, TypeOK
<1>8. ASSUME NEW f \in Flow, SignIn(f)
      PROVE  TypeOK'
  <2>1. generation' \in Nat /\ cancelled' \subseteq Flow
    BY <1>8 DEF SignIn, TypeOK
  <2>2. flow' \in [Flow -> FlowRow]
    <3>1. flow[f] \in FlowRow
      BY DEF TypeOK
    <3>2. [flow[f] EXCEPT !.stage = "discovering", !.op = generation'] \in FlowRow
      BY <2>1, <3>1 DEF FlowRow, SignInStage
    <3>3. QED
      BY <1>8, <3>2 DEF SignIn, TypeOK
  <2>3. QED
    BY <1>8, <2>1, <2>2 DEF SignIn, TypeOK
<1>9. ASSUME NEW f \in Flow, Authorize(f)
      PROVE  TypeOK'
  BY <1>9 DEF Authorize, TypeOK
<1>10. ASSUME NEW f \in Flow, Prepare(f)
       PROVE  TypeOK'
  BY <1>10, FlowStage DEF Prepare, Advance, TypeOK, SignInStage
<1>11. ASSUME NEW f \in Flow, Leave(f)
       PROVE  TypeOK'
  <2>1. redirect' \in Transaction
    BY <1>11 DEF Leave, TypeOK, Transaction
  <2>2. flow' \in [Flow -> FlowRow] /\ busy' \in Flow \union {None}
    BY <1>11, FlowStage DEF Leave, Finish, TypeOK
  <2>3. QED
    BY <1>11, <2>1, <2>2 DEF Leave, TypeOK
<1>12. ASSUME NEW f \in Flow, Locate(f)
       PROVE  TypeOK'
  BY <1>12, FlowStage DEF Locate, Advance, TypeOK, CompleteStage
<1>13. ASSUME NEW f \in Flow, Exchange(f)
       PROVE  TypeOK'
  <2>1. flow' \in [Flow -> FlowRow]
    BY <1>13, FlowStage DEF Exchange, Advance, TypeOK, CompleteStage
  <2>2. exchanges' \in [Flow -> Nat]
    <3> DEFINE t == flow[f].txn
    <3>1. exchanges' = [exchanges EXCEPT ![t] = exchanges[t] + 1]
      BY <1>13 DEF Exchange
    <3>2. exchanges \in [Flow -> Nat]
      BY DEF TypeOK
    <3> HIDE DEF t
    <3>3. CASE t \in Flow
      BY <3>1, <3>2, <3>3
    <3>4. CASE t \notin Flow
      BY <3>1, <3>2, <3>4
    <3>5. QED
      BY <3>3, <3>4
  <2>3. QED
    BY <1>13, <2>1, <2>2 DEF Exchange, TypeOK
<1>14. ASSUME NEW f \in Flow, Validate(f)
       PROVE  TypeOK'
  BY <1>14, FlowStage DEF Validate, Advance, TypeOK, CompleteStage
<1>15. ASSUME NEW f \in Flow, Accept(f)
       PROVE  TypeOK'
  <2>1. flow' \in [Flow -> FlowRow] /\ busy' \in Flow \union {None}
    BY <1>15, FlowStage DEF Accept, Finish, TypeOK
  <2>2. PICK e \in Instant :
          IF e - now > Day
          THEN End("expired")
          ELSE /\ credentials' = [login |-> f, expiresAt |-> e]
               /\ phase' = "authenticated"
               /\ UNCHANGED <<generation, cancelled>>
    BY <1>15 DEF Accept
  <2>3. /\ phase' \in {"idle", "pending", "authenticated", "error", "expired", "signed-out"}
        /\ generation' \in Nat /\ credentials' \in Login \union {None}
        /\ cancelled' \subseteq Flow
    BY <2>2, EndTyped DEF TypeOK, Login
  <2>4. QED
    BY <1>15, <2>1, <2>3 DEF Accept, TypeOK
<1>16. ASSUME NEW f \in Flow, FailFlow(f)
       PROVE  TypeOK'
  <2>1. flow' \in [Flow -> FlowRow] /\ busy' \in Flow \union {None}
    BY <1>16, FlowStage DEF FailFlow, Finish, TypeOK
  <2>2. /\ phase' \in {"idle", "pending", "authenticated", "error", "expired", "signed-out"}
        /\ generation' \in Nat /\ credentials' \in Login \union {None}
        /\ cancelled' \subseteq Flow
    BY <1>16, EndTyped, RecheckTyped DEF FailFlow
  <2>3. leaving' \in BOOLEAN /\ redirect' \in Transaction \union {None}
    BY <1>16 DEF FailFlow, TypeOK
  <2>4. QED
    BY <1>16, <2>1, <2>2, <2>3 DEF FailFlow, TypeOK
<1>17. ASSUME NEW f \in Flow, NEW t \in Flow, Return(f, t)
       PROVE  TypeOK'
  <2>1. flow' \in [Flow -> FlowRow]
    <3>1. CASE Acceptable(redirect)
      <4>1. [stage |-> "binding", op |-> 1, txn |-> redirect.txn, state |-> t] \in FlowRow
        BY <3>1 DEF Acceptable, TypeOK, Transaction, FlowRow, CompleteStage
      <4>2. QED
        BY <1>17, <3>1, <4>1 DEF Return, TypeOK
    <3>2. CASE ~Acceptable(redirect)
      BY <1>17, <3>2, FlowStage DEF Return, TypeOK
    <3>3. QED
      BY <3>1, <3>2
  <2>2. QED
    BY <1>17, <2>1 DEF Return, TypeOK
<1>18. ASSUME NEW r \in Read, StartRead(r)
       PROVE  TypeOK'
  <2>1. [stage |-> "working", op |-> generation, login |-> credentials.login] \in ReadRow
    BY <1>18 DEF StartRead, TypeOK, Login, ReadRow
  <2>2. QED
    BY <1>18, <2>1 DEF StartRead, TypeOK
<1>19. ASSUME NEW r \in Read, Deliver(r)
       PROVE  TypeOK'
  BY <1>19, ReadStage DEF Deliver, TypeOK
<1>20. ASSUME NEW r \in Read, Refuse(r)
       PROVE  TypeOK'
  BY <1>20, ReadStage DEF Refuse, TypeOK
<1>21. ASSUME NEW r \in Read, EndRefused(r)
       PROVE  TypeOK'
  <2>1. read' \in [Read -> ReadRow]
    BY <1>21, ReadStage DEF EndRefused, TypeOK
  <2>2. QED
    BY <1>21, <2>1, EndTyped DEF EndRefused, TypeOK
<1>22. ASSUME NEW r \in Read, Drop(r)
       PROVE  TypeOK'
  <2>1. read' \in [Read -> ReadRow]
    BY <1>22, ReadStage DEF Drop, TypeOK
  <2>2. QED
    BY <1>22, <2>1, RecheckTyped DEF Drop, TypeOK
<1>23. CASE UNCHANGED vars
  BY <1>23 DEF vars, TypeOK
<1>24. QED
  BY <1>1, <1>2, <1>3, <1>4, <1>5, <1>6, <1>7, <1>8, <1>9, <1>10, <1>11, <1>12, <1>13,
     <1>14, <1>15, <1>16, <1>17, <1>18, <1>19, <1>20, <1>21, <1>22, <1>23 DEF Next, Continue

-----------------------------------------------------------------------------
(* The inductive invariant.                                                 *)

\* It holds of the first document.
LEMMA InitInv == Init => IInv
<1> SUFFICES ASSUME Init PROVE IInv
  OBVIOUS
<1>1. TypeOK
  BY InitTyped
<1>2. \A f \in Flow : /\ flow[f].stage = "new" /\ ~Running(f)
                      /\ exchanges[f] = 0 /\ \A t \in Flow : ~Holds(f, t)
  BY DEF Init, Running, Holds
<1>3. \A r \in Read : ~InFlight(r)
  BY DEF Init, InFlight
<1>4. PhaseInv /\ FlowInv /\ ReadInv
  BY <1>2, <1>3 DEF Init, PhaseInv, FlowInv, ReadInv
<1>5. TransactionInv
  BY <1>2 DEF Init, TransactionInv, CompleteStage
<1>6. NotSignedInLate /\ ExchangedOnce /\ NothingLeftBehind /\ BusyIsCurrent
  BY <1>2 DEF Init, NotSignedInLate, ExchangedOnce, NothingLeftBehind, BusyIsCurrent
<1>7. QED
  BY <1>1, <1>4, <1>5, <1>6 DEF IInv

\* Ending a session is always safe: nothing that still runs for it is current
\* afterwards.  Flows and reads may end in the same step; no transaction stays
\* in storage, unless the document goes with it.
LEMMA EndKeeps ==
    ASSUME IInv, TypeOK',
           NEW o \in {"idle", "error", "expired", "signed-out"}, End(o),
           \A f \in Flow :
              /\ \/ flow'[f].stage = flow[f].stage
                 \/ Running(f) /\ flow'[f].stage = "done"
              /\ flow'[f].op = flow[f].op /\ flow'[f].txn = flow[f].txn,
           \A r \in Read : InFlight(r)' => InFlight(r) /\ read'[r] = read[r],
           doc' = "gone" => \A f \in Flow : ~Running(f)',
           doc' = "gone" => \A r \in Read : ~InFlight(r)',
           doc # "gone",
           exchanges' = exchanges,
           busy' = None, leaving' = FALSE,
           redirect' \in {redirect, None},
           doc' = "open" => redirect' = None
    PROVE  IInv'
<1>1. phase' = o /\ generation' = generation + 1 /\ credentials' = None
      /\ generation \in Nat
  BY DEF End, IInv, TypeOK
<1>2. PhaseInv'
  BY <1>1 DEF PhaseInv
<1>3. \A f \in Flow : Running(f)' => Running(f)
  BY DEF Running
<1>4. cancelled' = cancelled \union {f \in Flow : Running(f)}
  BY DEF End
<1>5. FlowInv'
  <2>1. \A f \in Flow :
          Running(f)' => doc' # "gone" /\ flow'[f].op <= generation /\ flow'[f].op \in Nat
    BY <1>3 DEF IInv, FlowInv, TypeOK, FlowRow
  <2>2. \A f \in cancelled' : f \in Flow /\ flow[f].stage # "new"
    BY <1>4 DEF IInv, FlowInv, TypeOK, Running
  <2>3. \A f \in cancelled' : flow'[f].stage # "new"
    BY <2>2 DEF Running
  <2>4. QED
    BY <1>1, <2>1, <2>3 DEF FlowInv
<1>6. ReadInv'
  <2>1. \A r \in Read :
          InFlight(r)' => doc' # "gone" /\ read'[r].op <= generation /\ read'[r].op \in Nat
    BY DEF IInv, ReadInv, TypeOK, ReadRow
  <2>2. QED
    BY <1>1, <2>1 DEF ReadInv
<1>7. TransactionInv'
  <2>1. \A f, t \in Flow : Holds(f, t)' => Holds(f, t)
    BY DEF Holds
  <2>2. \A f \in Flow : flow'[f].stage \in CompleteStage => flow[f].stage \in CompleteStage
    BY DEF CompleteStage
  <2>3. \A f \in Flow : flow[f].stage = "done" => flow'[f].stage = "done"
    OBVIOUS
  <2>4. redirect' # None => redirect' = redirect /\ redirect.txn \in Flow
    BY DEF IInv, TypeOK, Transaction
  <2>5. QED
    BY <2>1, <2>2, <2>3, <2>4 DEF IInv, TransactionInv
<1>8. NotSignedInLate' /\ NothingLeftBehind' /\ BusyIsCurrent'
  BY <1>1 DEF NotSignedInLate, NothingLeftBehind, BusyIsCurrent
<1>9. ExchangedOnce'
  BY DEF IInv, ExchangedOnce
<1>10. QED
  BY <1>2, <1>5, <1>6, <1>7, <1>8, <1>9 DEF IInv

\* What ends a session.
LEMMA EndingStep ==
    ASSUME IInv, TypeOK', CheckExpiry \/ Logout \/ Hide \/ Kill \/ Show
    PROVE  IInv'
<1> USE DEF session, history
<1>1. \A f \in Flow : Running(f) => doc # "gone"
  BY DEF IInv, FlowInv
<1>2. CASE CheckExpiry
  <2>1. busy = None /\ leaving = FALSE /\ redirect = None
    BY <1>2 DEF CheckExpiry, Expired, IInv, TypeOK, PhaseInv, BusyIsCurrent, NothingLeftBehind
  <2>2. QED
    BY <1>2, <2>1, EndKeeps DEF CheckExpiry, InFlight
<1>3. CASE Logout
  BY <1>3, EndKeeps DEF Logout, InFlight
<1>4. CASE Show
  BY <1>4, EndKeeps DEF Show, InFlight
<1>5. CASE Hide
  <2>1. CASE doc' = "cached" /\ UNCHANGED <<flow, read>>
    BY <1>5, <2>1, EndKeeps DEF Hide, InFlight
  <2>2. CASE doc' = "gone" /\ Discard
    <3>1. /\ \A f \in Flow :
               flow'[f].stage = IF Running(f) THEN "done" ELSE flow[f].stage
          /\ \A f \in Flow : flow'[f].op = flow[f].op /\ flow'[f].txn = flow[f].txn
          /\ \A r \in Read : ~InFlight(r)'
      BY <2>2, Discarded DEF IInv, TypeOK
    <3>2. \A f \in Flow : ~Running(f)'
      BY <3>1 DEF Running
    <3>3. QED
      BY <1>5, <2>2, <3>1, <3>2, EndKeeps DEF Hide
  <2>3. QED
    BY <1>5, <2>1, <2>2 DEF Hide
<1>6. CASE Kill
  <2>1. /\ \A f \in Flow :
             flow'[f].stage = IF Running(f) THEN "done" ELSE flow[f].stage
        /\ \A f \in Flow : flow'[f].op = flow[f].op /\ flow'[f].txn = flow[f].txn
        /\ \A r \in Read : ~InFlight(r)'
    BY <1>6, Discarded DEF Kill, IInv, TypeOK
  <2>2. \A f \in Flow : ~Running(f)'
    BY <2>1 DEF Running
  <2>3. QED
    BY <1>6, <2>1, <2>2, EndKeeps DEF Kill
<1>7. QED
  BY <1>2, <1>3, <1>4, <1>5, <1>6

\* A document that is gone, or not there yet, runs nothing.
LEMMA EvictStep ==
    ASSUME IInv, TypeOK', Evict
    PROVE  IInv'
<1> USE DEF session, history
<1>1. /\ \A f \in Flow :
           flow'[f].stage = IF Running(f) THEN "done" ELSE flow[f].stage
      /\ \A f \in Flow : flow'[f].op = flow[f].op /\ flow'[f].txn = flow[f].txn
      /\ \A r \in Read : ~InFlight(r)'
  BY Discarded DEF Evict, IInv, TypeOK
<1>2. \A f \in Flow : ~Running(f)'
  BY <1>1 DEF Running
<1>3. credentials = None /\ busy = None /\ leaving = FALSE
  BY DEF Evict, IInv, TypeOK, PhaseInv, NothingLeftBehind
<1>4. \A f \in Flow : flow[f].stage \in {"new", "done"} => flow'[f].stage = flow[f].stage
  BY <1>1 DEF Running
<1>5. PhaseInv' /\ ReadInv' /\ NotSignedInLate' /\ ExchangedOnce'
  BY <1>1, <1>3 DEF Evict, IInv, PhaseInv, ReadInv, NotSignedInLate, ExchangedOnce
<1>6. FlowInv'
  <2>1. \A f \in cancelled : f \in Flow /\ flow'[f].stage # "new"
    BY <1>1, <1>4 DEF IInv, TypeOK, FlowInv, Running
  <2>2. QED
    BY <1>2, <1>3, <2>1 DEF Evict, FlowInv
<1>7. TransactionInv'
  <2>1. \A f, t \in Flow : ~Holds(f, t)'
    BY <1>2 DEF Holds, Running
  <2>2. \A f \in Flow : flow'[f].stage \notin CompleteStage
    BY <1>2 DEF Running, CompleteStage
  <2>3. redirect # None => redirect.txn \in Flow
    BY DEF IInv, TypeOK, Transaction
  <2>4. QED
    BY <1>4, <2>1, <2>2, <2>3 DEF Evict, IInv, TransactionInv
<1>8. NothingLeftBehind' /\ BusyIsCurrent'
  BY <1>3 DEF Evict, NothingLeftBehind, BusyIsCurrent
<1>9. QED
  BY <1>5, <1>6, <1>7, <1>8 DEF IInv

\* A new document begins with what the last one left.
LEMMA OpenStep ==
    ASSUME IInv, TypeOK', Open
    PROVE  IInv'
<1> USE DEF session, history
<1>1. busy = None /\ leaving = FALSE
  BY DEF Open, IInv, TypeOK, PhaseInv, NothingLeftBehind
<1>2. \A f \in Flow : ~Running(f)
  BY DEF Open, IInv, FlowInv
<1>3. \A r \in Read : ~InFlight(r)
  BY DEF Open, IInv, ReadInv
<1>4. redirect' \in {redirect, None}
  BY DEF Open
<1>5. PhaseInv' /\ NotSignedInLate' /\ ExchangedOnce' /\ NothingLeftBehind' /\ BusyIsCurrent'
  BY <1>1 DEF Open, IInv, PhaseInv, NotSignedInLate, ExchangedOnce, NothingLeftBehind,
              BusyIsCurrent
<1>6. FlowInv' /\ ReadInv'
  BY <1>2, <1>3 DEF Open, IInv, FlowInv, ReadInv, Running, InFlight
<1>7. TransactionInv'
  BY <1>4 DEF Open, IInv, TransactionInv, Holds
<1>8. QED
  BY <1>5, <1>6, <1>7 DEF IInv

\* A sign-in supersedes whatever still runs, and erases the stored transaction.
LEMMA SignInStep ==
    ASSUME IInv, TypeOK', NEW f \in Flow, SignIn(f)
    PROVE  IInv'
<1> USE DEF session, history
<1>1. /\ flow'[f].stage = "discovering" /\ flow'[f].op = generation + 1
      /\ flow[f].stage = "new" /\ generation \in Nat
      /\ \A g \in Flow \ {f} : flow'[g] = flow[g]
  <2>1. flow[f] \in FlowRow
    BY DEF IInv, TypeOK
  <2> DEFINE new == [flow[f] EXCEPT !.stage = "discovering", !.op = generation']
  <2>2. new.stage = "discovering" /\ new.op = generation'
    BY <2>1 DEF FlowRow
  <2>3. flow' = [flow EXCEPT ![f] = new]
    BY DEF SignIn
  <2> HIDE DEF new
  <2>4. QED
    BY <2>2, <2>3 DEF SignIn, IInv, TypeOK
<1>2. credentials' = None /\ phase' = "pending" /\ generation' = generation + 1
      /\ busy' = f /\ leaving' = FALSE /\ redirect' = None
  BY DEF SignIn
<1>3. PhaseInv' /\ NotSignedInLate' /\ ExchangedOnce'
  BY <1>1, <1>2 DEF SignIn, IInv, PhaseInv, NotSignedInLate, ExchangedOnce
<1>4. FlowInv'
  <2>1. \A g \in Flow \ {f} : Running(g)' => Running(g) /\ flow'[g].op <= generation
                                             /\ flow'[g].op \in Nat
    BY <1>1 DEF IInv, FlowInv, Running, TypeOK, FlowRow
  <2>2. f \notin cancelled'
    BY <1>1 DEF SignIn, IInv, FlowInv, Running
  <2>3. \A g \in cancelled' : g \in Flow \ {f} /\ flow[g].stage # "new"
    BY <1>1, <2>2 DEF SignIn, IInv, TypeOK, FlowInv, Running
  <2>4. QED
    BY <1>1, <1>2, <2>1, <2>2, <2>3 DEF SignIn, FlowInv
<1>5. ReadInv'
  <2>1. \A r \in Read : InFlight(r)' => InFlight(r) /\ read'[r].op <= generation
                                        /\ read'[r].op \in Nat
    BY DEF SignIn, IInv, ReadInv, InFlight, TypeOK, ReadRow
  <2>2. QED
    BY <1>1, <1>2, <2>1 DEF SignIn, ReadInv
<1>6. TransactionInv'
  <2>1. \A g, t \in Flow : Holds(g, t)' => Holds(g, t)
    BY <1>1 DEF Holds
  <2>2. \A g \in Flow : flow'[g].stage \in CompleteStage => g # f
    BY <1>1 DEF CompleteStage
  <2>3. QED
    BY <1>1, <1>2, <2>1, <2>2 DEF SignIn, IInv, TransactionInv
<1>7. NothingLeftBehind' /\ BusyIsCurrent'
  BY <1>1, <1>2 DEF SignIn, NothingLeftBehind, BusyIsCurrent, Running
<1>8. QED
  BY <1>3, <1>4, <1>5, <1>6, <1>7 DEF IInv

\* The clock and the provider are not part of the invariant.
LEMMA OutsideStep ==
    ASSUME IInv, TypeOK', Tick \/ \E f \in Flow : Authorize(f)
    PROVE  IInv'
<1> USE DEF session, history
<1>1. /\ UNCHANGED <<doc, phase, generation, credentials, busy, leaving, redirect, flow,
                     read, exchanges, cancelled>>
  BY DEF Tick, Authorize
<1>2. PhaseInv' /\ FlowInv' /\ ReadInv' /\ NotSignedInLate' /\ ExchangedOnce'
  BY <1>1 DEF IInv, PhaseInv, FlowInv, ReadInv, NotSignedInLate, ExchangedOnce, Running, InFlight
<1>3. TransactionInv' /\ NothingLeftBehind' /\ BusyIsCurrent'
  BY <1>1 DEF IInv, TransactionInv, NothingLeftBehind, BusyIsCurrent, Holds, Running
<1>4. QED
  BY <1>2, <1>3 DEF IInv

\* A flow that goes on keeps its operation and its transaction.
LEMMA AdvanceKeeps ==
    ASSUME IInv, NEW f \in Flow, Running(f),
           NEW st \in SignInStage \union CompleteStage, Advance(f, st),
           UNCHANGED <<doc, phase, generation, credentials, busy, leaving, redirect, read,
                       cancelled>>
    PROVE  /\ PhaseInv' /\ FlowInv' /\ ReadInv'
           /\ NotSignedInLate' /\ NothingLeftBehind' /\ BusyIsCurrent'
           /\ flow'[f].stage = st
           /\ \A g \in Flow \ {f} : flow'[g] = flow[g]
           /\ \A g \in Flow : flow'[g].txn = flow[g].txn
<1>1. /\ flow'[f].stage = st
      /\ \A g \in Flow \ {f} : flow'[g] = flow[g]
      /\ \A g \in Flow : flow'[g].op = flow[g].op /\ flow'[g].txn = flow[g].txn
  BY FlowStage DEF Advance, IInv, TypeOK
<1>2. \A g \in Flow : Running(g)' <=> Running(g)
  BY <1>1 DEF Running, SignInStage, CompleteStage
<1>3. PhaseInv' /\ ReadInv' /\ NotSignedInLate'
  BY DEF IInv, PhaseInv, ReadInv, InFlight, NotSignedInLate
<1>4. FlowInv'
  <2>1. \A g \in cancelled : g \in Flow /\ flow'[g].stage # "new"
    BY <1>1 DEF IInv, TypeOK, FlowInv, SignInStage, CompleteStage
  <2>2. credentials # None => credentials.login \in Flow \ {f}
    BY DEF IInv, TypeOK, Login, FlowInv, Running
  <2>3. QED
    BY <1>1, <1>2, <2>1, <2>2 DEF IInv, FlowInv
<1>5. NothingLeftBehind'
  <2>1. redirect # None => redirect.txn \in Flow
    BY DEF IInv, TypeOK, Transaction
  <2>2. QED
    BY <1>1, <2>1 DEF IInv, NothingLeftBehind
<1>6. BusyIsCurrent'
  BY <1>1, <1>2 DEF IInv, TypeOK, BusyIsCurrent
<1>7. QED
  BY <1>1, <1>3, <1>4, <1>5, <1>6

\* The continuations that only go on.
LEMMA GoOnStep ==
    ASSUME IInv, TypeOK', NEW f \in Flow, Prepare(f) \/ Locate(f) \/ Validate(f)
    PROVE  IInv'
<1> USE DEF session, history
<1>1. PICK st \in SignInStage \union CompleteStage :
        /\ Advance(f, st)
        /\ Running(f)
        /\ st \in CompleteStage => flow[f].stage \in CompleteStage
        /\ st \in {"binding", "locating"} => flow[f].stage = "binding"
  BY DEF Prepare, Locate, Validate, SignInStage, CompleteStage, Running
<1>2. UNCHANGED <<doc, phase, generation, credentials, busy, leaving, redirect, read,
                  exchanges, cancelled>>
  BY DEF Prepare, Locate, Validate
<1>3. /\ PhaseInv' /\ FlowInv' /\ ReadInv'
      /\ NotSignedInLate' /\ NothingLeftBehind' /\ BusyIsCurrent'
      /\ flow'[f].stage = st
      /\ \A g \in Flow \ {f} : flow'[g] = flow[g]
      /\ \A g \in Flow : flow'[g].txn = flow[g].txn
  BY <1>1, <1>2, AdvanceKeeps
<1>4. TransactionInv'
  <2>1. \A g, t \in Flow : Holds(g, t)' => Holds(g, t)
    BY <1>1, <1>3 DEF Holds
  <2>2. \A g \in Flow : flow[g].stage = "done" => flow'[g].stage = "done"
    BY <1>1, <1>3 DEF Running
  <2>3. redirect # None => redirect.txn \in Flow
    BY DEF IInv, TypeOK, Transaction
  <2>4. \A g \in Flow : flow'[g].stage \in CompleteStage => flow[g].stage \in CompleteStage
    BY <1>1, <1>3
  <2>5. QED
    BY <1>2, <1>3, <2>1, <2>2, <2>3, <2>4 DEF IInv, TransactionInv
<1>5. QED
  BY <1>2, <1>3, <1>4 DEF IInv, ExchangedOnce

\* An exchange spends a transaction that nobody else holds.
LEMMA ExchangeStep ==
    ASSUME IInv, TypeOK', NEW f \in Flow, Exchange(f)
    PROVE  IInv'
<1> USE DEF session, history
<1> DEFINE t == flow[f].txn
<1>1. Running(f) /\ Advance(f, "exchanging") /\ "exchanging" \in CompleteStage
  BY DEF Exchange, CompleteStage, Running
<1>2. UNCHANGED <<doc, phase, generation, credentials, busy, leaving, redirect, read, cancelled>>
  BY DEF Exchange
<1>3. /\ PhaseInv' /\ FlowInv' /\ ReadInv'
      /\ NotSignedInLate' /\ NothingLeftBehind' /\ BusyIsCurrent'
      /\ flow'[f].stage = "exchanging"
      /\ \A g \in Flow \ {f} : flow'[g] = flow[g]
      /\ \A g \in Flow : flow'[g].txn = flow[g].txn
  BY <1>1, <1>2, AdvanceKeeps
<1>4. t \in Flow /\ Holds(f, t)
  BY DEF Exchange, IInv, TypeOK, FlowRow, TransactionInv, CompleteStage, Holds
<1>5. exchanges' = [exchanges EXCEPT ![t] = exchanges[t] + 1]
  BY DEF Exchange
<1> HIDE DEF t
<1>6. exchanges[t] = 0 /\ flow[t].stage = "done" /\ \A g \in Flow : Holds(g, t) => g = f
  BY <1>4 DEF IInv, TransactionInv
<1>7. exchanges'[t] = 1 /\ \A u \in Flow \ {t} : exchanges'[u] = exchanges[u]
  BY <1>4, <1>5, <1>6 DEF IInv, TypeOK
<1>8. TransactionInv'
  <2>1. \A g, u \in Flow : Holds(g, u)' => Holds(g, u) /\ g # f /\ u # t
    BY <1>3, <1>6 DEF Holds
  <2>2. \A g \in Flow : flow[g].stage = "done" => flow'[g].stage = "done"
    BY <1>1, <1>3 DEF Running
  <2>3. redirect # None => redirect.txn \in Flow /\ redirect.txn # t
    BY <1>4 DEF IInv, TypeOK, Transaction, TransactionInv
  <2>4. \A g \in Flow : flow'[g].stage \in CompleteStage => flow'[g].txn # None
    <3>1. flow[f].stage \in CompleteStage
      BY DEF Exchange, CompleteStage
    <3>2. \A g \in Flow : flow'[g].stage \in CompleteStage => flow[g].stage \in CompleteStage
      BY <1>3, <3>1
    <3>3. QED
      BY <1>3, <3>2 DEF IInv, TransactionInv
  <2>5. \A u \in Flow : exchanges'[u] # 0 => flow'[u].stage = "done"
    <3>1. \A u \in Flow : exchanges'[u] # 0 => flow[u].stage = "done"
      BY <1>6, <1>7 DEF IInv, TransactionInv
    <3>2. QED
      BY <2>2, <3>1
  <2>6. \A g, u \in Flow : Holds(g, u)' =>
          /\ exchanges'[u] = 0 /\ flow'[u].stage = "done"
          /\ \A h \in Flow : Holds(h, u)' => h = g
    BY <1>7, <2>1, <2>2 DEF IInv, TransactionInv
  <2>7. redirect # None => exchanges'[redirect.txn] = 0 /\ flow'[redirect.txn].stage = "done"
                           /\ \A g \in Flow : ~Holds(g, redirect.txn)'
    <3>1. redirect # None => exchanges[redirect.txn] = 0 /\ flow[redirect.txn].stage = "done"
                             /\ \A g \in Flow : ~Holds(g, redirect.txn)
      BY DEF IInv, TransactionInv
    <3>2. QED
      BY <1>2, <1>7, <2>1, <2>2, <2>3, <3>1
  <2>8. QED
    BY <1>2, <2>4, <2>5, <2>6, <2>7 DEF TransactionInv
<1>9. ExchangedOnce'
  BY <1>7 DEF IInv, ExchangedOnce
<1>10. QED
  BY <1>3, <1>8, <1>9 DEF IInv

\* What the rest of the session is while a flow is current, and while somebody
\* is signed in.
LEMMA CurrentFlow ==
    ASSUME IInv, NEW f \in Flow, Running(f), flow[f].op = generation, doc = "open"
    PROVE  /\ busy = f /\ phase = "pending" /\ credentials = None /\ f \notin cancelled
           /\ leaving = FALSE /\ redirect = None /\ generation # 0
<1>1. busy = f /\ f \notin cancelled
  BY DEF IInv, FlowInv
<1>2. f # None
  BY SessionConstants
<1>3. QED
  BY <1>1, <1>2 DEF IInv, TypeOK, BusyIsCurrent, PhaseInv, NothingLeftBehind

\* While somebody is signed in, no sign-in is under way.
LEMMA SignedIn ==
    ASSUME IInv, credentials # None
    PROVE  doc = "open" /\ busy = None /\ leaving = FALSE /\ redirect = None
BY DEF IInv, TypeOK, PhaseInv, BusyIsCurrent, NothingLeftBehind

\* Departing for the provider stores the transaction of the current sign-in.
LEMMA LeaveStep ==
    ASSUME IInv, TypeOK', NEW f \in Flow, Leave(f)
    PROVE  IInv'
<1> USE DEF session, history
<1>1. /\ Running(f) /\ flow[f].op = generation /\ doc = "open"
      /\ flow[f].stage = "preparing"
  BY DEF Leave, IsCurrent, Running
<1>2. /\ busy = f /\ phase = "pending" /\ credentials = None /\ f \notin cancelled
      /\ leaving = FALSE /\ redirect = None /\ generation # 0
  BY <1>1, CurrentFlow
<1>3. /\ flow'[f].stage = "done"
      /\ \A g \in Flow \ {f} : flow'[g] = flow[g]
      /\ \A g \in Flow : flow'[g].op = flow[g].op /\ flow'[g].txn = flow[g].txn
  BY FlowStage DEF Leave, Finish, IInv, TypeOK
<1>4. /\ \E at \in Instant : redirect' = [txn |-> f, at |-> at]
      /\ leaving' = TRUE /\ busy' = None
      /\ UNCHANGED <<doc, phase, generation, credentials, read, exchanges, cancelled>>
  BY <1>2 DEF Leave, Finish
<1>5. redirect'.txn = f /\ redirect' # None
  <2>1. redirect'.txn = f
    BY <1>4
  <2>2. redirect' \in Transaction
    BY <1>4 DEF IInv, TypeOK, Transaction
  <2>3. QED
    BY <2>1, <2>2, NoneIsNoRecord
<1>6. PhaseInv' /\ ReadInv' /\ NotSignedInLate' /\ ExchangedOnce' /\ BusyIsCurrent'
  BY <1>1, <1>2, <1>4 DEF IInv, PhaseInv, ReadInv, InFlight, NotSignedInLate, ExchangedOnce,
                          BusyIsCurrent
<1>7. FlowInv'
  <2>1. \A g \in Flow : Running(g)' => Running(g) /\ g # f
    BY <1>3 DEF Running
  <2>2. \A g \in Flow : Running(g) /\ g # f => flow[g].op # generation
    BY <1>2 DEF IInv, FlowInv
  <2>3. \A g \in cancelled : flow'[g].stage # "new"
    BY <1>2, <1>3 DEF IInv, FlowInv, TypeOK
  <2>4. QED
    BY <1>2, <1>3, <1>4, <2>1, <2>2, <2>3 DEF IInv, FlowInv
<1>8. TransactionInv'
  <2>1. \A g, t \in Flow : Holds(g, t)' => Holds(g, t)
    BY <1>3 DEF Holds
  <2>2. \A g \in Flow : ~Holds(g, f)
    BY <1>1 DEF IInv, TransactionInv
  <2>3. exchanges[f] = 0
    BY <1>1 DEF IInv, TransactionInv
  <2>4. \A g \in Flow : flow'[g].stage \in CompleteStage => flow[g].stage \in CompleteStage
    BY <1>3 DEF CompleteStage
  <2>5. \A g \in Flow : flow[g].stage = "done" => flow'[g].stage = "done"
    BY <1>3
  <2>6. \A g \in Flow : ~Holds(g, f)'
    BY <2>1, <2>2 DEF Holds
  <2>7. /\ \A g \in Flow : flow'[g].stage \in CompleteStage => flow'[g].txn # None
        /\ \A g, t \in Flow :
             Holds(g, t)' => /\ exchanges'[t] = 0 /\ flow'[t].stage = "done"
                             /\ \A h \in Flow : Holds(h, t)' => h = g
        /\ \A t \in Flow : exchanges'[t] # 0 => flow'[t].stage = "done"
    BY <1>3, <1>4, <2>1, <2>4, <2>5 DEF IInv, TransactionInv
  <2>8. QED
    BY <1>3, <1>4, <1>5, <2>3, <2>6, <2>7 DEF TransactionInv
<1>9. NothingLeftBehind'
  BY <1>1, <1>3, <1>4, <1>5 DEF NothingLeftBehind
<1>10. QED
  BY <1>6, <1>7, <1>8, <1>9 DEF IInv

\* A flow that ends, in a step that ends the session.
LEMMA EndingFlow ==
    ASSUME IInv, TypeOK', NEW f \in Flow, Running(f), Finish(f), doc = "open", doc' = doc,
           NEW o \in {"error", "expired"}, End(o),
           busy \in {f, None}, leaving' = FALSE, redirect' = None,
           UNCHANGED <<read, exchanges>>
    PROVE  IInv'
<1>1. /\ flow'[f].stage = "done"
      /\ \A g \in Flow \ {f} : flow'[g] = flow[g]
      /\ \A g \in Flow : flow'[g].op = flow[g].op /\ flow'[g].txn = flow[g].txn
  BY FlowStage DEF Finish, IInv, TypeOK
<1>2. busy' = None
  BY DEF Finish
<1>3. \A r \in Read : InFlight(r)' => InFlight(r) /\ read'[r] = read[r]
  BY DEF InFlight
<1>4. \A g \in Flow : /\ \/ flow'[g].stage = flow[g].stage
                         \/ Running(g) /\ flow'[g].stage = "done"
                      /\ flow'[g].op = flow[g].op /\ flow'[g].txn = flow[g].txn
  BY <1>1
<1>5. QED
  BY <1>2, <1>3, <1>4, EndKeeps

\* A flow that is accepted is the current one, which nobody has cancelled.
LEMMA AcceptStep ==
    ASSUME IInv, TypeOK', NEW f \in Flow, Accept(f)
    PROVE  IInv'
<1>1. Running(f) /\ flow[f].op = generation /\ doc = "open" /\ Finish(f)
      /\ UNCHANGED <<now, doc, leaving, redirect, read, authorized, exchanges>>
  BY DEF Accept, IsCurrent, Running
<1>2. /\ busy = f /\ phase = "pending" /\ credentials = None /\ f \notin cancelled
      /\ leaving = FALSE /\ redirect = None /\ generation # 0
  BY <1>1, CurrentFlow
<1>3. CASE End("expired")
  BY <1>1, <1>2, <1>3, EndingFlow
<1>4. ASSUME NEW e \in Instant,
             credentials' = [login |-> f, expiresAt |-> e],
             phase' = "authenticated", UNCHANGED <<generation, cancelled>>
      PROVE  IInv'
  <2>1. credentials' # None /\ credentials'.login = f
    <3>1. credentials' \in Login
      BY <1>4 DEF Login
    <3>2. QED
      BY <1>4, <3>1, NoneIsNoRecord
  <2>2. /\ flow'[f].stage = "done"
        /\ \A g \in Flow \ {f} : flow'[g] = flow[g]
        /\ \A g \in Flow : flow'[g].op = flow[g].op /\ flow'[g].txn = flow[g].txn
    BY <1>1, FlowStage DEF Finish, IInv, TypeOK
  <2>3. busy' = None
    BY <1>1, <1>2 DEF Finish
  <2>4. PhaseInv' /\ NotSignedInLate' /\ ExchangedOnce' /\ NothingLeftBehind' /\ BusyIsCurrent'
    BY <1>1, <1>2, <1>4, <2>1, <2>3
       DEF IInv, PhaseInv, NotSignedInLate, ExchangedOnce, NothingLeftBehind, BusyIsCurrent
  <2>5. FlowInv'
    <3>1. \A g \in Flow : Running(g)' => Running(g) /\ g # f
      BY <2>2 DEF Running
    <3>2. \A g \in Flow : Running(g) /\ g # f => flow[g].op # generation
      BY <1>2 DEF IInv, FlowInv
    <3>3. \A g \in cancelled : flow'[g].stage # "new"
      BY <1>2, <2>2 DEF IInv, FlowInv, TypeOK
    <3>4. QED
      BY <1>1, <1>4, <2>1, <2>2, <3>1, <3>2, <3>3 DEF IInv, FlowInv
  <2>6. ReadInv'
    BY <1>1, <1>2, <1>4 DEF IInv, ReadInv, InFlight
  <2>7. TransactionInv'
    <3>1. \A g, t \in Flow : Holds(g, t)' => Holds(g, t)
      BY <2>2 DEF Holds
    <3>2. \A g \in Flow : flow'[g].stage \in CompleteStage => flow[g].stage \in CompleteStage
      BY <2>2 DEF CompleteStage
    <3>3. \A g \in Flow : flow[g].stage = "done" => flow'[g].stage = "done"
      BY <2>2
    <3>4. QED
      BY <1>1, <1>2, <2>2, <3>1, <3>2, <3>3 DEF IInv, TransactionInv
  <2>8. QED
    BY <2>4, <2>5, <2>6, <2>7 DEF IInv
<1>5. QED
  BY <1>3, <1>4 DEF Accept

\* A flow that fails ends its own session, an expired one, or none.
LEMMA FailStep ==
    ASSUME IInv, TypeOK', NEW f \in Flow, FailFlow(f)
    PROVE  IInv'
<1>1. Running(f) /\ doc = "open" /\ Finish(f) /\ UNCHANGED <<now, doc, read, authorized, exchanges>>
  BY DEF FailFlow
<1>2. CASE IsCurrent(flow[f].op)
  <2>1. /\ busy = f /\ leaving = FALSE /\ redirect = None
    BY <1>1, <1>2, CurrentFlow DEF IsCurrent
  <2>2. End("error") /\ leaving' = FALSE /\ redirect' = None
    BY <1>2, <2>1 DEF FailFlow
  <2>3. QED
    BY <1>1, <2>1, <2>2, EndingFlow
<1>3. CASE Expired
  <2>1. busy = None /\ leaving = FALSE /\ redirect = None
    BY <1>3, SignedIn DEF Expired
  <2>2. End("expired") /\ leaving' = FALSE /\ redirect' = None
    BY <1>3, <2>1 DEF FailFlow, IsCurrent, Recheck
  <2>3. QED
    BY <1>1, <2>1, <2>2, EndingFlow
<1>4. CASE ~Expired /\ flow[f].op # generation
  <2>1. UNCHANGED <<doc, phase, generation, credentials, leaving, redirect, read, exchanges,
                    cancelled>>
    BY <1>4 DEF FailFlow, IsCurrent, Recheck, session
  <2>2. /\ flow'[f].stage = "done"
        /\ \A g \in Flow \ {f} : flow'[g] = flow[g]
        /\ \A g \in Flow : flow'[g].op = flow[g].op /\ flow'[g].txn = flow[g].txn
    BY <1>1, FlowStage DEF Finish, IInv, TypeOK
  <2>3. busy # f /\ busy' = busy
    BY <1>1, <1>4, SessionConstants DEF Finish, IInv, BusyIsCurrent
  <2>4. \A g \in Flow : Running(g)' => Running(g) /\ g # f
    BY <2>2 DEF Running
  <2>5. PhaseInv' /\ ReadInv' /\ NotSignedInLate' /\ ExchangedOnce'
    BY <2>1, <2>3 DEF IInv, PhaseInv, ReadInv, InFlight, NotSignedInLate, ExchangedOnce
  <2>6. NothingLeftBehind'
    <3>1. redirect # None => redirect.txn \in Flow
      BY DEF IInv, TypeOK, Transaction
    <3>2. QED
      BY <2>1, <2>2, <2>3, <3>1 DEF IInv, NothingLeftBehind
  <2>7. BusyIsCurrent'
    <3>1. busy # None => busy \in Flow \ {f} /\ (Running(busy)' <=> Running(busy))
      BY <2>1, <2>2, <2>3 DEF IInv, TypeOK, Running
    <3>2. QED
      BY <2>1, <2>2, <2>3, <3>1 DEF IInv, BusyIsCurrent
  <2>8. FlowInv'
    <3>1. \A g \in cancelled : flow'[g].stage # "new"
      BY <2>2 DEF IInv, FlowInv, TypeOK
    <3>2. credentials # None => flow'[credentials.login].stage = "done"
      BY <2>2 DEF IInv, FlowInv, TypeOK, Login
    <3>3. QED
      BY <2>1, <2>2, <2>3, <2>4, <3>1, <3>2 DEF IInv, FlowInv
  <2>9. TransactionInv'
    <3>1. \A g, t \in Flow : Holds(g, t)' => Holds(g, t)
      BY <2>2 DEF Holds
    <3>2. \A g \in Flow : flow'[g].stage \in CompleteStage => flow[g].stage \in CompleteStage
      BY <2>2 DEF CompleteStage
    <3>3. \A g \in Flow : flow[g].stage = "done" => flow'[g].stage = "done"
      BY <2>2
    <3>4. redirect # None => redirect.txn \in Flow
      BY DEF IInv, TypeOK, Transaction
    <3>5. QED
      BY <2>1, <2>2, <3>1, <3>2, <3>3, <3>4 DEF IInv, TransactionInv
  <2>10. QED
    BY <2>5, <2>6, <2>7, <2>8, <2>9 DEF IInv
<1>5. QED
  BY <1>2, <1>3, <1>4 DEF IsCurrent

\* A document at the callback URL takes the stored transaction, or fails.
LEMMA ReturnStep ==
    ASSUME IInv, TypeOK', NEW f \in Flow, NEW t \in Flow, Return(f, t)
    PROVE  IInv'
<1> USE DEF session, history
<1>1. /\ busy = None /\ leaving = FALSE /\ flow[f].stage = "new"
      /\ doc' = "open" /\ redirect' = None /\ credentials' = None /\ leaving' = FALSE
      /\ UNCHANGED <<read, exchanges, cancelled>>
  BY DEF Return, IInv, TypeOK, PhaseInv, NothingLeftBehind
<1>2. \A g \in Flow : ~Running(g)
  BY DEF Return, IInv, FlowInv
<1>3. \A r \in Read : ~InFlight(r) /\ ~InFlight(r)'
  BY <1>1 DEF Return, IInv, ReadInv, InFlight
<1>4. f \notin cancelled
  BY <1>1 DEF IInv, FlowInv
<1>5. NotSignedInLate' /\ ExchangedOnce' /\ ReadInv' /\ NothingLeftBehind'
  BY <1>1, <1>3 DEF IInv, NotSignedInLate, ExchangedOnce, ReadInv, NothingLeftBehind
<1>6. CASE Acceptable(redirect)
  <2> DEFINE u == redirect.txn
  <2>1. /\ phase' = "pending" /\ generation' = 1 /\ busy' = f
        /\ flow' = [flow EXCEPT ![f] = [stage |-> "binding", op |-> 1, txn |-> u, state |-> t]]
    BY <1>6 DEF Return
  <2>2. u \in Flow /\ exchanges[u] = 0 /\ flow[u].stage = "done"
    BY <1>6 DEF Acceptable, IInv, TypeOK, Transaction, TransactionInv
  <2> HIDE DEF u
  <2>3. /\ flow'[f].stage = "binding" /\ flow'[f].op = 1 /\ flow'[f].txn = u
        /\ \A g \in Flow \ {f} : flow'[g] = flow[g]
    BY <2>1 DEF IInv, TypeOK
  <2>4. Running(f)' /\ \A g \in Flow \ {f} : ~Running(g)'
    BY <1>2, <2>3 DEF Running
  <2>5. PhaseInv' /\ BusyIsCurrent'
    BY <1>1, <2>1, <2>3, <2>4 DEF PhaseInv, BusyIsCurrent
  <2>6. FlowInv'
    <3>1. \A g \in cancelled : flow'[g].stage # "new"
      BY <1>4, <2>3 DEF IInv, FlowInv, TypeOK
    <3>2. QED
      BY <1>1, <1>4, <2>1, <2>3, <2>4, <3>1 DEF FlowInv
  <2>7. TransactionInv'
    <3>1. \A g, v \in Flow : Holds(g, v)' => g = f /\ v = u
      BY <2>3, <2>4 DEF Holds, Running
    <3>2. \A g \in Flow : flow'[g].stage \in CompleteStage => g = f
      BY <2>4 DEF CompleteStage, Running
    <3>3. \A g \in Flow : flow[g].stage = "done" => flow'[g].stage = "done"
      BY <1>1, <2>3
    <3>4. u # None
      BY <2>2, SessionConstants
    <3>5. \A v \in Flow : exchanges'[v] # 0 => flow'[v].stage = "done"
      BY <1>1, <3>3 DEF IInv, TransactionInv
    <3>6. QED
      BY <1>1, <2>2, <2>3, <3>1, <3>2, <3>3, <3>4, <3>5 DEF TransactionInv
  <2>8. QED
    BY <1>5, <2>5, <2>6, <2>7 DEF IInv
<1>7. CASE ~Acceptable(redirect)
  <2>1. phase' = "error" /\ generation' = 2 /\ busy' = None
        /\ flow' = [flow EXCEPT ![f].stage = "done"]
    BY <1>7 DEF Return
  <2>2. /\ flow'[f].stage = "done"
        /\ \A g \in Flow \ {f} : flow'[g] = flow[g]
    BY <2>1, FlowStage DEF IInv, TypeOK
  <2>3. \A g \in Flow : ~Running(g)'
    BY <1>2, <2>2 DEF Running
  <2>4. PhaseInv' /\ BusyIsCurrent'
    BY <1>1, <2>1 DEF PhaseInv, BusyIsCurrent
  <2>5. FlowInv'
    <3>1. \A g \in cancelled : flow'[g].stage # "new"
      BY <2>2 DEF IInv, FlowInv, TypeOK
    <3>2. QED
      BY <1>1, <2>3, <3>1 DEF FlowInv
  <2>6. TransactionInv'
    <3>1. \A g, v \in Flow : ~Holds(g, v)'
      BY <2>3 DEF Holds, Running
    <3>2. \A g \in Flow : flow'[g].stage \notin CompleteStage
      BY <2>3 DEF CompleteStage, Running
    <3>3. \A g \in Flow : flow[g].stage = "done" => flow'[g].stage = "done"
      BY <2>2
    <3>4. QED
      BY <1>1, <3>1, <3>2, <3>3 DEF IInv, TransactionInv
  <2>7. QED
    BY <1>5, <2>4, <2>5, <2>6 DEF IInv
<1>8. QED
  BY <1>6, <1>7

\* A read that begins reads for whoever is signed in; one that is answered ends.
LEMMA ReadStep ==
    ASSUME IInv, TypeOK', NEW r \in Read, StartRead(r) \/ Deliver(r) \/ Refuse(r)
    PROVE  IInv'
<1> USE DEF session, history
<1>1. UNCHANGED <<doc, phase, generation, credentials, busy, leaving, redirect, flow,
                  exchanges, cancelled>> /\ doc = "open"
  BY DEF StartRead, Deliver, Refuse
<1>2. PhaseInv' /\ FlowInv' /\ NotSignedInLate' /\ ExchangedOnce'
  BY <1>1 DEF IInv, PhaseInv, FlowInv, NotSignedInLate, ExchangedOnce, Running
<1>3. TransactionInv' /\ NothingLeftBehind' /\ BusyIsCurrent'
  BY <1>1 DEF IInv, TransactionInv, NothingLeftBehind, BusyIsCurrent, Holds, Running
<1>4. ReadInv'
  <2>1. CASE StartRead(r)
    <3>1. /\ read'[r].op = generation /\ read'[r].login = credentials.login
          /\ credentials # None /\ generation \in Nat
          /\ \A s \in Read \ {r} : read'[s] = read[s]
      BY <2>1 DEF StartRead, IInv, TypeOK
    <3>2. \A s \in Read \ {r} : InFlight(s)' => InFlight(s)
      BY <3>1 DEF InFlight
    <3>3. QED
      BY <1>1, <3>1, <3>2 DEF IInv, ReadInv
  <2>2. CASE Deliver(r) \/ Refuse(r)
    <3>1. /\ InFlight(r)
          /\ \A s \in Read \ {r} : read'[s] = read[s]
          /\ \A s \in Read : read'[s].op = read[s].op /\ read'[s].login = read[s].login
      BY <2>2, ReadStage DEF Deliver, Refuse, InFlight, IInv, TypeOK
    <3>2. \A s \in Read \ {r} : InFlight(s)' => InFlight(s)
      BY <3>1 DEF InFlight
    <3>3. QED
      BY <1>1, <3>1, <3>2 DEF IInv, ReadInv
  <2>3. QED
    BY <2>1, <2>2
<1>5. QED
  BY <1>2, <1>3, <1>4 DEF IInv

\* A refusal of a current read ends its session; a dropped read only one that
\* has expired.
LEMMA DropStep ==
    ASSUME IInv, TypeOK', NEW r \in Read, EndRefused(r) \/ Drop(r)
    PROVE  IInv'
<1> USE DEF session
<1>1. /\ InFlight(r) /\ doc = "open"
      /\ read' = [read EXCEPT ![r].stage = "dropped"]
      /\ UNCHANGED <<doc, busy, leaving, redirect, flow, exchanges>>
  BY DEF EndRefused, Drop, InFlight
<1>2. /\ ~InFlight(r)'
      /\ \A s \in Read \ {r} : read'[s] = read[s]
  BY <1>1, ReadStage DEF IInv, TypeOK, InFlight
<1>3. \A s \in Read : InFlight(s)' => InFlight(s) /\ read'[s] = read[s]
  BY <1>2 DEF InFlight
<1>4. ASSUME credentials # None, NEW o \in {"expired", "signed-out"}, End(o)
      PROVE  IInv'
  <2>1. busy = None /\ leaving = FALSE /\ redirect = None
    BY <1>4, SignedIn
  <2>2. QED
    BY <1>1, <1>3, <1>4, <2>1, EndKeeps
<1>5. CASE EndRefused(r)
  <2>1. credentials # None /\ End("signed-out")
    BY <1>1, <1>5 DEF EndRefused, IsCurrent, IInv, ReadInv
  <2>2. QED
    BY <2>1, <1>4
<1>6. CASE Drop(r) /\ Expired
  BY <1>4, <1>6 DEF Drop, Recheck, Expired
<1>7. CASE Drop(r) /\ ~Expired
  <2>1. UNCHANGED <<phase, generation, credentials, cancelled>>
    BY <1>7 DEF Drop, Recheck
  <2>2. PhaseInv' /\ FlowInv' /\ NotSignedInLate' /\ ExchangedOnce'
    BY <1>1, <2>1 DEF IInv, PhaseInv, FlowInv, NotSignedInLate, ExchangedOnce, Running
  <2>3. TransactionInv' /\ NothingLeftBehind' /\ BusyIsCurrent'
    BY <1>1, <2>1 DEF IInv, TransactionInv, NothingLeftBehind, BusyIsCurrent, Holds, Running
  <2>4. ReadInv'
    BY <1>1, <1>3, <2>1 DEF IInv, ReadInv
  <2>5. QED
    BY <2>2, <2>3, <2>4 DEF IInv
<1>8. QED
  BY <1>5, <1>6, <1>7

\* Every step keeps the invariant.
LEMMA NextInv == IInv /\ [Next]_vars => IInv'
<1> SUFFICES ASSUME IInv, [Next]_vars PROVE IInv'
  OBVIOUS
<1>1. TypeOK'
  BY NextTyped DEF IInv
<1>2. CASE Tick
  BY <1>1, <1>2, OutsideStep
<1>3. CASE CheckExpiry \/ Logout \/ Hide \/ Kill \/ Show
  BY <1>1, <1>3, EndingStep
<1>4. CASE Evict
  BY <1>1, <1>4, EvictStep
<1>5. CASE Open
  BY <1>1, <1>5, OpenStep
<1>6. ASSUME NEW f \in Flow, SignIn(f) \/ Authorize(f) \/ Continue(f)
      PROVE  IInv'
  <2>1. CASE SignIn(f)
    BY <1>1, <2>1, SignInStep
  <2>2. CASE Authorize(f)
    BY <1>1, <2>2, OutsideStep
  <2>3. CASE Prepare(f) \/ Locate(f) \/ Validate(f)
    BY <1>1, <2>3, GoOnStep
  <2>4. CASE Leave(f)
    BY <1>1, <2>4, LeaveStep
  <2>5. CASE Exchange(f)
    BY <1>1, <2>5, ExchangeStep
  <2>6. CASE Accept(f)
    BY <1>1, <2>6, AcceptStep
  <2>7. CASE FailFlow(f)
    BY <1>1, <2>7, FailStep
  <2>8. QED
    BY <1>6, <2>1, <2>2, <2>3, <2>4, <2>5, <2>6, <2>7 DEF Continue
<1>7. ASSUME NEW f \in Flow, NEW t \in Flow, Return(f, t)
      PROVE  IInv'
  BY <1>1, <1>7, ReturnStep
<1>8. ASSUME NEW r \in Read,
             StartRead(r) \/ Deliver(r) \/ Refuse(r) \/ EndRefused(r) \/ Drop(r)
      PROVE  IInv'
  BY <1>1, <1>8, ReadStep, DropStep
<1>9. CASE UNCHANGED vars
  <2>1. UNCHANGED <<doc, phase, generation, credentials, busy, leaving, redirect, flow,
                    read, exchanges, cancelled>>
    BY <1>9 DEF vars, session, history
  <2>2. PhaseInv' /\ FlowInv' /\ ReadInv' /\ NotSignedInLate' /\ ExchangedOnce'
    BY <2>1 DEF IInv, PhaseInv, FlowInv, ReadInv, NotSignedInLate, ExchangedOnce, Running,
                InFlight
  <2>3. TransactionInv' /\ NothingLeftBehind' /\ BusyIsCurrent'
    BY <2>1 DEF IInv, TransactionInv, NothingLeftBehind, BusyIsCurrent, Holds, Running
  <2>4. QED
    BY <1>1, <2>2, <2>3 DEF IInv
<1>10. QED
  BY <1>2, <1>3, <1>4, <1>5, <1>6, <1>7, <1>8, <1>9 DEF Next

\* The invariant holds of every behaviour of a browser.
THEOREM Invariance == Spec => []IInv
<1>1. Init => IInv
  BY InitInv
<1>2. IInv /\ [Next]_vars => IInv'
  BY NextInv
<1>3. QED
  BY <1>1, <1>2, PTL DEF Spec

\* Every variable keeps its type, whatever was begun, hidden and ended.
THEOREM TypeCorrect == Spec => []TypeOK
<1>1. IInv => TypeOK
  BY DEF IInv
<1>2. QED
  BY <1>1, Invariance, PTL

\* Nobody is signed in by a flow whose session was ended under it (session.ts,
\* accept; authentication.ts, the checks after each await of complete).
THEOREM EndedSessionsStayEnded == Spec => []NotSignedInLate
<1>1. IInv => NotSignedInLate
  BY DEF IInv
<1>2. QED
  BY <1>1, Invariance, PTL

\* No transaction is exchanged twice (authentication.ts, #readRedirect).
THEOREM CodesAreSpentOnce == Spec => []ExchangedOnce
<1>1. IInv => ExchangedOnce
  BY DEF IInv
<1>2. QED
  BY <1>1, Invariance, PTL

\* A document that is hidden or gone keeps no credentials and no flow in
\* progress, and leaves a transaction only by departing (leaveDocument).
THEOREM DocumentsLeaveNothing == Spec => []NothingLeftBehind
<1>1. IInv => NothingLeftBehind
  BY DEF IInv
<1>2. QED
  BY <1>1, Invariance, PTL

\* The busy flow is that of the pending session (the finally clauses).
THEOREM BusyFlowIsCurrent == Spec => []BusyIsCurrent
<1>1. IInv => BusyIsCurrent
  BY DEF IInv
<1>2. QED
  BY <1>1, Invariance, PTL

-----------------------------------------------------------------------------
(* What a step may never do.                                                *)

\* The steps that change a read.
LEMMA ReadChanges ==
    ASSUME [Next]_vars, read' # read
    PROVE  \/ doc' = "gone" /\ Discard
           \/ \E r \in Read : StartRead(r) \/ Deliver(r) \/ Refuse(r) \/ EndRefused(r) \/ Drop(r)
<1> USE DEF session, history
<1>1. CASE Hide \/ Kill \/ Evict
  BY <1>1 DEF Hide, Kill, Evict
<1>2. CASE Tick \/ CheckExpiry \/ Logout \/ Show \/ Open
  BY <1>2 DEF Tick, CheckExpiry, Logout, Show, Open
<1>3. ASSUME NEW f \in Flow, SignIn(f) \/ Authorize(f) \/ Continue(f)
      PROVE  FALSE
  BY <1>3 DEF SignIn, Authorize, Continue, Prepare, Leave, Locate, Exchange, Validate, Accept,
              FailFlow
<1>4. ASSUME NEW f \in Flow, NEW t \in Flow, Return(f, t)
      PROVE  FALSE
  BY <1>4 DEF Return
<1>5. CASE UNCHANGED vars
  BY <1>5 DEF vars
<1>6. QED
  BY <1>1, <1>2, <1>3, <1>4, <1>5 DEF Next

\* A result is delivered to the login that asked for it, before its expiry.
LEMMA DeliveryStep ==
    ASSUME IInv, [Next]_vars, NEW r \in Read,
           read[r].stage # "delivered", read'[r].stage = "delivered"
    PROVE  /\ credentials # None
           /\ credentials.login = read[r].login
           /\ now < credentials.expiresAt
<1>1. read' # read
  OBVIOUS
<1>2. CASE doc' = "gone" /\ Discard
  <2>1. read[r] \in ReadRow
    BY DEF IInv, TypeOK
  <2>2. [read[r] EXCEPT !.stage = "dropped"].stage = "dropped"
    BY <2>1 DEF ReadRow
  <2>3. QED
    BY <1>2, <2>2 DEF Discard
<1>3. ASSUME NEW s \in Read,
             StartRead(s) \/ Refuse(s) \/ EndRefused(s) \/ Drop(s)
      PROVE  FALSE
  <2>1. CASE StartRead(s)
    BY <2>1 DEF StartRead, IInv, TypeOK
  <2>2. CASE Refuse(s) \/ EndRefused(s) \/ Drop(s)
    <3>1. PICK st \in {"refused", "dropped"} : read' = [read EXCEPT ![s].stage = st]
      BY <2>2 DEF Refuse, EndRefused, Drop
    <3>2. read'[s].stage = st /\ \A q \in Read \ {s} : read'[q] = read[q]
      BY <3>1, ReadStage DEF IInv, TypeOK
    <3>3. QED
      BY <3>2
  <2>3. QED
    BY <1>3, <2>1, <2>2
<1>4. ASSUME NEW s \in Read, Deliver(s)
      PROVE  /\ credentials # None
             /\ credentials.login = read[r].login
             /\ now < credentials.expiresAt
  <2>1. s = r
    BY <1>4, ReadStage DEF Deliver, IInv, TypeOK
  <2>2. InFlight(r) /\ read[r].op = generation /\ ~Expired
    BY <1>4, <2>1 DEF Deliver, InFlight, IsCurrent
  <2>3. credentials # None /\ credentials.login = read[r].login
    BY <2>2 DEF IInv, ReadInv
  <2>4. credentials.expiresAt \in Nat /\ now \in Nat
    BY <2>3, SessionConstants DEF IInv, TypeOK, Login, Instant
  <2>5. QED
    BY <2>2, <2>3, <2>4 DEF Expired
<1>5. QED
  BY <1>1, <1>2, <1>3, <1>4, ReadChanges

\* Session.run gives a result to nobody but the login that asked for it.
THEOREM ResultsAreOnesOwn == Spec => ResultsStayInSession
<1>1. ASSUME IInv, [Next]_vars
      PROVE  [\A r \in Read :
                read[r].stage # "delivered" /\ read'[r].stage = "delivered" =>
                    /\ credentials # None
                    /\ credentials.login = read[r].login
                    /\ now < credentials.expiresAt]_vars
  BY <1>1, DeliveryStep
<1>2. QED
  BY <1>1, Invariance, PTL DEF Spec, ResultsStayInSession

\* No outcome of a read, a late 401 above all, disturbs a sign-in under way.
LEMMA RefusalStep ==
    ASSUME IInv, [Next]_vars, phase = "pending", read' # read, doc' = "open"
    PROVE  UNCHANGED session
<1>1. credentials = None /\ ~Expired
  BY DEF IInv, PhaseInv, Expired
<1>2. PICK r \in Read : StartRead(r) \/ Deliver(r) \/ Refuse(r) \/ EndRefused(r) \/ Drop(r)
  BY ReadChanges
<1>3. ~EndRefused(r)
  BY <1>1 DEF EndRefused, IsCurrent, IInv, ReadInv, InFlight
<1>4. QED
  BY <1>1, <1>2, <1>3 DEF StartRead, Deliver, Refuse, Drop, Recheck

\* A late 401 does not disturb a sign-in under way (read-api.ts, the recheck
\* after the body is cancelled).
THEOREM LateRefusalsAreHarmless == Spec => LateRefusalsHarmless
<1>1. ASSUME IInv, [Next]_vars
      PROVE  [phase = "pending" /\ read' # read /\ doc' = "open" => UNCHANGED session]_vars
  BY <1>1, RefusalStep
<1>2. QED
  BY <1>1, Invariance, PTL DEF Spec, LateRefusalsHarmless

-----------------------------------------------------------------------------
(* What readers can rely on.                                               *)

\* Every end of a session is one of the abstract session, whether its document
\* stays or goes.
LEMMA EndIsEnd ==
    ASSUME doc # "gone", doc' \in {"open", "cached", "gone"}, NEW outcome, End(outcome)
    PROVE  Life!End
BY DEF End, Life!End

\* Whatever leaves the document and its session alone is no step of it.
LEMMA RestIsStutter ==
    ASSUME UNCHANGED <<doc, session>>
    PROVE  UNCHANGED Life!lifeVars
BY DEF session, Life!lifeVars

\* A check of the expiry ends a session, or does nothing.
LEMMA RecheckIsEnd ==
    ASSUME doc = "open", UNCHANGED doc, Recheck
    PROVE  Life!End \/ UNCHANGED Life!lifeVars
<1>1. CASE Expired
  BY <1>1, EndIsEnd DEF Recheck
<1>2. CASE ~Expired
  BY <1>2, RestIsStutter DEF Recheck
<1> QED
  BY <1>1, <1>2

\* What happens to the session as a whole (Session.end, the document events).
LEMMA EndsImplement ==
    ASSUME CheckExpiry \/ Logout \/ Hide \/ Kill \/ Show
    PROVE  Life!End
<1>1. /\ doc \in {"open", "cached"} /\ doc' \in {"open", "cached", "gone"}
      /\ \E outcome : End(outcome)
  BY DEF CheckExpiry, Logout, Hide, Kill, Show
<1> QED
  BY <1>1, EndIsEnd

\* What happens to a document without its session: it is dropped from the cache, or
\* opened, perhaps at the callback URL (the constructor, complete).
LEMMA DocumentsImplement ==
    ASSUME IInv, Evict \/ Open \/ \E f, t \in Flow : Return(f, t)
    PROVE  Life!Next
<1>1. doc # "open" => credentials = None
  BY DEF IInv, NothingLeftBehind
<1>2. CASE Evict
  <2>1. doc = "cached" /\ doc' = "gone" /\ UNCHANGED <<generation, credentials>>
    BY <1>2 DEF Evict, session
  <2> QED
    BY <1>1, <2>1 DEF Life!Next, Life!Discard
<1>3. CASE Open
  <2>1. doc = "gone" /\ doc' = "open" /\ generation' = 0 /\ credentials' = None
    BY <1>3 DEF Open
  <2> QED
    BY <1>1, <2>1 DEF Life!Next, Life!Open
<1>4. ASSUME NEW f \in Flow, NEW t \in Flow, Return(f, t)
      PROVE  Life!Next
  <2>1. doc = "gone" /\ doc' = "open" /\ generation' \in {1, 2} /\ credentials' = None
    BY <1>4 DEF Return
  <2> QED
    BY <1>1, <2>1 DEF Life!Next, Life!Open
<1> QED
  BY <1>2, <1>3, <1>4

\* A sign-in ends what was there, its acceptance establishes its login, and its
\* failure ends its own session only (signIn, accept, the catch clause).
LEMMA FlowsImplement ==
    ASSUME IInv, NEW f \in Flow, SignIn(f) \/ Authorize(f) \/ Continue(f)
    PROVE  Life!Next \/ UNCHANGED Life!lifeVars
<1>1. CASE SignIn(f)
  BY <1>1 DEF SignIn, Life!Next, Life!End
<1>2. CASE Authorize(f) \/ Prepare(f) \/ Leave(f) \/ Locate(f) \/ Exchange(f) \/ Validate(f)
  <2>1. UNCHANGED <<doc, session>>
    BY <1>2 DEF Authorize, Prepare, Leave, Locate, Exchange, Validate
  <2> QED
    BY <2>1, RestIsStutter
<1>3. CASE Accept(f)
  <2>1. doc = "open" /\ doc' = "open" /\ phase = "pending"
    BY <1>3 DEF Accept
  <2>2. credentials = None
    BY <2>1 DEF IInv, PhaseInv
  <2>3. PICK e \in Instant :
           IF e - now > Day THEN End("expired")
           ELSE credentials' = [login |-> f, expiresAt |-> e] /\ UNCHANGED generation
    BY <1>3 DEF Accept
  <2>4. CASE e - now > Day
    BY <2>1, <2>3, <2>4, EndIsEnd DEF Life!Next
  <2>5. CASE ~(e - now > Day)
    <3>1. credentials' \in Login /\ UNCHANGED generation
      BY <2>3, <2>5 DEF Login
    <3> QED
      BY <2>1, <2>2, <3>1 DEF Life!Next, Life!Accept
  <2> QED
    BY <2>4, <2>5
<1>4. CASE FailFlow(f)
  <2>1. doc = "open" /\ UNCHANGED doc /\ (End("error") \/ Recheck)
    BY <1>4 DEF FailFlow
  <2>2. CASE End("error")
    BY <2>1, <2>2, EndIsEnd DEF Life!Next
  <2>3. CASE Recheck
    BY <2>1, <2>3, RecheckIsEnd DEF Life!Next
  <2> QED
    BY <2>1, <2>2, <2>3
<1> QED
  BY <1>1, <1>2, <1>3, <1>4 DEF Continue

\* A read ends no session but its own (Session.run, the 401 of ReadApi).
LEMMA ReadsImplement ==
    ASSUME NEW r \in Read, StartRead(r) \/ Deliver(r) \/ Refuse(r) \/ EndRefused(r) \/ Drop(r)
    PROVE  Life!Next \/ UNCHANGED Life!lifeVars
<1>1. CASE StartRead(r) \/ Deliver(r) \/ Refuse(r)
  <2>1. UNCHANGED <<doc, session>>
    BY <1>1 DEF StartRead, Deliver, Refuse
  <2> QED
    BY <2>1, RestIsStutter
<1>2. CASE EndRefused(r)
  <2>1. doc = "open" /\ UNCHANGED doc /\ End("signed-out")
    BY <1>2 DEF EndRefused
  <2> QED
    BY <2>1, EndIsEnd DEF Life!Next
<1>3. CASE Drop(r)
  <2>1. doc = "open" /\ UNCHANGED doc /\ Recheck
    BY <1>3 DEF Drop
  <2> QED
    BY <2>1, RecheckIsEnd DEF Life!Next
<1> QED
  BY <1>1, <1>2, <1>3

\* Readers can rely on generations: in a document a generation has one login at
\* most, ends with it, and does not come back, whatever happens to sign-ins,
\* callbacks, documents and clocks (the snapshots of auth/session.ts).
THEOREM LifeImplemented == Spec => ImplementsLife
<1>1. Init => Life!Init
  BY DEF Init, Life!Init
<1>2. ASSUME IInv, [Next]_vars
      PROVE  [Life!Next]_(Life!lifeVars)
  <2>1. CASE CheckExpiry \/ Logout \/ Hide \/ Kill \/ Show
    BY <2>1, EndsImplement DEF Life!Next
  <2>2. CASE Evict \/ Open \/ \E f, t \in Flow : Return(f, t)
    BY <1>2, <2>2, DocumentsImplement
  <2>3. CASE \E f \in Flow : SignIn(f) \/ Authorize(f) \/ Continue(f)
    BY <1>2, <2>3, FlowsImplement
  <2>4. CASE \E r \in Read : StartRead(r) \/ Deliver(r) \/ Refuse(r) \/ EndRefused(r) \/ Drop(r)
    BY <2>4, ReadsImplement
  <2>5. CASE Tick
    BY <2>5, RestIsStutter DEF Tick
  <2>6. CASE UNCHANGED vars
    BY <2>6, RestIsStutter DEF vars
  <2> QED
    BY <1>2, <2>1, <2>2, <2>3, <2>4, <2>5, <2>6 DEF Next
<1> QED
  BY <1>1, <1>2, Invariance, PTL DEF Spec, ImplementsLife, Life!Spec
=============================================================================
