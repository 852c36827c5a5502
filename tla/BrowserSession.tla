--------------------------- MODULE BrowserSession ---------------------------
(***************************************************************************)
(* The personal session of the browser client: the in-memory session        *)
(* (auth/session.ts), the OIDC sign-in that establishes it                   *)
(* (auth/authentication.ts), the document events that end it                *)
(* (auth/browser-session.ts), and the guarded reads that use it             *)
(* (Session.run, and the 401 of ReadApi).                                   *)
(*                                                                         *)
(* JavaScript runs one handler at a time: an action is the code between two  *)
(* awaits.  Every await may return long after the session it belongs to was  *)
(* ended, and another one begun.  A flow is one call of signIn or complete;  *)
(* a sign-in flow also names the transaction (state, nonce, verifier) it     *)
(* stores, and the flow that completed a sign-in names the login.           *)
(***************************************************************************)
EXTENDS Naturals

CONSTANTS
    Flow,        \* calls of signIn and complete; bounds a model
    Read,        \* guarded reads; bounds a model
    None,        \* no value
    MaxTime,     \* the bound of the wall clock
    MaxCached,   \* bounds the visits to the back-forward cache
    Ttl,         \* REDIRECT_TTL
    Day,         \* the longest session that accept takes
    ClockSteps   \* may the wall clock be set?

ASSUME SessionConstants ==
    /\ None \notin Flow
    /\ MaxTime \in Nat /\ MaxCached \in Nat /\ Ttl \in Nat /\ Day \in Nat
    /\ ClockSteps \in BOOLEAN

Instant == 0..MaxTime

VARIABLES
    now,         \* Date.now()
    doc,         \* the document: open, in the back-forward cache, or gone
    phase, generation, credentials,  \* Session
    busy,        \* Authentication.#busy: the flow, not yet its outcome
    leaving,     \* Authentication.#leavingForProvider
    redirect,    \* sessionStorage[REDIRECT_KEY]
    flow,        \* the calls of signIn and complete
    read,        \* the calls of Session.run
    authorized,  \* the provider: transactions it has answered
    exchanges,   \* history: code exchanges started for each transaction
    cancelled    \* history: flows that were running when a session ended

session == <<phase, generation, credentials>>
history == <<exchanges, cancelled>>
vars    == <<now, doc, session, busy, leaving, redirect, flow, read, authorized, history>>

SignInStage   == {"discovering", "preparing"}
CompleteStage == {"binding", "locating", "exchanging", "validating"}

\* op is the generation of the operation; txn is the transaction that a
\* completing flow took from storage; state is the one in its callback URL.
FlowRow == [stage : {"new", "done"} \union SignInStage \union CompleteStage,
            op : Nat, txn : Flow \union {None}, state : Flow \union {None}]

ReadRow == [stage : {"new", "working", "refused", "delivered", "dropped"},
            op : Nat, login : Flow \union {None}]

Login == [login : Flow, expiresAt : Instant]
Transaction == [txn : Flow, at : Instant]

ASSUME NoneIsNoRecord == None \notin Login \union Transaction

TypeOK ==
    /\ now \in Instant
    /\ doc \in {"open", "cached", "gone"}
    /\ phase \in {"idle", "pending", "authenticated", "error", "expired", "signed-out"}
    /\ generation \in Nat
    /\ credentials \in Login \union {None}
    /\ busy \in Flow \union {None}
    /\ leaving \in BOOLEAN
    /\ redirect \in Transaction \union {None}
    /\ flow \in [Flow -> FlowRow]
    /\ read \in [Read -> ReadRow]
    /\ authorized \subseteq Flow
    /\ exchanges \in [Flow -> Nat]
    /\ cancelled \subseteq Flow

Init ==
    /\ now \in Instant
    /\ doc = "gone"
    /\ phase = "idle" /\ generation = 0 /\ credentials = None
    /\ busy = None
    /\ leaving = FALSE
    /\ redirect = None
    /\ flow = [f \in Flow |-> [stage |-> "new", op |-> 0, txn |-> None, state |-> None]]
    /\ read = [r \in Read |-> [stage |-> "new", op |-> 0, login |-> None]]
    /\ authorized = {}
    /\ exchanges = [f \in Flow |-> 0]
    /\ cancelled = {}

-----------------------------------------------------------------------------
(* Session.                                                                 *)

Running(f) == flow[f].stage \notin {"new", "done"}

Expired == credentials # None /\ credentials.expiresAt <= now

\* isCurrent() checks the expiry first, which would begin a new generation.
IsCurrent(op) == ~Expired /\ op = generation

\* end(outcome): the generation is over, whatever runs on its behalf.
End(outcome) ==
    /\ phase' = outcome
    /\ generation' = generation + 1
    /\ credentials' = None
    /\ cancelled' = cancelled \union {f \in Flow : Running(f)}

\* The session as a call of isCurrent() that returns false leaves it.
Recheck ==
    IF Expired THEN End("expired") ELSE UNCHANGED <<session, cancelled>>

\* The timer, a focus, a visibility change or a page-show.
CheckExpiry ==
    /\ doc = "open"
    /\ Expired
    /\ End("expired")
    /\ UNCHANGED <<now, doc, busy, leaving, redirect, flow, read, authorized, exchanges>>

\* logout(), from the buttons shown while signing in or signed in.
Logout ==
    /\ doc = "open"
    /\ phase \in {"pending", "authenticated"}
    /\ leaving' = FALSE
    /\ busy' = None
    /\ End("signed-out")
    /\ redirect' = None
    /\ UNCHANGED <<now, doc, flow, read, authorized, exchanges>>

-----------------------------------------------------------------------------
(* Documents.                                                               *)

\* What runs in a document ends with it.
Discard ==
    /\ flow' = [f \in Flow |-> IF Running(f) THEN [flow[f] EXCEPT !.stage = "done"]
                               ELSE flow[f]]
    /\ read' = [r \in Read |-> IF read[r].stage \in {"working", "refused"}
                               THEN [read[r] EXCEPT !.stage = "dropped"]
                               ELSE read[r]]

\* Fault: a document that goes into the cache keeps its session.
HideKeepingSession ==
    /\ doc = "open"
    /\ leaving' = FALSE
    /\ redirect' = IF leaving THEN redirect ELSE None
    /\ doc' = "cached"
    /\ UNCHANGED <<now, session, busy, flow, read, authorized, history>>

\* pagehide: leaveDocument().  The document is destroyed or cached.  The bound:
\* a document is cached in its first generations only.
Hide ==
    /\ doc = "open"
    /\ leaving' = FALSE
    /\ busy' = None
    /\ End("signed-out")
    /\ redirect' = IF leaving THEN redirect ELSE None
    /\ \/ generation < MaxCached /\ doc' = "cached" /\ UNCHANGED <<flow, read>>
       \/ doc' = "gone" /\ Discard
    /\ UNCHANGED <<now, authorized, exchanges>>

\* The browser ends a document without telling it: a crash, a discarded tab.
\* The storage of the session outlives it.
Kill ==
    /\ doc = "open"
    /\ doc' = "gone"
    /\ Discard
    /\ End("idle") /\ busy' = None /\ leaving' = FALSE
    /\ UNCHANGED <<now, redirect, authorized, exchanges>>

\* The browser drops a cached document.
Evict ==
    /\ doc = "cached"
    /\ doc' = "gone"
    /\ Discard
    /\ UNCHANGED <<now, session, busy, leaving, redirect, authorized, history>>

\* pageshow of a cached document: logout().
Show ==
    /\ doc = "cached"
    /\ doc' = "open"
    /\ leaving' = FALSE
    /\ busy' = None
    /\ End("signed-out")
    /\ redirect' = None
    /\ UNCHANGED <<now, flow, read, authorized, exchanges>>

\* #readRedirect: a stored transaction is good for a time.
Acceptable(t) == t # None /\ t.at <= now /\ now - t.at < Ttl

\* A new document: a new Session, and the constructor's expireRedirect.
Open ==
    /\ doc = "gone"
    /\ doc' = "open"
    /\ phase' = "idle" /\ generation' = 0 /\ credentials' = None
    /\ redirect' = IF Acceptable(redirect) THEN redirect ELSE None
    /\ UNCHANGED <<now, busy, leaving, flow, read, authorized, history>>

-----------------------------------------------------------------------------
(* Signing in.                                                              *)

\* Fault: a way out of a flow without its finally clause.
FinishStayingBusy(f) ==
    /\ flow' = [flow EXCEPT ![f].stage = "done"]
    /\ UNCHANGED busy

\* The finally clause of a flow.
Finish(f) ==
    /\ flow' = [flow EXCEPT ![f].stage = "done"]
    /\ busy' = IF busy = f THEN None ELSE busy

Advance(f, stage) == flow' = [flow EXCEPT ![f].stage = stage]

\* signIn(), up to the discovery request.
SignIn(f) ==
    /\ doc = "open"
    /\ phase \notin {"pending", "authenticated"}   \* or there is no button
    /\ busy = None
    /\ flow[f].stage = "new"
    /\ phase' = "pending" /\ generation' = generation + 1 /\ credentials' = None
    /\ cancelled' = cancelled \union {g \in Flow : Running(g)}
    /\ busy' = f
    /\ leaving' = FALSE
    /\ redirect' = None
    /\ flow' = [flow EXCEPT ![f] = [@ EXCEPT !.stage = "discovering",
                                             !.op = generation']]
    /\ UNCHANGED <<now, doc, read, authorized, exchanges>>

\* The provider was discovered: derive the state and the challenge.
Prepare(f) ==
    /\ doc = "open"
    /\ flow[f].stage = "discovering"
    /\ IsCurrent(flow[f].op)
    /\ Advance(f, "preparing")
    /\ UNCHANGED <<now, doc, session, busy, leaving, redirect, read, authorized, history>>

\* Store the transaction and navigate to the provider.  The transaction was
\* stamped before the last await, with a time that may be any earlier one.
Leave(f) ==
    /\ doc = "open"
    /\ flow[f].stage = "preparing"
    /\ IsCurrent(flow[f].op)
    /\ \E at \in Instant :
        /\ ClockSteps \/ at <= now
        /\ redirect' = [txn |-> f, at |-> at]
    /\ leaving' = TRUE
    /\ Finish(f)
    /\ UNCHANGED <<now, doc, session, read, authorized, history>>

\* The provider answers a transaction it was sent.
Authorize(f) ==
    /\ redirect # None /\ redirect.txn = f
    /\ authorized' = authorized \union {f}
    /\ UNCHANGED <<now, doc, session, busy, leaving, redirect, flow, read, history>>

\* Fault: the transaction is erased once the exchange has succeeded.
ReturnKeepingRedirect(f, t) ==
    /\ doc = "gone"
    /\ t \in authorized
    /\ flow[f].stage = "new"
    /\ doc' = "open"
    /\ redirect' = IF Acceptable(redirect) THEN redirect ELSE None
    /\ credentials' = None
    /\ IF Acceptable(redirect)
       THEN /\ phase' = "pending" /\ generation' = 1
            /\ busy' = f
            /\ flow' = [flow EXCEPT ![f] = [stage |-> "binding", op |-> 1,
                                            txn |-> redirect.txn, state |-> t]]
       ELSE /\ phase' = "error" /\ generation' = 2
            /\ busy' = None
            /\ flow' = [flow EXCEPT ![f].stage = "done"]
    /\ UNCHANGED <<now, leaving, read, authorized, history>>

\* A new document at the callback URL: complete(), up to its first await.  The
\* stored transaction is read and erased; without one the call fails at once.
\* A callback URL may be opened again, from the history of the provider's page.
Return(f, t) ==
    /\ doc = "gone"
    /\ t \in authorized
    /\ flow[f].stage = "new"
    /\ doc' = "open"
    /\ redirect' = None
    /\ credentials' = None
    /\ IF Acceptable(redirect)
       THEN /\ phase' = "pending" /\ generation' = 1
            /\ busy' = f
            /\ flow' = [flow EXCEPT ![f] = [stage |-> "binding", op |-> 1,
                                            txn |-> redirect.txn, state |-> t]]
       ELSE /\ phase' = "error" /\ generation' = 2
            /\ busy' = None
            /\ flow' = [flow EXCEPT ![f].stage = "done"]
    /\ UNCHANGED <<now, leaving, read, authorized, history>>

\* The binding of the transaction was compared: discover the provider.  There
\* is no check here that the operation is current.
Locate(f) ==
    /\ doc = "open"
    /\ flow[f].stage = "binding"
    /\ Advance(f, "locating")
    /\ UNCHANGED <<now, doc, session, busy, leaving, redirect, read, authorized, history>>

\* The callback carries the stored state: send the code with its verifier.
Exchange(f) ==
    /\ doc = "open"
    /\ flow[f].stage = "locating"
    /\ IsCurrent(flow[f].op)
    /\ flow[f].state = flow[f].txn
    /\ exchanges' = [exchanges EXCEPT ![flow[f].txn] = @ + 1]
    /\ Advance(f, "exchanging")
    /\ UNCHANGED <<now, doc, session, busy, leaving, redirect, read, authorized, cancelled>>

Validate(f) ==
    /\ doc = "open"
    /\ flow[f].stage = "exchanging"
    /\ IsCurrent(flow[f].op)
    /\ Advance(f, "validating")
    /\ UNCHANGED <<now, doc, session, busy, leaving, redirect, read, authorized, history>>

\* Fault: a late answer is accepted.
AcceptUnchecked(f) ==
    /\ doc = "open"
    /\ flow[f].stage = "validating"
    /\ \E e \in Instant :
        /\ e > now
        /\ credentials' = [login |-> f, expiresAt |-> e]
        /\ phase' = "authenticated"
        /\ UNCHANGED <<generation, cancelled>>
    /\ Finish(f)
    /\ UNCHANGED <<now, doc, leaving, redirect, read, authorized, exchanges>>

\* The tokens are valid until e: accept them, unless e is too far away, which a
\* clock set back since the exchange can make it.
Accept(f) ==
    /\ doc = "open"
    /\ flow[f].stage = "validating"
    /\ IsCurrent(flow[f].op)
    /\ phase = "pending"
    /\ \E e \in Instant :
        /\ e > now
        /\ ClockSteps \/ e - now <= Day
        /\ IF e - now > Day
           THEN End("expired")
           ELSE /\ credentials' = [login |-> f, expiresAt |-> e]
                /\ phase' = "authenticated"
                /\ UNCHANGED <<generation, cancelled>>
    /\ Finish(f)
    /\ UNCHANGED <<now, doc, leaving, redirect, read, authorized, exchanges>>

\* The catch clause: a current flow ends its session; a sign-in also erases
\* its transaction.  A flow that is not current changes nothing.
FailFlow(f) ==
    /\ doc = "open"
    /\ Running(f)
    /\ Finish(f)
    /\ IF IsCurrent(flow[f].op)
       THEN /\ End("error")
            /\ IF flow[f].stage \in SignInStage
               THEN leaving' = FALSE /\ redirect' = None
               ELSE UNCHANGED <<leaving, redirect>>
       ELSE Recheck /\ UNCHANGED <<leaving, redirect>>
    /\ UNCHANGED <<now, doc, read, authorized, exchanges>>

-----------------------------------------------------------------------------
(* Reading with the session.                                                *)

\* Session.run, up to the fetch.
StartRead(r) ==
    /\ doc = "open"
    /\ read[r].stage = "new"
    /\ credentials # None /\ ~Expired
    /\ read' = [read EXCEPT ![r] = [stage |-> "working", op |-> generation,
                                    login |-> credentials.login]]
    /\ UNCHANGED <<now, doc, session, busy, leaving, redirect, flow, authorized, history>>

\* Fault: the result of ignored cancellation is delivered.
DeliverUnchecked(r) ==
    /\ doc = "open"
    /\ read[r].stage = "working"
    /\ read' = [read EXCEPT ![r].stage = "delivered"]
    /\ UNCHANGED <<now, doc, session, busy, leaving, redirect, flow, authorized, history>>

Deliver(r) ==
    /\ doc = "open"
    /\ read[r].stage = "working"
    /\ IsCurrent(read[r].op)
    /\ read' = [read EXCEPT ![r].stage = "delivered"]
    /\ UNCHANGED <<now, doc, session, busy, leaving, redirect, flow, authorized, history>>

\* A 401: cancel the body of the response, which takes another await.
Refuse(r) ==
    /\ doc = "open"
    /\ read[r].stage = "working"
    /\ IsCurrent(read[r].op)
    /\ read' = [read EXCEPT ![r].stage = "refused"]
    /\ UNCHANGED <<now, doc, session, busy, leaving, redirect, flow, authorized, history>>

\* Fault: the operation was checked before the await only.
EndRefusedUnchecked(r) ==
    /\ doc = "open"
    /\ read[r].stage = "refused"
    /\ End("signed-out")
    /\ read' = [read EXCEPT ![r].stage = "dropped"]
    /\ UNCHANGED <<now, doc, busy, leaving, redirect, flow, authorized, exchanges>>

\* The refusal of a current read ends the session.
EndRefused(r) ==
    /\ doc = "open"
    /\ read[r].stage = "refused"
    /\ IsCurrent(read[r].op)
    /\ End("signed-out")
    /\ read' = [read EXCEPT ![r].stage = "dropped"]
    /\ UNCHANGED <<now, doc, busy, leaving, redirect, flow, authorized, exchanges>>

\* A read of an ended session, one that fails, or one that is cancelled.
Drop(r) ==
    /\ doc = "open"
    /\ \/ read[r].stage = "working"
       \/ read[r].stage = "refused" /\ ~IsCurrent(read[r].op)
    /\ Recheck
    /\ read' = [read EXCEPT ![r].stage = "dropped"]
    /\ UNCHANGED <<now, doc, busy, leaving, redirect, flow, authorized, exchanges>>

-----------------------------------------------------------------------------
Tick ==
    /\ \/ now < MaxTime /\ now' = now + 1
       \/ ClockSteps /\ now' \in Instant \ {now}
    /\ UNCHANGED <<doc, session, busy, leaving, redirect, flow, read, authorized, history>>

\* One of the continuations of a flow.
Continue(f) ==
    \/ Prepare(f) \/ Leave(f) \/ Locate(f) \/ Exchange(f) \/ Validate(f)
    \/ Accept(f) \/ FailFlow(f)

Next ==
    \/ Tick \/ CheckExpiry \/ Logout \/ Hide \/ Kill \/ Evict \/ Show \/ Open
    \/ \E f \in Flow : SignIn(f) \/ Authorize(f) \/ Continue(f)
    \/ \E f, t \in Flow : Return(f, t)
    \/ \E r \in Read : StartRead(r) \/ Deliver(r) \/ Refuse(r) \/ EndRefused(r) \/ Drop(r)

Spec == Init /\ [][Next]_vars

\* Every await of a flow settles, if only by its ten-second timeout, and the
\* expiry timer fires while the document is open.
Fairness == WF_vars(CheckExpiry) /\ \A f \in Flow : WF_vars(Continue(f))

FairSpec == Spec /\ Fairness

-----------------------------------------------------------------------------
(* Properties.                                                              *)

\* "Late OIDC responses cannot recreate an ended session": nobody is signed in
\* by a flow that was running when a logout, a departure, an expiry or a newer
\* sign-in ended its session.
NotSignedInLate == credentials # None => credentials.login \notin cancelled

\* A transaction, and with it the code bound to its verifier, is exchanged at
\* most once, however often its callback URL is opened ("it is consumed before
\* the first asynchronous operation").
ExchangedOnce == \A t \in Flow : exchanges[t] <= 1

\* What a document leaves behind: no credentials, and a transaction only if it
\* left for the provider.  A document that has begun a session of its own holds
\* no transaction but that of the departure under way.
NothingLeftBehind ==
    /\ doc # "open" => credentials = None /\ busy = None
    /\ leaving => redirect # None
    /\ doc = "open" /\ redirect # None => leaving \/ generation = 0
    /\ redirect # None /\ leaving => flow[redirect.txn].op = generation

\* The flow that keeps the sign-in button busy is the one whose session is
\* pending: a superseded flow never blocks the next sign-in.
BusyIsCurrent ==
    busy # None => /\ Running(busy)
                   /\ flow[busy].op = generation
                   /\ phase = "pending"

\* Session.run delivers a result only to the login that asked for it, before
\* that login expires, whatever was begun and ended in between.
ResultsStayInSession ==
    [][\A r \in Read :
        read[r].stage # "delivered" /\ read'[r].stage = "delivered" =>
            /\ credentials # None
            /\ credentials.login = read[r].login
            /\ now < credentials.expiresAt]_vars

\* The outcome of a read, the late 401 of an older session above all, does not
\* end a sign-in that is under way.
LateRefusalsHarmless ==
    [][phase = "pending" /\ read' # read /\ doc' = "open"
        => UNCHANGED session]_vars

\* Whatever happens to sign-ins, callbacks, documents and clocks, readers can rely
\* on generations: the session is what SessionLife promises.
Life == INSTANCE SessionLife WITH alive <- doc # "gone", login <- credentials

ImplementsLife == Life!Spec

\* A sign-in that was begun ends: in a session, in an error, or in the
\* departure for the provider.
SignInEnds == \A f \in Flow : (busy = f) ~> (busy # f)

\* Expired credentials do not stay in memory.
ExpiryEnds == Expired ~> ~Expired

(***************************************************************************)
(* The inductive invariant behind the safety properties.                   *)
(***************************************************************************)

InFlight(r) == read[r].stage \in {"working", "refused"}

\* What the phase says of the rest of the session.
PhaseInv ==
    /\ credentials # None <=> phase = "authenticated"
    /\ generation = 0 => phase = "idle"
    /\ leaving => phase = "pending" /\ busy = None /\ doc = "open"

\* The current generation has at most one running flow, the busy one; every
\* other flow still running was cancelled.
FlowInv ==
    /\ \A f \in Flow :
        Running(f) => /\ doc # "gone"
                      /\ flow[f].op <= generation
                      /\ flow[f].op = generation => busy = f /\ f \notin cancelled
    /\ \A f \in cancelled : flow[f].stage # "new"
    /\ credentials # None => flow[credentials.login].stage = "done"

\* A read of the current generation reads for the login of the session.
ReadInv ==
    \A r \in Read :
        InFlight(r) => /\ doc # "gone"
                       /\ read[r].op <= generation
                       /\ read[r].op = generation =>
                            credentials # None /\ credentials.login = read[r].login

\* A flow holds a transaction that it has not exchanged yet.
Holds(f, t) == flow[f].stage \in {"binding", "locating"} /\ flow[f].txn = t

\* A transaction is in storage, held by one flow, or spent.
TransactionInv ==
    /\ \A f \in Flow : flow[f].stage \in CompleteStage => flow[f].txn # None
    /\ \A f, t \in Flow :
        Holds(f, t) => /\ exchanges[t] = 0 /\ flow[t].stage = "done"
                       /\ \A g \in Flow : Holds(g, t) => g = f
    /\ \A t \in Flow : exchanges[t] # 0 => flow[t].stage = "done"
    /\ redirect # None =>
        /\ exchanges[redirect.txn] = 0
        /\ flow[redirect.txn].stage = "done"
        /\ \A f \in Flow : ~Holds(f, redirect.txn)

IInv ==
    /\ TypeOK
    /\ PhaseInv
    /\ FlowInv
    /\ ReadInv
    /\ TransactionInv
    /\ NotSignedInLate
    /\ ExchangedOnce
    /\ NothingLeftBehind
    /\ BusyIsCurrent
=============================================================================
