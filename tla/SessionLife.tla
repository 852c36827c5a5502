---------------------------- MODULE SessionLife ----------------------------
(***************************************************************************)
(* What the session of the browser (auth/session.ts) promises to those who *)
(* read with it and remember no more of it than its generation: within a   *)
(* document a generation has one login at most, it is over as soon as its  *)
(* login is, and it never comes back.  BrowserSession, with everything that *)
(* can happen to a sign-in, implements it; ReadQueries and ViewReads assume *)
(* no more of their sessions.                                              *)
(***************************************************************************)
EXTENDS Naturals

CONSTANTS
    Login,      \* what makes a session an authenticated one
    None        \* no login

VARIABLES
    alive,      \* whether there is a document, in which somebody may read
    generation, \* of the session
    login       \* its login, if it has one

lifeVars == <<alive, generation, login>>

Init ==
    /\ alive \in BOOLEAN
    /\ generation \in Nat
    /\ login \in Login \union {None}

\* A sign-in that has begun is accepted.
Accept ==
    /\ alive
    /\ login = None
    /\ login' \in Login
    /\ UNCHANGED <<alive, generation>>

\* The session ends or gives way to a sign-in, perhaps because its document ends.
End ==
    /\ alive
    /\ login' = None
    /\ generation' = generation + 1
    /\ alive' \in BOOLEAN

\* A document that has no login is discarded.
Discard ==
    /\ alive /\ login = None
    /\ alive' = FALSE
    /\ UNCHANGED <<generation, login>>

\* A document is opened: its session is new, and may have begun and failed already.
Open ==
    /\ ~alive /\ login = None
    /\ alive' = TRUE
    /\ generation' \in 0 .. 2
    /\ UNCHANGED login

Next == Accept \/ End \/ Discard \/ Open

Spec == Init /\ [][Next]_lifeVars
=============================================================================
