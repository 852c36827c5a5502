------------------------- MODULE AnalyticsRegister -------------------------
(***************************************************************************)
(* What the analytical refresh promises to whoever reads the views: they    *)
(* hold one snapshot of the imports at a time.  A refresh takes its snapshot *)
(* of the live rows and of the successful imports together; it replaces all  *)
(* the views and the list that is published with them in one step, or not at *)
(* all; and no other refresh takes a snapshot meanwhile.  Imports go on all  *)
(* the time.  AnalyticsRefresh is the detailed specification that implements *)
(* it.                                                                      *)
(***************************************************************************)
CONSTANTS
    Dataset, Bundle, Run,   \* as in ImportLedger
    Sources                 \* Sources[v]: the datasets that view v is made from

VARIABLES
    rows, succeeded, published,  \* the ledger of the importers
    taken,      \* the snapshot of the refresh under way, if there is one
    views,      \* what the views hold
    listed      \* the imports that are published as the sources of the views

registerVars == <<rows, succeeded, published, taken, views, listed>>

Ledger == INSTANCE ImportLedger

View == DOMAIN Sources

\* The views made from these rows.
Contents(tables) ==
    [v \in View |-> [populated |-> TRUE,
                     from |-> {<<d, tables[d]>> : d \in Sources[v] \intersect Dataset}]]

Init ==
    /\ Ledger!Init
    /\ taken = {}
    /\ views = [v \in View |-> [populated |-> FALSE, from |-> {}]]
    /\ listed = {}

Import ==
    /\ Ledger!Next
    /\ UNCHANGED <<taken, views, listed>>

Take ==
    /\ taken = {}
    /\ taken' = {[rows |-> rows, ids |-> {s.run : s \in succeeded}]}
    /\ UNCHANGED <<rows, succeeded, published, views, listed>>

Publish ==
    /\ \E s \in taken :
        /\ views' = Contents(s.rows)
        /\ listed' = s.ids
    /\ taken' = {}
    /\ UNCHANGED <<rows, succeeded, published>>

Abandon ==
    /\ taken # {}
    /\ taken' = {}
    /\ UNCHANGED <<rows, succeeded, published, views, listed>>

Next == Import \/ Take \/ Publish \/ Abandon

Spec == Init /\ [][Next]_registerVars
=============================================================================
