---------------------------- MODULE ImportLedger ----------------------------
(***************************************************************************)
(* What the eight dataset importers promise to the rest of the platform:   *)
(* an import takes effect in one indivisible step, which replaces the live  *)
(* rows of its dataset and records the run that produced them, and a        *)
(* bundle that already has a successful run is not accepted again.          *)
(* docs/architecture.md (Import lifecycle) states the promise; ImportRuns   *)
(* is the detailed specification that implements it.                        *)
(***************************************************************************)
CONSTANTS
    Dataset,    \* the datasets the platform imports
    Bundle,     \* the possible contents of a source bundle, i.e. its SHA-256
    Run         \* identities of import_runs rows; finite, it bounds a model

VARIABLES
    rows,       \* rows[d]: the runs whose rows are the live rows of d
    succeeded,  \* the successful import_runs rows
    published   \* every run whose rows were ever committed

ledgerVars == <<rows, succeeded, published>>

Entry == [run : Run, dataset : Dataset, sha256 : Bundle]

LedgerTypeOK ==
    /\ rows \in [Dataset -> SUBSET Run]
    /\ succeeded \subseteq Entry
    /\ published \subseteq Run

Init ==
    /\ rows = [d \in Dataset |-> {}]
    /\ succeeded = {}
    /\ published = {}

\* The run r replaces the rows of d by the content of a bundle whose checksum
\* is b.  A checksum already accepted for d is refused.
Accept(r, d, b) ==
    /\ r \notin published
    /\ \A s \in succeeded : ~(s.dataset = d /\ s.sha256 = b)
    /\ rows' = [rows EXCEPT ![d] = {r}]
    /\ succeeded' = succeeded \union {[run |-> r, dataset |-> d, sha256 |-> b]}
    /\ published' = published \union {r}

\* A run that was accepted is recorded as failed afterwards, its rows staying
\* where they are: the importer never learned that its commit took effect.
Disown(s) ==
    /\ succeeded' = succeeded \ {s}
    /\ UNCHANGED <<rows, published>>

Next ==
    \/ \E r \in Run, d \in Dataset, b \in Bundle : Accept(r, d, b)
    \/ \E s \in succeeded : Disown(s)

Spec == Init /\ [][Next]_ledgerVars
=============================================================================
