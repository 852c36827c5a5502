------------------------- MODULE PublishedContract -------------------------
(***************************************************************************)
(* The collections that the browser knows                                  *)
(* (features/data-explorer/published-contract.ts), and what it makes of    *)
(* the catalogue that the service advertises (published-data.ts and        *)
(* quality-data.ts).  Of a collection's fields are kept those that select  *)
(* rows - its keys, in order, and its filters - and the kinds that its     *)
(* values have, nested ones included.                                      *)
(***************************************************************************)
EXTENDS Naturals, Sequences

Collection(name, keys, also, nullable, kinds) ==
    [name |-> name, keys |-> keys, operations |-> FALSE,
     filters |-> {keys[i] : i \in DOMAIN keys} \union also,
     nullable |-> nullable, kinds |-> kinds]

\* A collection for operations is none of the explorer's.
Operations(name, keys, also, nullable, kinds) ==
    [Collection(name, keys, also, nullable, kinds) EXCEPT !.operations = TRUE]

ActivityMonth ==
    Collection("analytics_activity_month", <<"store_id", "period", "activity_type">>,
        {}, {}, {"uuid", "date", "string", "integer", "boolean", "list"})

AssortmentCandidates ==
    Collection("analytics_assortment_candidates", <<"store_id", "period", "assortment_id">>,
        {"product_id"}, {"product_id"}, {"uuid", "date", "string", "list"})

DistributionProductMonth ==
    Collection("analytics_distribution_product_month", <<"store_id", "period", "category_code", "product_key">>,
        {"product_id"}, {"product_id"}, {"uuid", "date", "string", "integer", "boolean", "list"})

MonthlyLinkQuality ==
    Collection("analytics_monthly_link_quality", <<"dataset", "period", "store_match_status">>,
        {}, {}, {"date", "string", "integer"})

RefreshRuns ==
    Operations("analytics_refresh_runs", <<"id">>,
        {}, {}, {"uuid", "date-time", "string", "list"})

RegisterProductMonth ==
    Collection("analytics_register_product_month", <<"store_id", "period", "source_gtin">>,
        {"product_id"}, {"product_id"}, {"uuid", "date", "string", "integer", "decimal", "boolean", "list"})

RetailerAssortmentMonth ==
    Collection("analytics_retailer_assortment_month", <<"store_id", "period", "assortment_id">>,
        {"product_id"}, {"product_id"}, {"uuid", "date", "string"})

ShelfCategoryMonth ==
    Collection("analytics_shelf_category_month", <<"store_id", "period", "category_code">>,
        {}, {}, {"uuid", "date", "string", "integer", "decimal", "boolean", "list"})

StoreCategoryMonth ==
    Collection("analytics_store_category_month", <<"store_id", "period", "category_code">>,
        {}, {}, {"uuid", "date", "string", "integer", "decimal", "boolean"})

StoreMonth ==
    Collection("analytics_store_month", <<"store_id", "period">>,
        {}, {}, {"uuid", "date", "date-time", "string", "integer", "decimal", "boolean", "list", "object"})

StoreMonthChanges ==
    Collection("analytics_store_month_changes", <<"store_id", "period">>,
        {}, {}, {"uuid", "date", "integer", "decimal"})

TypologyMonth ==
    Collection("analytics_typology_month", <<"typology_value_id">>,
        {"store_id", "period"}, {"store_id", "period"}, {"uuid", "date", "string", "integer", "boolean", "list"})

Assortments ==
    Collection("assortments", <<"id">>,
        {"product_id", "period"}, {"product_id"}, {"uuid", "date", "string"})

ImportRuns ==
    Operations("import_runs", <<"id">>,
        {}, {}, {"uuid", "date-time", "string", "integer"})

NumericDistributionObservations ==
    Collection("numeric_distribution_observations", <<"id">>,
        {"store_id", "product_id", "period"}, {"store_id", "product_id"}, {"uuid", "date", "string", "integer"})

Products ==
    Collection("products", <<"id">>,
        {}, {}, {"uuid", "date-time", "string", "decimal", "boolean"})

RegisterObservations ==
    Collection("register_observations", <<"id">>,
        {"store_id", "product_id", "period"}, {"store_id", "product_id"}, {"uuid", "date", "string", "integer", "decimal"})

ShelfShareObservations ==
    Collection("shelf_share_observations", <<"id">>,
        {"store_id", "period"}, {"store_id"}, {"uuid", "date", "string", "integer", "decimal"})

StoreActivityMetrics ==
    Collection("store_activity_metrics", <<"id">>,
        {"store_id", "period"}, {"store_id"}, {"uuid", "date", "string", "integer"})

StoreTypologyValues ==
    Collection("store_typology_values", <<"id">>,
        {"store_id"}, {}, {"uuid", "string"})

Stores ==
    Collection("stores", <<"id">>,
        {"store_id"}, {}, {"uuid", "date-time", "string", "integer", "decimal", "boolean"})

TypologyMappingRules ==
    Collection("typology_mapping_rules", <<"id">>,
        {}, {}, {"uuid", "string", "boolean"})

TypologyRankRules ==
    Collection("typology_rank_rules", <<"id">>,
        {}, {}, {"uuid", "string", "integer"})

TypologySnapshots ==
    Collection("typology_snapshots", <<"id">>,
        {"store_id", "period"}, {"store_id"}, {"uuid", "date", "string"})

NetworkMonth ==
    Collection("analytics_network_month", <<"period">>,
        {}, {}, {"date", "integer", "decimal"})

NetworkYear ==
    Collection("analytics_network_year", <<"period">>,
        {}, {}, {"date", "integer", "decimal"})

NetworkOverview ==
    Collection("analytics_network_overview", <<"scope">>,
        {}, {}, {"date", "string", "integer", "decimal"})

NetworkMonthChanges ==
    Collection("analytics_network_month_changes", <<"period">>,
        {}, {}, {"date", "decimal"})

Analyses ==
    {ActivityMonth, AssortmentCandidates, DistributionProductMonth,
     MonthlyLinkQuality, RefreshRuns, RegisterProductMonth,
     RetailerAssortmentMonth, ShelfCategoryMonth, StoreCategoryMonth,
     StoreMonth, StoreMonthChanges, TypologyMonth, NetworkMonth, NetworkYear,
     NetworkOverview, NetworkMonthChanges}

Contract ==
    Analyses \union
    {Assortments, ImportRuns, NumericDistributionObservations, Products,
     RegisterObservations, ShelfShareObservations, StoreActivityMetrics,
     StoreTypologyValues, Stores, TypologyMappingRules, TypologyRankRules,
     TypologySnapshots}

-----------------------------------------------------------------------------
Names == {c.name : c \in Contract}

ContractOf(name) == CHOOSE c \in Contract : c.name = name

Keys(c) == {c.keys[i] : i \in DOMAIN c.keys}

\* The columns that select rows.  The stores are filtered by their own key under
\* another name, and the values of a typology by a relation that only the
\* service knows.
Columns(c) ==
    IF c.name \in {"stores", "store_typology_values"} THEN Keys(c)
    ELSE Keys(c) \union c.filters

\* The kinds that decodeValue has a case for; a field of any other kind, which the
\* compiler would let pass, makes every row invalid.
DecodedKinds ==
    {"object", "list", "integer", "boolean", "uuid", "date", "date-time", "decimal", "string"}

-----------------------------------------------------------------------------
\* What the service advertises of a collection.
Advertised(c) ==
    [name |-> c.name, keys |-> c.keys, filters |-> c.filters, columns |-> Columns(c)]

\* No column or filter that the browser does not know, and its very keys.
Understood(r) ==
    LET c == ContractOf(r.name)
    IN  /\ r.columns \subseteq Columns(c)
        /\ r.keys = c.keys
        /\ r.filters \subseteq c.filters

Refused == {[name |-> "refused"]}

\* The explorer's menu: one collection that is not understood refuses the whole
\* catalogue.
AvailableResources(catalog) ==
    LET offered == {r \in catalog : ~ContractOf(r.name).operations}
    IN  IF \A r \in offered : Understood(r) THEN offered ELSE Refused

QualityNames == {"analytics_monthly_link_quality", "import_runs", "analytics_refresh_runs"}

\* The menu of the quality view, whose three collections are exactly those known.
QualityResources(catalog) ==
    LET offered == {r \in catalog : r.name \in QualityNames}
    IN  IF \A r \in offered : r = Advertised(ContractOf(r.name)) THEN offered ELSE Refused

\* A row is read again by its whole key: each of its columns is a filter, and its
\* value a string, which only a kind other than a number, never null, is.
DetailQuery(r) ==
    IF \A i \in DOMAIN r.keys :
        r.keys[i] \in r.filters /\ r.keys[i] \notin ContractOf(r.name).nullable
    THEN {r.keys[i] : i \in DOMAIN r.keys}
    ELSE {}

\* The columns of the filter form: those the view has not fixed.
FilterQuery(r, fixed) == r.filters \ fixed

\* Every row of every collection can be opened: it has a key, whose columns are
\* filters and never null; it can be decoded; and what the service advertises is
\* understood.
ASSUME ContractAssumption ==
    \A c \in Contract :
        /\ Keys(c) # {}
        /\ DetailQuery(Advertised(c)) = Keys(c)
        /\ c.kinds \subseteq DecodedKinds
        /\ AvailableResources({Advertised(c)}) # Refused
        /\ c = ContractOf(c.name)

ResourceGroup(name) ==
    CASE name \in {"numeric_distribution_observations", "register_observations",
                   "shelf_share_observations", "store_activity_metrics"} -> "observations"
      [] name \in {c.name : c \in Analyses} -> "analyses"
      [] OTHER -> "reference"

=============================================================================
