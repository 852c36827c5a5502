------------------------- MODULE MCCollectionPages -------------------------
\* The lists that TLC shows.
EXTENDS CollectionPages

Shows(on, name, store) == [screen |-> on, name |-> name, store |-> store]

MCEntries ==
    {Shows("stores", "stores", 0), Shows("explorer", "store_typology_values", 1),
     Shows("quality", "import_runs", 0)}

=============================================================================
