CONSTANTS
    W = 3
    Keys <- SomeKeys
    Value = {1, 2}
    MaxEntries = 3
    Subjects = {"trie4", "trie6", "routes4", "routes6", "map4", "map6", "addrs", "ranges"}
SPECIFICATION Spec
VIEW View
INVARIANTS LookupsExact Intact
PROPERTIES AggregationKeepsRoutes ImplementsTable
\* Ranges ends, and a trie whose root was deleted is undefined.
CHECK_DEADLOCK FALSE
