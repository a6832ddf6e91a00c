SPECIFICATION FairSpec
CONSTANTS
    Callers = {"c1", "c2", "c3"}
    Procs = {"p1", "p2"}
    Home <- HomeOf
    Requests <- FewRequests
    Arguments <- FewArguments
    Asks <- FewAsks
    Leftovers <- FewLeftovers
    Target <- Linux
    MaxCrashes = 1
INVARIANTS TypeOK OneMaterialization  ResolvedIsPinned 
PROPERTIES OnlyStaleRemovals CallsSettle
CHECK_DEADLOCK FALSE
