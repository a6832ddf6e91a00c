SPECIFICATION Spec
CONSTANTS
    h1 = h1
    h2 = h2
    t = t
    Procs = {h1, h2, t}
    Starts <- FewStarts
    MaxKills = 1
    U64Max <- SmallU64
    ExponentFrom <- SmallExponent
INVARIANTS TypeOK ListedIsWhole SkipIsSafe ReadyHasHome 
 
CHECK_DEADLOCK FALSE
