SPECIFICATION Spec
CONSTANTS
    Targets <- FewTargets
    Sizes <- FewSizes
    Origins = {"o1", "o2"}
    Keys = {"k1", "k2"}
    Configs <- FewConfigs
    U64Max = 5
    MaxCalls = 3
INVARIANTS TypeOK BytesWithinBudget FilesWithinBudget  NoSilentDenial EffectsAudited SameFile
CHECK_DEADLOCK FALSE
