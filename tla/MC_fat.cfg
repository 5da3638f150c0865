SPECIFICATION Spec
CONSTANTS
    NumEntries = 8
    EntriesPerBlock = 1
    BlockSize = 2
    Names = {"a", "b"}
    HostSizes <- SomeHostSizes
    MvPairs <- MvDistinct
    Modes <- SomeModes
INVARIANTS TypeOK FatConsistent NamesUnique SizeFitsChain
PROPERTY FileStoreRefined
