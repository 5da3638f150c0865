SPECIFICATION Spec
CONSTANTS
    NumEntries = 8
    EntriesPerBlock = 1
    BlockSize = 2
    Names = {"a", "b"}
    MaxOpen = 4
    Jobs = {j1}
    Cmds <- ShortWords
    TermReads <- Reads
    Background = FALSE
    MaxLaunches = 6
INVARIANTS TypeOK DiskConsistent DiskSizes
