SPECIFICATION Spec
CONSTANTS
    NumEntries = 8
    EntriesPerBlock = 1
    BlockSize = 2
    Names = {"a", "b"}
    MaxOpen = 4
    Jobs = {j1, j2}
    Cmds <- BgCmds
    TermReads <- Reads
    Background = TRUE
    MaxLaunches = 2
INVARIANTS StdoutOpen
