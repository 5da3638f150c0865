SPECIFICATION Spec
CONSTANTS
    MaxPid = 4
    Commands <- CmdsJobs
    HostSignals = {"TERM", "STOP"}
    NapCount = 1
    MaxQueue = 2
CONSTRAINT QueueBound
INVARIANT TypeOK
INVARIANT NoLostProcess
INVARIANT ParentLinks
INVARIANT JobsTracked
PROPERTY FgWaitReturnsOnChange
