SPECIFICATION Spec
CONSTANTS
    MaxPid = 4
    Commands <- CmdsControl
    HostSignals = {}
    NapCount = 1
    MaxQueue = 2
CONSTRAINT QueueBound
INVARIANT NoLostProcess
PROPERTY DispatchProgress
PROPERTY ReadyRuns
