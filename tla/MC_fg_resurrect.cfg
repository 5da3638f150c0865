SPECIFICATION Spec
CONSTANTS
    MaxPid = 3
    Commands <- CmdsReaped
    HostSignals = {}
    NapCount = 1
    MaxQueue = 2
CONSTRAINT QueueBound
PROPERTY TerminatedIsFinal
