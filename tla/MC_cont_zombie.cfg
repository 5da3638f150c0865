SPECIFICATION Spec
CONSTANTS
    MaxPid = 4
    Commands <- CmdsCont
    HostSignals = {}
    NapCount = 1
    MaxQueue = 2
CONSTRAINT QueueBound
INVARIANT NoLostProcess
