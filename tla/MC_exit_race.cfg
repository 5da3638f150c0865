SPECIFICATION Spec
CONSTANTS
    MaxPid = 3
    Commands <- CmdsEcho
    HostSignals = {}
    NapCount = 1
    MaxQueue = 2
CONSTRAINT QueueBound
PROPERTY WaitReapsExited
