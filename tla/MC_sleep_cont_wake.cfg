SPECIFICATION Spec
CONSTANTS
    MaxPid = 4
    Commands <- CmdsSleepCont
    HostSignals = {}
    NapCount = 1
    MaxQueue = 3
CONSTRAINT QueueBound
PROPERTY FgWaitReturnsOnChange
