SPECIFICATION Spec
CONSTANTS
    MaxPid = 4
    Commands <- CmdsStopBg
    HostSignals = {}
    NapCount = 1
    MaxQueue = 2
CONSTRAINT QueueBound
PROPERTY ShellReachesPrompt
