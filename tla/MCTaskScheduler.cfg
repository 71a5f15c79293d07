CONSTANTS
    hourly = hourly
    oneOff = oneOff
    p1 = p1
    Tasks = {hourly, oneOff}
    Procs = {p1}
    Handles = {h1, h2}
    Schedule <- MCCron
    MaxConcurrent = 1
    Grace = 1
    MaxTime = 3
    MaxTrouble = 1
SPECIFICATION Spec
PROPERTIES
    Rearmed
    KeepsContract
CHECK_DEADLOCK FALSE
