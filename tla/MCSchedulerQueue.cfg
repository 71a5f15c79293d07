CONSTANTS
    hourly = hourly
    daily = daily
    oneOff = oneOff
    p1 = p1
    p2 = p2
    Tasks = {hourly, oneOff, daily}
    Procs = {p1, p2}
    Handles = {h1, h2}
    Schedule <- MCSchedule
    MaxConcurrent = 1
    Grace = 1
    MaxTime = 2
    MaxTrouble = 2
SPECIFICATION QueueSpec
INVARIANTS
    NoOverlap
    SlotsFireOnce
PROPERTY PassedOnce
CONSTRAINT Small
SYMMETRY ProcSymmetry
CHECK_DEADLOCK FALSE
