SPECIFICATION BatchSpec
CONSTANTS
    run = run
    Task = run
    Callers = {run}
    Threshold = 2
    Cooldown = 2
    Capacity = 4
    Cost = 1
    MaxWindow = 0
    Size = 5
INVARIANTS BatchTypeOK SkipsAreExplained
