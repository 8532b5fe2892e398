SPECIFICATION Spec
CONSTANTS
    beat = beat
    operator = operator
    Runs = {beat, operator}
    Ahead = 3
    Install = 11
    MaxMissed = 2
    Back = 2
    MaxMonth = 16
INVARIANT SensorSecuresNextMonth
