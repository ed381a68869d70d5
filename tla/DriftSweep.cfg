SPECIFICATION SweepSpec
CONSTANTS
    r1 = r1
    r2 = r2
    Resource = {r1, r2}
    Batch = 1
    Interval = 1
    MaxChanges = 1
INVARIANTS BatchHeld
PROPERTIES RefusedOncePerInterval EveryResourceChecked
CHECK_DEADLOCK FALSE
