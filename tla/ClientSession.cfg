SPECIFICATION SessionSpec
CONSTANTS
    r1 = r1
    r2 = r2
    Slot = {r1, r2}
INVARIANTS DefiniteRefusal ConfirmedTookEffect
PROPERTIES RetriedIsStarted
