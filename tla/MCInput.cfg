CONSTANTS
    Scancodes = {30, 42}
    MaxBytes = 2
    QUEUE_CAP = 2
    MaxSpurious = 0
    ArmTicks = 1
    KeyTicks = 1
    SleepTicks = 1
SPECIFICATION InputSpec
PROPERTY ReadKeyReturns
CHECK_DEADLOCK FALSE
