SPECIFICATION Spec
CONSTANTS
    Hours = {288, 36}
    Half = 7
    Notice = 18
    Sleep = 6
    Start = 296
    Period = 288
    PassBudget = 1
    MaxExpiries = 2
    MaxFaults = 2
INVARIANTS TypeOK RemindedOnce NoReminderSkipped
