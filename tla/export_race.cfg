CONSTANTS
    Jobs = {e1}
    Mails = {}
    e1 = e1
    MaxRetry = 3
    MaxReturns = 1
    Crashes = FALSE
SPECIFICATION Spec
PROPERTY DoneStays
CHECK_DEADLOCK FALSE
