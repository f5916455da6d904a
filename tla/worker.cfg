CONSTANTS
    Jobs = {e1}
    Mails = {m1}
    e1 = e1
    m1 = m1
    MaxRetry = 3
    MaxReturns = 1
    Crashes = TRUE
SPECIFICATION Spec
INVARIANTS
    DoneMeansStored
    PollersLearnTheOutcome
    MailsAreSentPerAttempt
PROPERTY EveryTaskEnds
CHECK_DEADLOCK FALSE
