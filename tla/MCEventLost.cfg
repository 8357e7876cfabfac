SPECIFICATION MCSpec
CONSTANTS
    asha = asha
    asha2 = asha2
    ravi = ravi
    Queues = {"wallet"}
    Owner <- MCOwner
    Publisher = "auth"
    Attempts = {1, 2}
    Events = {1, 2}
    Emails = {asha, asha2, ravi}
    HandleOf <- MCHandleOf
    None = None
    Faults = {}
    Pasts = {FALSE}
INVARIANTS
    FailedEventsKept
CHECK_DEADLOCK FALSE
