SPECIFICATION MCSpec
CONSTANTS
    asha = asha
    asha2 = asha2
    ravi = ravi
    Queues = {"wallet"}
    Owner <- MCOwner
    Publisher = "auth"
    Attempts = {1, 2}
    Events = {1, 2}
    Emails = {asha, asha2, ravi}
    HandleOf <- MCHandleOf
    None = None
    Faults = {"connection", "crash", "mongo", "mysql"}
    Pasts = {TRUE, FALSE}
INVARIANTS
    TypeOK
    NoEventLost
    AccountsAgree
PROPERTIES
    EventsAreHandled
