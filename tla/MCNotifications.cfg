SPECIFICATION MCSpec
CONSTANTS
    asha = asha
    ravi = ravi
    Users = {asha, ravi}
    Payments = {p1}
    SenderOf <- MCSenderOf
    ReceiverOf <- MCReceiverOf
    Rewarded = {p1}
    Queues = {"registered", "completed", "cashback"}
    Owner <- MCOwner
    Publisher = "producers"
    Events <- MCEvents
    None = None
    Faults = {"connection", "crash", "auth", "mail"}
INVARIANTS
    TypeOK
    EveryoneIsTold
    MailedOnce
PROPERTIES
    EventsAreSettled
