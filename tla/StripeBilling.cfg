CONSTANTS
    Paid = Paid
    Failed = Failed
    Other = Other
    InvoiceEvents = {Paid, Failed}
    h1 = h1
    h2 = h2
    Handlers = {h1, h2}
    MaxFaults = 2
CHECK_DEADLOCK FALSE
SPECIFICATION Spec
INVARIANTS
    AppliedOnce
    InvoiceCurrent
PROPERTIES
    EventSettles
