SPECIFICATION Spec
CONSTANTS
    Totals = {2}
    Amounts = {1, 2}
    Reviews = {r1}
    Materials = {a1}
    MaxDocuments = 3
    MaxPayments = 1
    MaxReceipts = 4
    MaxInvoices = 2
    Milestones = {m1}
    Deliverables = {d1}
    Batches = {b1, b2}
    MaxVersions = 3
    MaxSubmissions = 2
SYMMETRY Symmetry
CONSTRAINT OneSideAfterTheOther
INVARIANTS
    MoneyUnderContract
    ReceiptLedgerBalanced
    RequestFreezesPayment
    FormalBindingsComplete
    DecisionsStand
    ArchivedIsClosed
