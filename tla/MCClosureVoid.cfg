SPECIFICATION Spec
CONSTANTS
    Totals = {1, 2}
    Amounts = {2}
    Reviews = {r1, r2}
    Materials = {}
    MaxDocuments = 3
    MaxPayments = 1
    MaxReceipts = 1
    MaxInvoices = 0
    Milestones = {m1}
    Deliverables = {d1}
    Batches = {b1}
    MaxVersions = 0
    MaxSubmissions = 0
CONSTRAINT OneSideAfterTheOther
INVARIANT ReceivableNotNegative
