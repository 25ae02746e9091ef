------------------------------ MODULE Documents ------------------------------
(***************************************************************************)
(* The commercial side of a business workspace                             *)
(* (src-tauri/src/business_workspace_service.rs, and the invoices of       *)
(* business_closure_service.rs): quotes, contracts, payment requests and   *)
(* acceptances move through a review workflow, the payment plan hangs off  *)
(* the effective contract, and receipts and invoices are append-only       *)
(* ledgers over both.  Each command is one SQLite transaction, so one      *)
(* action; generateDocument is its committing transaction (Vault models    *)
(* what happens to its file before that).                                 *)
(*                                                                         *)
(* Abstracted: a profile to the total its line items add up to, a document *)
(* snapshot to the parts later commands read back, acceptance materials to *)
(* one batch with one requirement and one output spec, texts, evidence and *)
(* the completeness checks of a profile to nothing.                        *)
(***************************************************************************)
EXTENDS Workspace, Integers, Sequences, FiniteSetsExt, Functions

CONSTANTS
    Totals,         \* what the line items of a profile may add up to
    Amounts,        \* amounts of payments, receipts and invoices
    Reviews,        \* completed contract reviews of this workspace
    Materials,      \* assets that can back the acceptance requirement
    MaxDocuments,   \* MAX_DOCUMENTS_PER_WORKSPACE
    MaxPayments,    \* MAX_PAYMENTS_PER_WORKSPACE
    MaxReceipts,    \* MAX_RECEIPTS_PER_WORKSPACE
    MaxInvoices     \* bound on the invoice ledger (none in the code)

ASSUME AmountsAssumption == Totals \cup Amounts \subseteq Nat \ {0}
ASSUME LimitsAssumption ==
    {MaxDocuments, MaxPayments, MaxReceipts, MaxInvoices} \subseteq Nat

VARIABLES
    profileTotal,    \* what a quote or contract drafted now would amount to
    documents,       \* business_documents, in creation order
    confirmations,   \* positions of the quotes the customer confirmed
    payments,        \* business_payments, in creation order
    receipts,        \* business_receipts, append-only
    invoices,        \* business_invoices, append-only
    material         \* the acceptance batch's confirmed material

documentVars == <<profileTotal, documents, confirmations, payments, receipts,
                  invoices, material>>

Kinds == {"quote", "contract", "paymentRequest", "acceptance"}
DocumentStatuses == {"draft", "inReview", "approved", "generated", "effective",
                     "voided"}
PaymentStatuses == {"planned", "requested", "partiallyReceived", "received",
                    "canceled"}
NoBatch == "noBatch"       \* no acceptance batch / document not linked to it
Missing == "missing"       \* the batch's requirement has no confirmed material
NoReview == "noReview"

ASSUME NamesAssumption == {NoBatch, Missing} \cap Materials = {}

Bindings == Materials \cup {NoBatch, Missing}

DocumentRecord == [kind : Kinds, status : DocumentStatuses,
                   amount : Totals \cup Amounts \cup {0}, payment : 0..MaxPayments,
                   binding : Bindings, review : Reviews \cup {NoReview}]
PaymentRecord == [amount : Amounts, status : PaymentStatuses]
ReceiptRecord == [payment : 1..MaxPayments, amount : Amounts, reverses : Nat]
InvoiceRecord == [amount : Amounts, corrects : Nat]

DocumentsTypeOK ==
    /\ profileTotal \in Totals \cup {0}
    /\ documents \in Seq(DocumentRecord) /\ Len(documents) <= MaxDocuments
    /\ confirmations \subseteq DOMAIN documents
    /\ payments \in Seq(PaymentRecord) /\ Len(payments) <= MaxPayments
    /\ receipts \in Seq(ReceiptRecord) /\ Len(receipts) <= MaxReceipts
    /\ invoices \in Seq(InvoiceRecord) /\ Len(invoices) <= MaxInvoices
    /\ material \in Bindings

DocumentsInit ==
    /\ profileTotal = 0 /\ documents = <<>> /\ confirmations = {}
    /\ payments = <<>> /\ receipts = <<>> /\ invoices = <<>>
    /\ material = NoBatch

-----------------------------------------------------------------------------
(* What is current, and the sums the commands compare                      *)

WithStatus(kind, status) ==
    {d \in DOMAIN documents : /\ documents[d].kind = kind
                              /\ documents[d].status = status}

Quotes      == WithStatus("quote", "generated")
Contracts   == WithStatus("contract", "effective")
Acceptances == WithStatus("acceptance", "effective")

(* current_document: the newest of its kind in the current status.         *)
CurrentQuote    == Max(Quotes)
CurrentContract == Max(Contracts)

ContractAmount == IF Contracts = {} THEN 0 ELSE documents[CurrentContract].amount

Scheduled(except) ==
    SumFunctionOnSet([p \in DOMAIN payments |-> payments[p].amount],
                     {p \in DOMAIN payments \ except : payments[p].status # "canceled"})

ReversedOf(r) ==
    SumFunctionOnSet([v \in DOMAIN receipts |-> receipts[v].amount],
                     {v \in DOMAIN receipts : receipts[v].reverses = r})

(* Receipts less reversals, of the payments in ps.                         *)
Net(ps) ==
    SumFunctionOnSet([r \in DOMAIN receipts |-> IF receipts[r].reverses = 0
                                                THEN receipts[r].amount
                                                ELSE -receipts[r].amount],
                     {r \in DOMAIN receipts : receipts[r].payment \in ps})

Received == Net(DOMAIN payments)

CorrectedOf(i) ==
    SumFunctionOnSet([v \in DOMAIN invoices |-> invoices[v].amount],
                     {v \in DOMAIN invoices : invoices[v].corrects = i})

Invoiced == SumFunction([i \in DOMAIN invoices |-> IF invoices[i].corrects = 0
                                                   THEN invoices[i].amount
                                                   ELSE -invoices[i].amount])

(* A document that captured payment p and has not been voided.             *)
Captured(p) == \E d \in DOMAIN documents : /\ documents[d].kind = "paymentRequest"
                                           /\ documents[d].status # "voided"
                                           /\ documents[d].payment = p

Prerequisites(kind) ==
    CASE kind = "quote" -> TRUE
      [] kind = "contract" -> Quotes # {}
      [] kind \in {"paymentRequest", "acceptance"} -> Contracts # {}

CurrentQuoteConfirmed == Quotes # {} /\ CurrentQuote \in confirmations

Requestable(p) == payments[p].status \in {"planned", "requested", "partiallyReceived"}

-----------------------------------------------------------------------------
(* Documents                                                               *)

(* Mutant: an in-review acceptance is left as it was.                      *)
SynchronizedDraftsOnly(docs, m) ==
    [d \in DOMAIN docs |->
        IF docs[d].binding # NoBatch /\ docs[d].status = "draft"
        THEN [docs[d] EXCEPT !.binding = m] ELSE docs[d]]

(* The acceptances still being edited follow the batch's material.         *)
Synchronized(docs, m) ==
    [d \in DOMAIN docs |->
        IF docs[d].binding # NoBatch /\ docs[d].status \in {"draft", "inReview"}
        THEN [docs[d] EXCEPT !.binding = m] ELSE docs[d]]

Append1(kind, status, amount, p, binding, review) ==
    /\ Len(documents) < MaxDocuments
    /\ documents' = Append(documents,
           [kind |-> kind, status |-> status, amount |-> amount, payment |-> p,
            binding |-> binding, review |-> review])

BatchDocuments == {d \in DOMAIN documents : documents[d].binding # NoBatch}

(* The frozen amount: a quote or contract's total, a request's payment.    *)
FrozenAmount(kind, p) == CASE kind \in {"quote", "contract"} -> profileTotal
                           [] kind = "paymentRequest" -> payments[p].amount
                           [] kind = "acceptance" -> 0

(* A batch-linked acceptance must carry the number its output spec names,  *)
(* and document numbers are unique, voided documents included.             *)
CreateDocument(kind, p, binding) ==
    /\ Mutable
    /\ Prerequisites(kind)
    /\ IF kind = "paymentRequest" THEN p \in DOMAIN payments /\ Requestable(p)
                                  ELSE p = 0
    /\ binding # NoBatch => /\ kind = "acceptance" /\ binding = material
                            /\ BatchDocuments = {}
    /\ kind = "contract" => CurrentQuoteConfirmed
    /\ Append1(kind, "draft", FrozenAmount(kind, p), p, binding, NoReview)
    /\ Bump
    /\ UNCHANGED <<profileTotal, confirmations, payments, receipts, invoices, material>>

(* prepare_acceptance_documents: one document per output spec; one that    *)
(* exists is refreshed while editable and never made again.                *)
PrepareAcceptance ==
    /\ Mutable
    /\ Prerequisites("acceptance")
    /\ material # NoBatch
    /\ IF BatchDocuments = {}
       THEN Append1("acceptance", "draft", 0, 0, material, NoReview)
       ELSE documents' = Synchronized(documents, material)
    /\ Bump
    /\ UNCHANGED <<profileTotal, confirmations, payments, receipts, invoices, material>>

CoversPayments(amount) == Scheduled({}) <= amount

(* A reviewed customer contract takes effect without quote or workflow.    *)
PromoteReviewedContract(review) ==
    /\ Mutable
    /\ \A d \in DOMAIN documents : documents[d].review # review
    /\ profileTotal > 0
    /\ CoversPayments(profileTotal)
    /\ Append1("contract", "effective", profileTotal, 0, NoBatch, review)
    /\ Bump
    /\ UNCHANGED <<profileTotal, confirmations, payments, receipts, invoices, material>>

Transitions == {<<"draft", "inReview">>, <<"draft", "voided">>,
                <<"inReview", "draft">>, <<"inReview", "approved">>,
                <<"inReview", "voided">>, <<"approved", "inReview">>,
                <<"approved", "voided">>, <<"generated", "effective">>,
                <<"generated", "voided">>, <<"effective", "voided">>}

(* Mutant: the void of a contract looks at the documents only.             *)
ContractUnusedByDocuments ==
    \A d \in DOMAIN documents : documents[d].kind = "paymentRequest" =>
                                   documents[d].status = "voided"

(* What must be gone before an effective contract may be voided.           *)
ContractUnused ==
    /\ receipts = <<>>
    /\ \A i \in DOMAIN invoices : invoices[i].corrects # 0
    /\ \A d \in DOMAIN documents : documents[d].kind = "paymentRequest" =>
                                       documents[d].status = "voided"

(* What approving, generating and making effective all ask for.            *)
Formal(doc) ==
    /\ Prerequisites(doc.kind)
    /\ doc.binding # NoBatch => material \in Materials
    /\ doc.kind = "contract" => CurrentQuoteConfirmed
    /\ doc.kind \in {"quote", "contract"} => doc.amount > 0
    /\ doc.kind = "paymentRequest" => Requestable(doc.payment)

SetStatus(d, status) == documents' = [documents EXCEPT ![d].status = status]

ChangeDocumentStatus(d, status) ==
    LET doc == documents[d]
    IN  /\ Mutable
        /\ <<doc.status, status>> \in Transitions
        /\ status = "effective" => doc.kind \in {"contract", "acceptance"}
        /\ (status = "voided" /\ doc.kind = "contract" /\ doc.status = "effective")
              => ContractUnused
        /\ status \in {"approved", "effective"} => Formal(doc)
        /\ (status = "effective" /\ doc.kind = "contract") => CoversPayments(doc.amount)
        /\ SetStatus(d, status)
        /\ Bump
        /\ UNCHANGED <<profileTotal, confirmations, payments, receipts, invoices,
                       material>>

(* The committing transaction of generateDocument: a generated payment     *)
(* request moves its payment from planned to requested.                    *)
GenerateDocument(d) ==
    LET doc == documents[d]
    IN  /\ Mutable
        /\ doc.status = "approved"
        /\ Formal(doc)
        /\ SetStatus(d, "generated")
        /\ IF doc.kind = "paymentRequest" /\ payments[doc.payment].status = "planned"
           THEN payments' = [payments EXCEPT ![doc.payment].status = "requested"]
           ELSE UNCHANGED payments
        /\ Bump
        /\ UNCHANGED <<profileTotal, confirmations, receipts, invoices, material>>

ConfirmQuote(d) ==
    /\ Mutable
    /\ d \in Quotes
    /\ d \notin confirmations
    /\ confirmations' = confirmations \cup {d}
    /\ Bump
    /\ UNCHANGED <<profileTotal, documents, payments, receipts, invoices, material>>

UpdateProfile(total) ==
    /\ Mutable
    /\ profileTotal' = total
    /\ Bump
    /\ UNCHANGED <<documents, confirmations, payments, receipts, invoices, material>>

(* adopt_latest_confirmed_requirement: only before any formal document.    *)
AdoptRequirement(total) ==
    /\ Mutable
    /\ \A d \in DOMAIN documents : documents[d].status \in {"draft", "inReview"}
    /\ profileTotal' = total
    /\ Bump
    /\ UNCHANGED <<documents, confirmations, payments, receipts, invoices, material>>

CreateAcceptanceBatch ==
    /\ Mutable
    /\ material = NoBatch
    /\ material' = Missing
    /\ Bump
    /\ UNCHANGED <<profileTotal, documents, confirmations, payments, receipts, invoices>>

(* Binds, replaces or unconfirms the material; the documents that can      *)
(* still be edited follow.                                                 *)
UpsertAcceptanceMaterial(m) ==
    /\ Mutable
    /\ material # NoBatch
    /\ material' = m
    /\ documents' = Synchronized(documents, m)
    /\ Bump
    /\ UNCHANGED <<profileTotal, confirmations, payments, receipts, invoices>>

-----------------------------------------------------------------------------
(* Payments, receipts and invoices                                         *)

WithinContract(except, amount) ==
    Contracts # {} => Scheduled(except) + amount <= ContractAmount

PlanPayment(amount) ==
    /\ Mutable
    /\ WithinContract({}, amount)
    /\ Len(payments) < MaxPayments
    /\ payments' = Append(payments, [amount |-> amount, status |-> "planned"])
    /\ Bump
    /\ UNCHANGED <<profileTotal, documents, confirmations, receipts, invoices, material>>

(* Mutant: a plan may be edited while a request document quotes it.        *)
EditPaymentAnyTime(p, amount) ==
    /\ Mutable
    /\ payments[p].status = "planned"
    /\ WithinContract({p}, amount)
    /\ payments' = [payments EXCEPT ![p].amount = amount]
    /\ Bump
    /\ UNCHANGED <<profileTotal, documents, confirmations, receipts, invoices, material>>

EditPayment(p, amount) ==
    /\ Mutable
    /\ payments[p].status = "planned"
    /\ ~Captured(p)
    /\ WithinContract({p}, amount)
    /\ payments' = [payments EXCEPT ![p].amount = amount]
    /\ Bump
    /\ UNCHANGED <<profileTotal, documents, confirmations, receipts, invoices, material>>

CancelPayment(p) ==
    /\ Mutable
    /\ payments[p].status \in {"planned", "requested"}
    /\ ~Captured(p)
    /\ WithinContract({p}, 0)
    /\ payments' = [payments EXCEPT ![p].status = "canceled"]
    /\ Bump
    /\ UNCHANGED <<profileTotal, documents, confirmations, receipts, invoices, material>>

(* Mutant: a payment that once had a receipt never goes back to requested. *)
ProjectedStatusSticky(net, amount) ==
    IF net < amount THEN "partiallyReceived" ELSE "received"

ProjectedStatus(net, amount) == CASE net = 0      -> "requested"
                                  [] net = amount -> "received"
                                  [] OTHER        -> "partiallyReceived"

(* update_payment_from_receipt_ledger, with the appended ledger row.       *)
Book(p, net, row) ==
    /\ Len(receipts) < MaxReceipts
    /\ net \in 0..payments[p].amount
    /\ receipts' = Append(receipts, row)
    /\ payments' = [payments EXCEPT ![p].status = ProjectedStatus(net, payments[p].amount)]

RecordReceipt(p, amount) ==
    /\ Mutable
    /\ payments[p].status \in {"requested", "partiallyReceived"}
    /\ \E d \in WithStatus("paymentRequest", "generated") : documents[d].payment = p
    /\ Book(p, Net({p}) + amount, [payment |-> p, amount |-> amount, reverses |-> 0])
    /\ Bump
    /\ UNCHANGED <<profileTotal, documents, confirmations, invoices, material>>

Reversible(r, amount) == ReversedOf(r) + amount <= receipts[r].amount

ReverseReceipt(r, amount) ==
    LET p == receipts[r].payment
    IN  /\ Mutable
        /\ receipts[r].reverses = 0
        /\ Reversible(r, amount)
        /\ Book(p, Net({p}) - amount, [payment |-> p, amount |-> amount, reverses |-> r])
        /\ Bump
        /\ UNCHANGED <<profileTotal, documents, confirmations, invoices, material>>

IssueInvoice(amount) ==
    /\ Mutable
    /\ Len(invoices) < MaxInvoices
    /\ ContractAmount > 0
    /\ Invoiced + amount <= ContractAmount
    /\ invoices' = Append(invoices, [amount |-> amount, corrects |-> 0])
    /\ Bump
    /\ UNCHANGED <<profileTotal, documents, confirmations, payments, receipts, material>>

CorrectInvoice(i, amount) ==
    /\ Mutable
    /\ Len(invoices) < MaxInvoices
    /\ invoices[i].corrects = 0
    /\ amount <= invoices[i].amount - CorrectedOf(i)
    /\ invoices' = Append(invoices, [amount |-> amount, corrects |-> i])
    /\ Bump
    /\ UNCHANGED <<profileTotal, documents, confirmations, payments, receipts, material>>

-----------------------------------------------------------------------------
DocumentStep ==
    \/ \E kind \in Kinds, p \in 0..MaxPayments, binding \in Bindings :
          CreateDocument(kind, p, binding)
    \/ PrepareAcceptance
    \/ \E review \in Reviews : PromoteReviewedContract(review)
    \/ \E d \in DOMAIN documents, status \in DocumentStatuses :
          ChangeDocumentStatus(d, status)
    \/ \E d \in DOMAIN documents : GenerateDocument(d) \/ ConfirmQuote(d)
    \/ \E total \in Totals : UpdateProfile(total) \/ AdoptRequirement(total)
    \/ CreateAcceptanceBatch
    \/ \E m \in Materials \cup {Missing} : UpsertAcceptanceMaterial(m)

LedgerStep ==
    \/ \E amount \in Amounts : PlanPayment(amount) \/ IssueInvoice(amount)
    \/ \E p \in DOMAIN payments : CancelPayment(p)
    \/ \E p \in DOMAIN payments, amount \in Amounts :
          EditPayment(p, amount) \/ RecordReceipt(p, amount)
    \/ \E r \in DOMAIN receipts, amount \in Amounts : ReverseReceipt(r, amount)
    \/ \E i \in DOMAIN invoices, amount \in Amounts : CorrectInvoice(i, amount)

DocumentsNext == DocumentStep \/ LedgerStep

-----------------------------------------------------------------------------
(* Properties                                                              *)

(* Money only moves under an effective contract: while a receipt, an       *)
(* invoice or a live payment request exists there is one.                  *)
(* About the void guard of change_document_status, which has to find every *)
(* kind of use, against the six commands that bring one about.             *)
MoneyUnderContract ==
    (\/ receipts # <<>>
     \/ \E i \in DOMAIN invoices : invoices[i].corrects = 0
     \/ \E d \in DOMAIN documents : /\ documents[d].kind = "paymentRequest"
                                    /\ documents[d].status # "voided")
    => Contracts # {}

(* The receipt ledger and the payment plan tell the same story: a          *)
(* payment's status is the one its receipts less reversals amount to, and  *)
(* no receipt is reversed beyond itself.  About record_receipt and         *)
(* reverse_receipt, which update the row, against upsert_payment and       *)
(* finalize_generation, which set the same status on their own.            *)
ReceiptLedgerBalanced ==
    /\ \A p \in DOMAIN payments :
          LET net == Net({p})
          IN  CASE payments[p].status = "received" -> net = payments[p].amount
                [] payments[p].status = "partiallyReceived" ->
                      net \in 1..payments[p].amount - 1
                [] OTHER -> net = 0
    /\ \A r \in DOMAIN receipts :
          receipts[r].reverses = 0 => ReversedOf(r) <= receipts[r].amount

(* A payment request that has been drawn up and not voided asks for what   *)
(* its payment says, and the payment has not been canceled under it.       *)
(* About the request's frozen snapshot against every later edit of the     *)
(* plan (ensure_payment_receivable, upsert_payment).                       *)
RequestFreezesPayment ==
    \A d \in DOMAIN documents :
        (documents[d].kind = "paymentRequest" /\ documents[d].status # "voided")
        => /\ documents[d].payment \in DOMAIN payments
           /\ documents[d].amount = payments[documents[d].payment].amount
           /\ payments[documents[d].payment].status # "canceled"

(* An acceptance that got past review names a confirmed material, however  *)
(* the batch's material was replaced or withdrawn meanwhile.  About the    *)
(* readiness test, which reads the batch, and the snapshot that ends up in *)
(* the formal document, which only synchronize_acceptance_draft_snapshots  *)
(* keeps in step with it.                                                  *)
FormalBindingsComplete ==
    \A d \in BatchDocuments :
        documents[d].status \in {"approved", "generated", "effective"}
        => documents[d].binding \in Materials
==============================================================================
