----------------------------- MODULE ClosureProofs -----------------------------
(***************************************************************************)
(* A whole business workspace, for any totals, amounts, ids and bounds:    *)
(* first its documents, payments and ledgers (every use of a contract has  *)
(* one, a payment request and its payment agree, formal acceptances are    *)
(* bound), then the customer's decisions on the delivery side, and what    *)
(* archiving promises.                                                     *)
(***************************************************************************)
EXTENDS Closure, FiniteSetTheorems, NaturalsInduction, WellFoundedInduction, TLAPS

(* An acceptance still being edited shows the batch's material, or kept a  *)
(* confirmed one when it came back from approval.                          *)
DraftBindingsFollow ==
    \A d \in DOMAIN documents :
        (documents[d].binding # NoBatch /\ documents[d].status \in {"draft", "inReview"})
        => documents[d].binding \in Materials \cup {material}

IInv == /\ DocumentsTypeOK /\ MoneyUnderContract /\ RequestFreezesPayment
        /\ DraftBindingsFollow /\ FormalBindingsComplete

-------------------------------------------------------------------------------
(* What commands do to the two sequences that change in place.             *)

LEMMA AppendTo ==
  ASSUME NEW S, NEW s \in Seq(S), NEW e \in S
  PROVE  /\ Append(s, e) \in Seq(S) /\ Len(Append(s, e)) = Len(s) + 1
         /\ DOMAIN s = 1..Len(s)
         /\ DOMAIN Append(s, e) = DOMAIN s \cup {Len(s) + 1}
         /\ Len(s) + 1 \notin DOMAIN s
         /\ Append(s, e)[Len(s) + 1] = e
         /\ \A i \in DOMAIN s : Append(s, e)[i] = s[i] /\ s[i] \in S
OBVIOUS

LEMMA Replace ==
  ASSUME NEW S, NEW s \in Seq(S), NEW t, DOMAIN t = DOMAIN s,
         t = [i \in DOMAIN s |-> t[i]], \A i \in DOMAIN s : t[i] \in S
  PROVE  t \in Seq(S) /\ Len(t) = Len(s)
OBVIOUS

Adds(new) ==
    /\ documents' \in Seq(DocumentRecord) /\ Len(documents') <= MaxDocuments
    /\ DOMAIN documents \subseteq DOMAIN documents'
    /\ \A d \in DOMAIN documents' :
          IF d \in DOMAIN documents THEN documents'[d] = documents[d]
          ELSE documents'[d] = new

LEMMA Added ==
  ASSUME DocumentsTypeOK, LimitsAssumption, NEW new \in DocumentRecord,
         documents' = Append(documents, new), Len(documents) < MaxDocuments
  PROVE  Adds(new)
<1>1. documents \in Seq(DocumentRecord) /\ MaxDocuments \in Nat
  BY LimitsAssumption DEF DocumentsTypeOK
<1>2. Len(documents) \in Nat
  BY <1>1
<1>3. QED
  BY <1>1, <1>2, AppendTo DEF Adds

Sets(d, status) ==
    /\ documents' \in Seq(DocumentRecord) /\ Len(documents') <= MaxDocuments
    /\ DOMAIN documents' = DOMAIN documents
    /\ \A e \in DOMAIN documents :
          IF e = d THEN documents'[e] = [documents[e] EXCEPT !.status = status]
          ELSE documents'[e] = documents[e]

LEMMA StatusSet ==
  ASSUME DocumentsTypeOK, LimitsAssumption, NEW d \in DOMAIN documents,
         NEW status \in DocumentStatuses, SetStatus(d, status)
  PROVE  Sets(d, status)
<1>1. documents \in Seq(DocumentRecord)
  BY DEF DocumentsTypeOK
<1>2. \A e \in DOMAIN documents : documents[e] \in DocumentRecord
  BY <1>1
<1>3. [documents[d] EXCEPT !.status = status] \in DocumentRecord
  BY <1>2 DEF DocumentRecord
<1>4. /\ DOMAIN documents' = DOMAIN documents
      /\ documents' = [e \in DOMAIN documents |-> documents'[e]]
      /\ \A e \in DOMAIN documents :
            IF e = d THEN documents'[e] = [documents[e] EXCEPT !.status = status]
            ELSE documents'[e] = documents[e]
  BY <1>1 DEF SetStatus
<1>5. documents' \in Seq(DocumentRecord) /\ Len(documents') = Len(documents)
  <2>1. \A e \in DOMAIN documents : documents'[e] \in DocumentRecord
    BY <1>2, <1>3, <1>4
  <2>2. QED
    BY <1>1, <1>4, <2>1, Replace
<1>6. QED
  BY <1>4, <1>5 DEF Sets, DocumentsTypeOK

Rebinds(m) ==
    /\ documents' \in Seq(DocumentRecord) /\ Len(documents') <= MaxDocuments
    /\ DOMAIN documents' = DOMAIN documents
    /\ \A e \in DOMAIN documents :
          IF documents[e].binding # NoBatch /\ documents[e].status \in {"draft", "inReview"}
          THEN documents'[e] = [documents[e] EXCEPT !.binding = m]
          ELSE documents'[e] = documents[e]

LEMMA Rebound ==
  ASSUME DocumentsTypeOK, NEW m \in Bindings, documents' = Synchronized(documents, m)
  PROVE  Rebinds(m)
<1>1. documents \in Seq(DocumentRecord)
  BY DEF DocumentsTypeOK
<1>2. \A e \in DOMAIN documents : /\ documents[e] \in DocumentRecord
                                  /\ [documents[e] EXCEPT !.binding = m] \in DocumentRecord
  <2>1. \A e \in DOMAIN documents : documents[e] \in DocumentRecord
    BY <1>1
  <2>2. QED
    BY <2>1 DEF DocumentRecord
<1>3. /\ DOMAIN documents' = DOMAIN documents
      /\ documents' = [e \in DOMAIN documents |-> documents'[e]]
      /\ \A e \in DOMAIN documents :
          IF documents[e].binding # NoBatch /\ documents[e].status \in {"draft", "inReview"}
          THEN documents'[e] = [documents[e] EXCEPT !.binding = m]
          ELSE documents'[e] = documents[e]
  BY DEF Synchronized
<1>4. documents' \in Seq(DocumentRecord) /\ Len(documents') = Len(documents)
  BY <1>1, <1>2, <1>3, Replace
<1>5. QED
  BY <1>3, <1>4 DEF Rebinds, DocumentsTypeOK

Alters(p, new) ==
    /\ payments' \in Seq(PaymentRecord) /\ Len(payments') <= MaxPayments
    /\ DOMAIN payments' = DOMAIN payments
    /\ \A q \in DOMAIN payments :
          IF q = p THEN payments'[q] = new ELSE payments'[q] = payments[q]

LEMMA Altered ==
  ASSUME DocumentsTypeOK, NEW p \in DOMAIN payments, NEW new \in PaymentRecord,
         payments' = [payments EXCEPT ![p] = new]
  PROVE  Alters(p, new)
<1>1. payments \in Seq(PaymentRecord)
  BY DEF DocumentsTypeOK
<1>2. /\ DOMAIN payments' = DOMAIN payments
      /\ payments' = [q \in DOMAIN payments |-> payments'[q]]
      /\ \A q \in DOMAIN payments :
            IF q = p THEN payments'[q] = new ELSE payments'[q] = payments[q]
  BY <1>1
<1>3. \A q \in DOMAIN payments : payments'[q] \in PaymentRecord
  BY <1>1, <1>2
<1>4. payments' \in Seq(PaymentRecord) /\ Len(payments') = Len(payments)
  BY <1>1, <1>2, <1>3, Replace
<1>5. QED
  BY <1>2, <1>4 DEF Alters, DocumentsTypeOK

LEMMA Elements ==
  ASSUME DocumentsTypeOK
  PROVE  /\ \A d \in DOMAIN documents : documents[d] \in DocumentRecord
         /\ \A p \in DOMAIN payments : payments[p] \in PaymentRecord
         /\ DOMAIN payments = 1..Len(payments) /\ DOMAIN payments \subseteq 1..MaxPayments
         /\ DOMAIN documents = 1..Len(documents)
<1>1. /\ documents \in Seq(DocumentRecord)
      /\ payments \in Seq(PaymentRecord) /\ Len(payments) <= MaxPayments
  BY DEF DocumentsTypeOK
<1>2. QED
  BY <1>1, LimitsAssumption

-------------------------------------------------------------------------------
(* Documents.                                                              *)

LEMMA CreateDocumentInv ==
  ASSUME IInv, NEW kind \in Kinds, NEW p \in 0..MaxPayments, NEW binding \in Bindings,
         CreateDocument(kind, p, binding)
  PROVE  IInv'
<1> DEFINE new == [kind |-> kind, status |-> "draft", amount |-> FrozenAmount(kind, p),
                   payment |-> p, binding |-> binding, review |-> NoReview]
<1>1. UNCHANGED <<profileTotal, confirmations, payments, receipts, invoices, material>>
  BY DEF CreateDocument
<1>2. FrozenAmount(kind, p) \in Totals \cup Amounts \cup {0}
  <2>1. CASE kind = "paymentRequest"
    <3>1. p \in DOMAIN payments
      BY <2>1 DEF CreateDocument
    <3>2. payments[p].amount \in Amounts
      BY <3>1, Elements DEF IInv, PaymentRecord
    <3>3. QED
      BY <2>1, <3>2 DEF FrozenAmount
  <2>2. CASE kind # "paymentRequest"
    BY <2>2 DEF FrozenAmount, Kinds, IInv, DocumentsTypeOK
  <2>3. QED
    BY <2>1, <2>2
<1>3. new \in DocumentRecord
  BY <1>2 DEF DocumentRecord, DocumentStatuses
<1>4. Adds(new)
  <2>1. documents' = Append(documents, new) /\ Len(documents) < MaxDocuments
    BY DEF CreateDocument, Append1
  <2>2. QED
    BY <1>3, <2>1, Added, LimitsAssumption DEF IInv
<1>5. /\ kind = "paymentRequest" => /\ Contracts # {} /\ p \in DOMAIN payments
                                    /\ FrozenAmount(kind, p) = payments[p].amount
                                    /\ payments[p].status # "canceled"
      /\ binding = NoBatch \/ binding = material
  BY DEF CreateDocument, Prerequisites, Requestable, FrozenAmount
<1>6. DocumentsTypeOK'
  BY <1>1, <1>4 DEF IInv, DocumentsTypeOK, Adds
<1>7. MoneyUnderContract'
  BY <1>1, <1>4, <1>5 DEF IInv, MoneyUnderContract, Contracts, WithStatus, Adds
<1>8. RequestFreezesPayment'
  BY <1>1, <1>4, <1>5 DEF IInv, RequestFreezesPayment, Adds
<1>9. DraftBindingsFollow' /\ FormalBindingsComplete'
  BY <1>1, <1>4, <1>5 DEF IInv, DraftBindingsFollow, FormalBindingsComplete,
       BatchDocuments, Adds
<1>10. QED
  BY <1>6, <1>7, <1>8, <1>9 DEF IInv

LEMMA UpsertAcceptanceMaterialInv ==
  ASSUME IInv, NEW m \in Materials \cup {Missing}, UpsertAcceptanceMaterial(m)
  PROVE  IInv'
<1>1. /\ material' = m
      /\ UNCHANGED <<profileTotal, confirmations, payments, receipts, invoices>>
  BY DEF UpsertAcceptanceMaterial
<1>2. Rebinds(m)
  BY Rebound DEF UpsertAcceptanceMaterial, IInv, Bindings
<1>3. \A d \in DOMAIN documents :
         /\ documents[d] \in DocumentRecord /\ documents'[d].kind = documents[d].kind
         /\ documents'[d].status = documents[d].status
         /\ documents'[d].amount = documents[d].amount
         /\ documents'[d].payment = documents[d].payment
         /\ documents'[d].binding \in {documents[d].binding, m}
         /\ documents[d].binding = NoBatch => documents'[d].binding = NoBatch
         /\ (documents[d].binding # NoBatch /\ documents[d].status \in {"draft", "inReview"})
            => documents'[d].binding = m
         /\ documents[d].status \notin {"draft", "inReview"}
            => documents'[d].binding = documents[d].binding
  BY <1>2, Elements DEF Rebinds, IInv, DocumentRecord
<1>4. DocumentsTypeOK'
  BY <1>1, <1>2 DEF IInv, DocumentsTypeOK, Rebinds, Bindings
<1>5. MoneyUnderContract'
  BY <1>1, <1>2, <1>3 DEF IInv, MoneyUnderContract, Contracts, WithStatus, Rebinds
<1>6. RequestFreezesPayment'
  BY <1>1, <1>2, <1>3 DEF IInv, RequestFreezesPayment, Rebinds
<1>7. DraftBindingsFollow' /\ FormalBindingsComplete'
  BY <1>1, <1>2, <1>3 DEF IInv, DraftBindingsFollow, FormalBindingsComplete,
       BatchDocuments, Rebinds
<1>8. QED
  BY <1>4, <1>5, <1>6, <1>7 DEF IInv

(* A new document for the output spec, or the material as it stands.       *)
LEMMA PrepareAcceptanceInv ==
  ASSUME IInv, PrepareAcceptance
  PROVE  IInv'
<1>1. UNCHANGED <<profileTotal, confirmations, payments, receipts, invoices, material>>
  BY DEF PrepareAcceptance
<1>2. material \in Bindings /\ documents \in Seq(DocumentRecord)
  BY DEF IInv, DocumentsTypeOK
<1>3. CASE BatchDocuments = {}
  <2> DEFINE new == [kind |-> "acceptance", status |-> "draft", amount |-> 0,
                     payment |-> 0, binding |-> material, review |-> NoReview]
  <2>1. new \in DocumentRecord
    BY <1>2, LimitsAssumption DEF DocumentRecord, DocumentStatuses, Kinds
  <2>2. Adds(new)
    BY <1>3, <2>1, Added, LimitsAssumption DEF PrepareAcceptance, Append1, IInv
  <2>3. DocumentsTypeOK' /\ RequestFreezesPayment'
    BY <1>1, <2>2 DEF IInv, DocumentsTypeOK, RequestFreezesPayment, Adds
  <2>4. MoneyUnderContract'
    BY <1>1, <2>2 DEF IInv, MoneyUnderContract, Contracts, WithStatus, Adds
  <2>5. DraftBindingsFollow' /\ FormalBindingsComplete'
    BY <1>1, <2>2 DEF IInv, DraftBindingsFollow, FormalBindingsComplete, BatchDocuments, Adds
  <2>6. QED
    BY <2>3, <2>4, <2>5 DEF IInv
<1>4. CASE BatchDocuments # {}
  <2>1. Rebinds(material)
    BY <1>2, <1>4, Rebound DEF PrepareAcceptance, IInv
  <2>2. \A d \in DOMAIN documents :
         /\ documents'[d].kind = documents[d].kind
         /\ documents'[d].status = documents[d].status
         /\ documents'[d].amount = documents[d].amount
         /\ documents'[d].payment = documents[d].payment
         /\ documents[d].binding = NoBatch => documents'[d].binding = NoBatch
         /\ (documents[d].binding # NoBatch /\ documents[d].status \in {"draft", "inReview"})
            => documents'[d].binding = material
         /\ documents[d].status \notin {"draft", "inReview"}
            => documents'[d].binding = documents[d].binding
    BY <2>1, Elements DEF Rebinds, IInv, DocumentRecord
  <2>3. DocumentsTypeOK' /\ RequestFreezesPayment'
    BY <1>1, <2>1, <2>2 DEF IInv, DocumentsTypeOK, RequestFreezesPayment, Rebinds
  <2>4. MoneyUnderContract'
    BY <1>1, <2>1, <2>2 DEF IInv, MoneyUnderContract, Contracts, WithStatus, Rebinds
  <2>5. DraftBindingsFollow' /\ FormalBindingsComplete'
    BY <1>1, <2>1, <2>2 DEF IInv, DraftBindingsFollow, FormalBindingsComplete,
         BatchDocuments, Rebinds
  <2>6. QED
    BY <2>3, <2>4, <2>5 DEF IInv
<1>5. QED
  BY <1>3, <1>4

LEMMA PromoteReviewedContractInv ==
  ASSUME IInv, NEW review \in Reviews, PromoteReviewedContract(review)
  PROVE  IInv'
<1> DEFINE new == [kind |-> "contract", status |-> "effective", amount |-> profileTotal,
                   payment |-> 0, binding |-> NoBatch, review |-> review]
<1>1. UNCHANGED <<profileTotal, confirmations, payments, receipts, invoices, material>>
  BY DEF PromoteReviewedContract
<1>2. new \in DocumentRecord
  BY LimitsAssumption DEF DocumentRecord, DocumentStatuses, Kinds, Bindings, IInv,
       DocumentsTypeOK
<1>3. Adds(new)
  BY <1>2, Added, LimitsAssumption DEF PromoteReviewedContract, Append1, IInv
<1>4. DocumentsTypeOK' /\ RequestFreezesPayment'
  BY <1>1, <1>3 DEF IInv, DocumentsTypeOK, RequestFreezesPayment, Adds
<1>5. MoneyUnderContract'
  BY <1>1, <1>3 DEF IInv, MoneyUnderContract, Contracts, WithStatus, Adds
<1>6. DraftBindingsFollow' /\ FormalBindingsComplete'
  BY <1>1, <1>3 DEF IInv, DraftBindingsFollow, FormalBindingsComplete, BatchDocuments, Adds
<1>7. QED
  BY <1>4, <1>5, <1>6 DEF IInv

(* The effect of a change of status: what it may and may not do to the     *)
(* parts the properties look at.                                           *)
LEMMA StatusChange ==
  ASSUME IInv, NEW d \in DOMAIN documents, NEW status \in DocumentStatuses,
         Sets(d, status)
  PROVE  \A e \in DOMAIN documents :
            /\ documents'[e].kind = documents[e].kind
            /\ documents'[e].amount = documents[e].amount
            /\ documents'[e].payment = documents[e].payment
            /\ documents'[e].binding = documents[e].binding
            /\ documents'[e].status = IF e = d THEN status ELSE documents[e].status
BY Elements DEF Sets, IInv, DocumentRecord

LEMMA ChangeDocumentStatusInv ==
  ASSUME IInv, NEW d \in DOMAIN documents, NEW status \in DocumentStatuses,
         ChangeDocumentStatus(d, status)
  PROVE  IInv'
<1>1. UNCHANGED <<profileTotal, confirmations, payments, receipts, invoices, material>>
  BY DEF ChangeDocumentStatus
<1>2. Sets(d, status)
  BY StatusSet, LimitsAssumption DEF ChangeDocumentStatus, IInv
<1>3. /\ <<documents[d].status, status>> \in Transitions
      /\ status \in {"approved", "effective"} => Formal(documents[d])
  BY DEF ChangeDocumentStatus
<1>4. DocumentsTypeOK'
  BY <1>1, <1>2 DEF IInv, DocumentsTypeOK, Sets
<1>5. MoneyUnderContract'
  <2>1. CASE d \in Contracts /\ status = "voided"
    <3>1. ContractUnused
      BY <2>1 DEF ChangeDocumentStatus, Contracts, WithStatus
    <3>2. QED
      BY <1>1, <1>2, <2>1, <3>1, StatusChange DEF ContractUnused, MoneyUnderContract,
           Contracts, WithStatus, Sets
  <2>2. CASE ~(d \in Contracts /\ status = "voided")
    <3>1. Contracts \subseteq Contracts'
      BY <1>2, <1>3, <2>2, StatusChange DEF Contracts, WithStatus, Transitions, Sets
    <3>2. documents[d].status # "voided"
      BY <1>3 DEF Transitions
    <3>3. QED
      BY <1>1, <1>2, <3>1, <3>2, StatusChange DEF IInv, MoneyUnderContract, Sets
  <2>3. QED
    BY <2>1, <2>2
<1>6. RequestFreezesPayment'
  <2>1. documents[d].status # "voided"
    BY <1>3 DEF Transitions
  <2>2. QED
    BY <1>1, <1>2, <2>1, StatusChange DEF IInv, RequestFreezesPayment, Sets
<1>7. DraftBindingsFollow' /\ FormalBindingsComplete'
  <2>1. status \in {"approved", "effective"} /\ documents[d].binding # NoBatch
           => material \in Materials
    BY <1>3 DEF Formal
  <2>2. /\ status \in {"draft", "inReview"} =>
              documents[d].status \in {"draft", "inReview", "approved"}
        /\ status = "approved" => documents[d].status = "inReview"
        /\ status = "effective" => documents[d].status = "generated"
        /\ status # "generated"
    BY <1>3 DEF Transitions
  <2>3. QED
    BY <1>1, <1>2, <2>1, <2>2, StatusChange DEF IInv, DraftBindingsFollow,
         FormalBindingsComplete, BatchDocuments, Sets
<1>8. QED
  BY <1>4, <1>5, <1>6, <1>7 DEF IInv

LEMMA GenerateDocumentInv ==
  ASSUME IInv, NEW d \in DOMAIN documents, GenerateDocument(d)
  PROVE  IInv'
<1>1. UNCHANGED <<profileTotal, confirmations, receipts, invoices, material>>
  BY DEF GenerateDocument
<1>2. Sets(d, "generated")
  BY StatusSet, LimitsAssumption DEF GenerateDocument, IInv, DocumentStatuses
<1>3. documents[d].status = "approved"
  BY DEF GenerateDocument
<1>4. /\ payments' \in Seq(PaymentRecord) /\ Len(payments') <= MaxPayments
      /\ DOMAIN payments' = DOMAIN payments
      /\ \A p \in DOMAIN payments :
            /\ payments'[p].amount = payments[p].amount
            /\ payments'[p].status \in {payments[p].status, "requested"}
  <2>1. CASE documents[d].kind = "paymentRequest"
             /\ payments[documents[d].payment].status = "planned"
    <3> DEFINE p == documents[d].payment
               new == [payments[p] EXCEPT !.status = "requested"]
    <3>1. p \in DOMAIN payments
      BY <1>3, <2>1 DEF IInv, RequestFreezesPayment
    <3>2. payments[p] \in PaymentRecord /\ new \in PaymentRecord
      BY <3>1, Elements DEF IInv, PaymentRecord, PaymentStatuses
    <3>3. payments' = [payments EXCEPT ![p] = new]
      BY <2>1, <3>1 DEF GenerateDocument
    <3>4. Alters(p, new)
      BY <3>1, <3>2, <3>3, Altered DEF IInv
    <3>5. QED
      BY <3>2, <3>4 DEF Alters, PaymentRecord
  <2>2. CASE ~(documents[d].kind = "paymentRequest"
               /\ payments[documents[d].payment].status = "planned")
    BY <2>2 DEF GenerateDocument, IInv, DocumentsTypeOK
  <2>3. QED
    BY <2>1, <2>2
<1>5. DocumentsTypeOK'
  BY <1>1, <1>2, <1>4 DEF IInv, DocumentsTypeOK, Sets
<1>6. MoneyUnderContract'
  BY <1>1, <1>2, <1>3, StatusChange DEF IInv, MoneyUnderContract, Contracts, WithStatus,
       Sets, DocumentStatuses
<1>7. RequestFreezesPayment'
  <2>1. documents[d].status # "voided"
    BY <1>3
  <2>2. ASSUME NEW e \in DOMAIN documents, documents'[e].kind = "paymentRequest",
               documents'[e].status # "voided"
        PROVE  /\ documents'[e].payment \in DOMAIN payments'
               /\ documents'[e].amount = payments'[documents'[e].payment].amount
               /\ payments'[documents'[e].payment].status # "canceled"
    <3>1. /\ documents[e].kind = "paymentRequest" /\ documents[e].status # "voided"
          /\ documents'[e].payment = documents[e].payment
          /\ documents'[e].amount = documents[e].amount
      BY <1>2, <2>1, <2>2, StatusChange DEF DocumentStatuses
    <3>2. /\ documents[e].payment \in DOMAIN payments
          /\ documents[e].amount = payments[documents[e].payment].amount
          /\ payments[documents[e].payment].status # "canceled"
      BY <3>1 DEF IInv, RequestFreezesPayment
    <3>3. QED
      BY <1>4, <3>1, <3>2
  <2>3. QED
    BY <1>2, <2>2 DEF RequestFreezesPayment, Sets
<1>8. DraftBindingsFollow' /\ FormalBindingsComplete'
  BY <1>1, <1>2, <1>3, StatusChange DEF IInv, DraftBindingsFollow, FormalBindingsComplete,
       BatchDocuments, Sets, DocumentStatuses
<1>9. QED
  BY <1>5, <1>6, <1>7, <1>8 DEF IInv

(* Commands that leave the documents and the ledgers alone.                *)
LEMMA AsideInv ==
  ASSUME IInv, UNCHANGED <<documents, payments, receipts, invoices>>,
         profileTotal' \in Totals \cup {0}, confirmations' \subseteq DOMAIN documents,
         material' = material \/ (material = NoBatch /\ material' = Missing)
  PROVE  IInv'
<1>1. DocumentsTypeOK' /\ MoneyUnderContract' /\ RequestFreezesPayment'
  BY DEF IInv, DocumentsTypeOK, Bindings, MoneyUnderContract, Contracts, WithStatus,
       RequestFreezesPayment
<1>2. DraftBindingsFollow' /\ FormalBindingsComplete'
  BY NamesAssumption DEF IInv, DraftBindingsFollow, FormalBindingsComplete, BatchDocuments
<1>3. QED
  BY <1>1, <1>2 DEF IInv

LEMMA ConfirmQuoteInv ==
  ASSUME IInv, NEW d \in DOMAIN documents, ConfirmQuote(d)
  PROVE  IInv'
BY AsideInv DEF ConfirmQuote, IInv, DocumentsTypeOK

LEMMA ProfileInv ==
  ASSUME IInv, NEW total \in Totals, UpdateProfile(total) \/ AdoptRequirement(total)
  PROVE  IInv'
BY AsideInv DEF UpdateProfile, AdoptRequirement, IInv, DocumentsTypeOK

LEMMA CreateAcceptanceBatchInv ==
  ASSUME IInv, CreateAcceptanceBatch
  PROVE  IInv'
BY AsideInv DEF CreateAcceptanceBatch, IInv, DocumentsTypeOK

-------------------------------------------------------------------------------
(* Payments, receipts and invoices.                                        *)

LEMMA PlanPaymentInv ==
  ASSUME IInv, NEW amount \in Amounts, PlanPayment(amount)
  PROVE  IInv'
<1> DEFINE new == [amount |-> amount, status |-> "planned"]
<1>1. /\ UNCHANGED <<profileTotal, documents, confirmations, receipts, invoices, material>>
      /\ payments' = Append(payments, new) /\ Len(payments) < MaxPayments
  BY DEF PlanPayment
<1>2. new \in PaymentRecord /\ payments \in Seq(PaymentRecord) /\ MaxPayments \in Nat
  BY LimitsAssumption DEF PaymentRecord, PaymentStatuses, IInv, DocumentsTypeOK
<1>3. /\ payments' \in Seq(PaymentRecord) /\ Len(payments') <= MaxPayments
      /\ DOMAIN payments \subseteq DOMAIN payments'
      /\ \A p \in DOMAIN payments : payments'[p] = payments[p]
  BY <1>1, <1>2, AppendTo
<1>4. DocumentsTypeOK' /\ MoneyUnderContract' /\ RequestFreezesPayment'
  BY <1>1, <1>3 DEF IInv, DocumentsTypeOK, MoneyUnderContract, Contracts, WithStatus,
       RequestFreezesPayment
<1>5. DraftBindingsFollow' /\ FormalBindingsComplete'
  BY <1>1 DEF IInv, DraftBindingsFollow, FormalBindingsComplete, BatchDocuments
<1>6. QED
  BY <1>4, <1>5 DEF IInv

(* A payment altered in place: no live request may quote a changed amount  *)
(* or a canceled payment.                                                  *)
LEMMA AlterInv ==
  ASSUME IInv, NEW p \in DOMAIN payments, NEW new \in PaymentRecord, Alters(p, new),
         Captured(p) => new.amount = payments[p].amount /\ new.status # "canceled",
         UNCHANGED <<profileTotal, documents, confirmations, invoices, material>>,
         receipts' \in Seq(ReceiptRecord), Len(receipts') <= MaxReceipts,
         receipts' = receipts \/ Contracts # {}
  PROVE  IInv'
<1>1. DocumentsTypeOK'
  BY DEF IInv, DocumentsTypeOK, Alters
<1>2. MoneyUnderContract'
  BY DEF IInv, MoneyUnderContract, Contracts, WithStatus
<1>3. RequestFreezesPayment'
  BY DEF IInv, RequestFreezesPayment, Alters, Captured
<1>4. DraftBindingsFollow' /\ FormalBindingsComplete'
  BY DEF IInv, DraftBindingsFollow, FormalBindingsComplete, BatchDocuments
<1>5. QED
  BY <1>1, <1>2, <1>3, <1>4 DEF IInv

LEMMA EditPaymentInv ==
  ASSUME IInv, NEW p \in DOMAIN payments, NEW amount \in Amounts, EditPayment(p, amount)
  PROVE  IInv'
<1> DEFINE new == [payments[p] EXCEPT !.amount = amount]
<1>1. new \in PaymentRecord
  BY Elements DEF IInv, PaymentRecord
<1>2. payments' = [payments EXCEPT ![p] = new]
  BY DEF EditPayment
<1>3. Alters(p, new)
  BY <1>1, <1>2, Altered DEF IInv
<1>4. QED
  BY <1>1, <1>3, AlterInv DEF EditPayment, IInv, DocumentsTypeOK

LEMMA CancelPaymentInv ==
  ASSUME IInv, NEW p \in DOMAIN payments, CancelPayment(p)
  PROVE  IInv'
<1> DEFINE new == [payments[p] EXCEPT !.status = "canceled"]
<1>1. new \in PaymentRecord
  BY Elements DEF IInv, PaymentRecord, PaymentStatuses
<1>2. payments' = [payments EXCEPT ![p] = new]
  BY DEF CancelPayment
<1>3. Alters(p, new)
  BY <1>1, <1>2, Altered DEF IInv
<1>4. QED
  BY <1>1, <1>3, AlterInv DEF CancelPayment, IInv, DocumentsTypeOK

(* A ledger row and the payment's status that follows from it.             *)
LEMMA BookInv ==
  ASSUME IInv, NEW p \in DOMAIN payments, NEW net, NEW entry \in ReceiptRecord,
         Book(p, net, entry), Contracts # {},
         UNCHANGED <<profileTotal, documents, confirmations, invoices, material>>
  PROVE  IInv'
<1> DEFINE status == ProjectedStatus(net, payments[p].amount)
           new == [payments[p] EXCEPT !.status = status]
<1>1. status \in {"requested", "received", "partiallyReceived"}
  BY DEF ProjectedStatus
<1>2. payments[p] \in PaymentRecord /\ new \in PaymentRecord
  BY <1>1, Elements DEF IInv, PaymentRecord, PaymentStatuses
<1>3. payments' = [payments EXCEPT ![p] = new]
  BY DEF Book
<1>4. Alters(p, new)
  BY <1>2, <1>3, Altered DEF IInv
<1>5. receipts' \in Seq(ReceiptRecord) /\ Len(receipts') <= MaxReceipts
  <2>1. /\ receipts \in Seq(ReceiptRecord) /\ MaxReceipts \in Nat
        /\ receipts' = Append(receipts, entry) /\ Len(receipts) < MaxReceipts
    BY LimitsAssumption DEF Book, IInv, DocumentsTypeOK
  <2>2. QED
    BY <2>1, AppendTo
<1>6. new.amount = payments[p].amount /\ new.status # "canceled"
  BY <1>1, <1>2 DEF PaymentRecord
<1>7. QED
  BY <1>2, <1>4, <1>5, <1>6, AlterInv

LEMMA RecordReceiptInv ==
  ASSUME IInv, NEW p \in DOMAIN payments, NEW amount \in Amounts, RecordReceipt(p, amount)
  PROVE  IInv'
<1>1. [payment |-> p, amount |-> amount, reverses |-> 0] \in ReceiptRecord
  BY Elements DEF IInv, ReceiptRecord
<1>2. Contracts # {}
  BY DEF RecordReceipt, WithStatus, IInv, MoneyUnderContract
<1>3. QED
  BY <1>1, <1>2, BookInv DEF RecordReceipt

LEMMA ReverseReceiptInv ==
  ASSUME IInv, NEW r \in DOMAIN receipts, NEW amount \in Amounts, ReverseReceipt(r, amount),
         receipts[r].payment \in DOMAIN payments
  PROVE  IInv'
<1>1. receipts \in Seq(ReceiptRecord) /\ r \in Nat /\ receipts[r] \in ReceiptRecord
  BY DEF IInv, DocumentsTypeOK
<1>2. [payment |-> receipts[r].payment, amount |-> amount, reverses |-> r] \in ReceiptRecord
  BY <1>1 DEF ReceiptRecord
<1>3. Contracts # {}
  BY <1>1 DEF IInv, MoneyUnderContract
<1>4. QED
  BY <1>2, <1>3, BookInv DEF ReverseReceipt

LEMMA IssueInvoiceInv ==
  ASSUME IInv, NEW amount \in Amounts, IssueInvoice(amount)
  PROVE  IInv'
<1>1. Contracts # {}
  BY DEF IssueInvoice, ContractAmount
<1>2. invoices' \in Seq(InvoiceRecord) /\ Len(invoices') <= MaxInvoices
  <2>1. /\ invoices \in Seq(InvoiceRecord) /\ MaxInvoices \in Nat
        /\ [amount |-> amount, corrects |-> 0] \in InvoiceRecord
        /\ invoices' = Append(invoices, [amount |-> amount, corrects |-> 0])
        /\ Len(invoices) < MaxInvoices
    BY LimitsAssumption DEF IssueInvoice, IInv, DocumentsTypeOK, InvoiceRecord
  <2>2. QED
    BY <2>1, AppendTo
<1>3. DocumentsTypeOK' /\ RequestFreezesPayment'
  BY <1>2 DEF IssueInvoice, IInv, DocumentsTypeOK, RequestFreezesPayment
<1>4. MoneyUnderContract'
  BY <1>1 DEF IssueInvoice, MoneyUnderContract, Contracts, WithStatus
<1>5. DraftBindingsFollow' /\ FormalBindingsComplete'
  BY DEF IssueInvoice, IInv, DraftBindingsFollow, FormalBindingsComplete, BatchDocuments
<1>6. QED
  BY <1>3, <1>4, <1>5 DEF IInv

LEMMA CorrectInvoiceInv ==
  ASSUME IInv, NEW i \in DOMAIN invoices, NEW amount \in Amounts, CorrectInvoice(i, amount)
  PROVE  IInv'
<1>1. Contracts # {}
  BY DEF CorrectInvoice, IInv, MoneyUnderContract
<1>2. invoices' \in Seq(InvoiceRecord) /\ Len(invoices') <= MaxInvoices
  <2>1. /\ invoices \in Seq(InvoiceRecord) /\ MaxInvoices \in Nat
        /\ [amount |-> amount, corrects |-> i] \in InvoiceRecord
        /\ invoices' = Append(invoices, [amount |-> amount, corrects |-> i])
        /\ Len(invoices) < MaxInvoices
    BY LimitsAssumption DEF CorrectInvoice, IInv, DocumentsTypeOK, InvoiceRecord
  <2>2. QED
    BY <2>1, AppendTo
<1>3. DocumentsTypeOK' /\ RequestFreezesPayment'
  BY <1>2 DEF CorrectInvoice, IInv, DocumentsTypeOK, RequestFreezesPayment
<1>4. MoneyUnderContract'
  BY <1>1 DEF CorrectInvoice, MoneyUnderContract, Contracts, WithStatus
<1>5. DraftBindingsFollow' /\ FormalBindingsComplete'
  BY DEF CorrectInvoice, IInv, DraftBindingsFollow, FormalBindingsComplete, BatchDocuments
<1>6. QED
  BY <1>3, <1>4, <1>5 DEF IInv

-------------------------------------------------------------------------------
(* The two sides of the documents module together.                         *)

(* A ledger row is about a payment there is.                               *)
ReceiptsNamePayments ==
    \A r \in DOMAIN receipts : receipts[r].payment \in DOMAIN payments

LEMMA DocumentStepNames ==
  ASSUME IInv, ReceiptsNamePayments, DocumentStep
  PROVE  ReceiptsNamePayments'
<1>1. DOMAIN payments' = DOMAIN payments /\ UNCHANGED receipts
  BY DEF DocumentStep, CreateDocument, PrepareAcceptance, PromoteReviewedContract,
       ChangeDocumentStatus, GenerateDocument, ConfirmQuote, UpdateProfile,
       AdoptRequirement, CreateAcceptanceBatch, UpsertAcceptanceMaterial
<1>2. QED
  BY <1>1 DEF ReceiptsNamePayments

LEMMA BookNames ==
  ASSUME IInv, ReceiptsNamePayments, NEW p \in DOMAIN payments, NEW net,
         NEW entry \in ReceiptRecord, Book(p, net, entry), entry.payment = p
  PROVE  ReceiptsNamePayments'
<1>1. receipts \in Seq(ReceiptRecord)
  BY DEF IInv, DocumentsTypeOK
<1>2. receipts' = Append(receipts, entry) /\ DOMAIN payments' = DOMAIN payments
  BY DEF Book
<1>3. QED
  BY <1>1, <1>2, AppendTo DEF ReceiptsNamePayments

LEMMA LedgerStepNames ==
  ASSUME IInv, ReceiptsNamePayments, LedgerStep
  PROVE  ReceiptsNamePayments'
<1>1. ASSUME NEW amount \in Amounts, PlanPayment(amount)
      PROVE  ReceiptsNamePayments'
  <2>1. payments \in Seq(PaymentRecord) /\ [amount |-> amount, status |-> "planned"]
                                             \in PaymentRecord
    BY DEF IInv, DocumentsTypeOK, PaymentRecord, PaymentStatuses
  <2>2. DOMAIN payments \subseteq DOMAIN payments'
    BY <1>1, <2>1, AppendTo DEF PlanPayment
  <2>3. QED
    BY <1>1, <2>2 DEF PlanPayment, ReceiptsNamePayments
<1>2. ASSUME NEW amount \in Amounts, NEW i \in DOMAIN invoices,
             IssueInvoice(amount) \/ CorrectInvoice(i, amount)
      PROVE  ReceiptsNamePayments'
  BY <1>2 DEF IssueInvoice, CorrectInvoice, ReceiptsNamePayments
<1>3. ASSUME NEW amount \in Amounts, IssueInvoice(amount)
      PROVE  ReceiptsNamePayments'
  BY <1>3 DEF IssueInvoice, ReceiptsNamePayments
<1>4. ASSUME NEW p \in DOMAIN payments, NEW amount \in Amounts,
             CancelPayment(p) \/ EditPayment(p, amount)
      PROVE  ReceiptsNamePayments'
  BY <1>4 DEF CancelPayment, EditPayment, ReceiptsNamePayments
<1>5. ASSUME NEW p \in DOMAIN payments, CancelPayment(p)
      PROVE  ReceiptsNamePayments'
  BY <1>5 DEF CancelPayment, ReceiptsNamePayments
<1>6. ASSUME NEW p \in DOMAIN payments, NEW amount \in Amounts, RecordReceipt(p, amount)
      PROVE  ReceiptsNamePayments'
  <2>1. [payment |-> p, amount |-> amount, reverses |-> 0] \in ReceiptRecord
    BY Elements DEF IInv, ReceiptRecord
  <2>2. QED
    BY <1>6, <2>1, BookNames DEF RecordReceipt
<1>7. ASSUME NEW r \in DOMAIN receipts, NEW amount \in Amounts, ReverseReceipt(r, amount)
      PROVE  ReceiptsNamePayments'
  <2>1. receipts[r].payment \in DOMAIN payments /\ r \in Nat
    BY DEF ReceiptsNamePayments, IInv, DocumentsTypeOK
  <2>2. [payment |-> receipts[r].payment, amount |-> amount, reverses |-> r]
           \in ReceiptRecord
    BY <2>1, Elements DEF IInv, ReceiptRecord
  <2>3. QED
    BY <1>7, <2>1, <2>2, BookNames DEF ReverseReceipt
<1>8. QED
  BY <1>1, <1>2, <1>3, <1>4, <1>5, <1>6, <1>7 DEF LedgerStep

(* Every command of the commercial side keeps the invariant.               *)
LEMMA DocumentsNextInv ==
  ASSUME IInv, ReceiptsNamePayments, DocumentsNext
  PROVE  IInv' /\ ReceiptsNamePayments'
<1>1. CASE DocumentStep
  <2>1. IInv'
    BY <1>1, CreateDocumentInv, PrepareAcceptanceInv, PromoteReviewedContractInv,
       ChangeDocumentStatusInv, GenerateDocumentInv, ConfirmQuoteInv, ProfileInv,
       CreateAcceptanceBatchInv, UpsertAcceptanceMaterialInv DEF DocumentStep
  <2>2. QED
    BY <1>1, <2>1, DocumentStepNames
<1>2. CASE LedgerStep
  <2>1. ASSUME NEW r \in DOMAIN receipts, NEW amount \in Amounts,
               ReverseReceipt(r, amount)
        PROVE  IInv'
    BY <2>1, ReverseReceiptInv DEF ReceiptsNamePayments
  <2>2. IInv'
    BY <1>2, <2>1, PlanPaymentInv, IssueInvoiceInv, CancelPaymentInv, EditPaymentInv,
       RecordReceiptInv, CorrectInvoiceInv DEF LedgerStep
  <2>3. QED
    BY <1>2, <2>2, LedgerStepNames
<1>3. QED
  BY <1>1, <1>2 DEF DocumentsNext

(* The other side's commands do not touch what it is about.                *)
LEMMA DocumentsUnchanged ==
  ASSUME IInv, ReceiptsNamePayments, UNCHANGED documentVars
  PROVE  IInv' /\ ReceiptsNamePayments'
<1>1. DocumentsTypeOK' /\ MoneyUnderContract' /\ RequestFreezesPayment'
  BY DEF documentVars, IInv, DocumentsTypeOK, MoneyUnderContract, Contracts, WithStatus,
       RequestFreezesPayment
<1>2. DraftBindingsFollow' /\ FormalBindingsComplete'
  BY DEF documentVars, IInv, DraftBindingsFollow, FormalBindingsComplete, BatchDocuments
<1>3. ReceiptsNamePayments'
  BY DEF documentVars, ReceiptsNamePayments
<1>4. QED
  BY <1>1, <1>2, <1>3 DEF IInv

(* The inductive invariant starts true.                                    *)
LEMMA DocumentsInitInv ==
  ASSUME DocumentsInit
  PROVE  IInv /\ ReceiptsNamePayments
<1>1. DocumentsTypeOK
  BY LimitsAssumption DEF DocumentsInit, DocumentsTypeOK, Bindings
<1>2. DOMAIN documents = {} /\ receipts = <<>> /\ DOMAIN invoices = {}
  BY DEF DocumentsInit
<1>3. DOMAIN receipts = {}
  BY <1>2
<1>4. QED
  BY <1>1, <1>2, <1>3 DEF IInv, MoneyUnderContract, RequestFreezesPayment,
       DraftBindingsFollow, FormalBindingsComplete, BatchDocuments, ReceiptsNamePayments

-------------------------------------------------------------------------------
(* A submission decides versions that were sent in it, each is sent in one *)
(* submission, and a version that can still be sent was sent in none.      *)
SubmissionsSound ==
    /\ \A s \in DOMAIN submissions :
          /\ submissions[s].sent \subseteq DOMAIN versions
          /\ submissions[s].accepted \subseteq submissions[s].sent
          /\ submissions[s].rejected \subseteq submissions[s].sent
          /\ \A v \in submissions[s].sent : versions[v].status # "draft"

DeliveryInv == DeliveryTypeOK /\ SubmissionsSound /\ DecisionsStand

-------------------------------------------------------------------------------
(* The delivery side.                                                      *)

LEMMA DeliveryElements ==
  ASSUME DeliveryInv
  PROVE  /\ versions \in Seq(VersionRecord) /\ submissions \in Seq(SubmissionRecord)
         /\ \A v \in DOMAIN versions : versions[v] \in VersionRecord
         /\ \A s \in DOMAIN submissions : submissions[s] \in SubmissionRecord
         /\ DOMAIN versions = 1..Len(versions) /\ DOMAIN versions \subseteq 1..MaxVersions
BY DeliveryLimitsAssumption DEF DeliveryInv, DeliveryTypeOK

LEMMA MilestoneSet ==
  ASSUME DeliveryTypeOK, NEW m \in Milestones, NEW status \in MilestoneStatuses,
         SetMilestone(m, status)
  PROVE  milestones' \in [Milestones -> MilestoneRecord]
BY DEF DeliveryTypeOK, SetMilestone, MilestoneRecord

(* Versions and submissions as they were.                                  *)
LEMMA DeliveryAsideInv ==
  ASSUME DeliveryInv, UNCHANGED <<versions, submissions>>,
         milestones' \in [Milestones -> MilestoneRecord],
         settlements' \in [Batches -> [lines : SUBSET Deliverables, voided : BOOLEAN]]
  PROVE  DeliveryInv'
BY DEF DeliveryInv, DeliveryTypeOK, SubmissionsSound, DecisionsStand

LEMMA UpsertMilestoneInv ==
  ASSUME DeliveryInv, NEW m \in Milestones, NEW status \in MilestoneStatuses,
         NEW required \in BOOLEAN, UpsertMilestone(m, status, required)
  PROVE  DeliveryInv'
<1>1. milestones' \in [Milestones -> MilestoneRecord]
  BY DEF UpsertMilestone, DeliveryInv, DeliveryTypeOK, MilestoneRecord
<1>2. QED
  BY <1>1, DeliveryAsideInv DEF UpsertMilestone, DeliveryInv, DeliveryTypeOK

LEMMA SettlementInv ==
  ASSUME DeliveryInv, NEW b \in Batches, NEW ds \in SUBSET Deliverables,
         UpsertSettlementBatch(b, ds) \/ VoidSettlementBatch(b)
  PROVE  DeliveryInv'
<1>1. settlements' \in [Batches -> [lines : SUBSET Deliverables, voided : BOOLEAN]]
  BY DEF UpsertSettlementBatch, VoidSettlementBatch, DeliveryInv, DeliveryTypeOK
<1>2. QED
  BY <1>1, DeliveryAsideInv DEF UpsertSettlementBatch, VoidSettlementBatch, DeliveryInv,
       DeliveryTypeOK

(* A new version supersedes: what was accepted stays so, and rejections    *)
(* stay rejected or superseded.                                            *)
LEMMA RegisterVersionInv ==
  ASSUME DeliveryInv, NEW d \in Deliverables, NEW m \in Milestones,
         NEW required \in BOOLEAN, RegisterVersion(d, m, required)
  PROVE  DeliveryInv'
<1> DEFINE old == Superseded(d)
           new == [deliverable |-> d, milestone |-> m, required |-> required,
                   status |-> "draft"]
<1>1. /\ UNCHANGED <<submissions, settlements>>
      /\ versions' = Append(old, new) /\ Len(versions) < MaxVersions
  BY DEF RegisterVersion
<1>2. /\ DOMAIN old = DOMAIN versions /\ old = [v \in DOMAIN versions |-> old[v]]
      /\ \A v \in DOMAIN versions :
            /\ old[v] \in VersionRecord
            /\ old[v].status \in {versions[v].status, "superseded"}
            /\ versions[v].status = "accepted" => old[v].status = "accepted"
  BY DeliveryElements DEF Superseded, VersionRecord, VersionStatuses
<1>3. old \in Seq(VersionRecord) /\ Len(old) = Len(versions)
  BY <1>2, DeliveryElements, Replace
<1>4. new \in VersionRecord
  BY DEF VersionRecord, VersionStatuses
<1>5. /\ versions' \in Seq(VersionRecord) /\ Len(versions') <= MaxVersions
      /\ DOMAIN versions \subseteq DOMAIN versions'
      /\ \A v \in DOMAIN versions : versions'[v] = old[v]
  <2>1. Len(versions) \in Nat /\ MaxVersions \in Nat
    BY DeliveryElements, DeliveryLimitsAssumption
  <2>2. QED
    BY <1>1, <1>2, <1>3, <1>4, <2>1, AppendTo
<1>6. milestones' \in [Milestones -> MilestoneRecord]
  BY MilestoneSet DEF RegisterVersion, DeliveryInv, MilestoneStatuses
<1>7. DeliveryTypeOK'
  BY <1>1, <1>5, <1>6 DEF DeliveryInv, DeliveryTypeOK
<1>8. SubmissionsSound'
  BY <1>1, <1>2, <1>5 DEF DeliveryInv, SubmissionsSound
<1>9. DecisionsStand'
  BY <1>1, <1>2, <1>5 DEF DeliveryInv, SubmissionsSound, DecisionsStand
<1>10. QED
  BY <1>7, <1>8, <1>9 DEF DeliveryInv

(* Only drafts are sent, so nothing that was sent before is sent again.    *)
LEMMA RecordDeliverySentInv ==
  ASSUME DeliveryInv, NEW m \in Milestones, NEW vs \in SUBSET DOMAIN versions,
         RecordDeliverySent(m, vs)
  PROVE  DeliveryInv'
<1> DEFINE new == [milestone |-> m, sent |-> vs, accepted |-> {}, rejected |-> {}]
<1>1. /\ UNCHANGED settlements /\ submissions' = Append(submissions, new)
      /\ Len(submissions) < MaxSubmissions /\ vs \subseteq Sendable(m)
  BY DEF RecordDeliverySent
<1>2. new \in SubmissionRecord
  BY DeliveryElements DEF SubmissionRecord
<1>3. /\ submissions' \in Seq(SubmissionRecord) /\ Len(submissions') <= MaxSubmissions
      /\ \A s \in DOMAIN submissions' :
            IF s \in DOMAIN submissions THEN submissions'[s] = submissions[s]
            ELSE submissions'[s] = new
      /\ \A s, t \in DOMAIN submissions' :
            s # t => s \in DOMAIN submissions \/ t \in DOMAIN submissions
  <2>1. submissions \in Seq(SubmissionRecord) /\ MaxSubmissions \in Nat
    BY DeliveryElements, DeliveryLimitsAssumption
  <2>2. QED
    BY <1>1, <1>2, <2>1, AppendTo
<1>4. /\ DOMAIN versions' = DOMAIN versions
      /\ versions' = [v \in DOMAIN versions |-> versions'[v]]
      /\ \A v \in DOMAIN versions :
            /\ versions'[v] \in VersionRecord
            /\ v \in vs => versions'[v].status = "sent"
            /\ v \notin vs => versions'[v] = versions[v]
  BY DeliveryElements DEF RecordDeliverySent, VersionRecord, VersionStatuses
<1>5. versions' \in Seq(VersionRecord) /\ Len(versions') = Len(versions)
  BY <1>4, DeliveryElements, Replace
<1>6. DeliveryTypeOK'
  BY <1>1, <1>3, <1>5, MilestoneSet DEF RecordDeliverySent, DeliveryInv, DeliveryTypeOK,
       MilestoneStatuses
<1>7. \A s \in DOMAIN submissions : submissions[s].sent \cap vs = {}
  BY <1>1 DEF Sendable, DeliveryInv, SubmissionsSound
<1>8. SubmissionsSound'
  BY <1>3, <1>4, <1>7 DEF DeliveryInv, SubmissionsSound
<1>9. DecisionsStand'
  <2>1. \A s \in DOMAIN submissions' :
          /\ submissions'[s].accepted \cap submissions'[s].rejected = {}
          /\ \A v \in submissions'[s].accepted : versions'[v].status = "accepted"
          /\ \A v \in submissions'[s].rejected :
                versions'[v].status \in {"rejected", "superseded"}
    BY <1>3, <1>4, <1>7 DEF DeliveryInv, SubmissionsSound, DecisionsStand
  <2>2. \A s, t \in DOMAIN submissions' :
          s # t => submissions'[s].sent \cap submissions'[t].sent = {}
    BY <1>3, <1>7 DEF DeliveryInv, DecisionsStand
  <2>3. QED
    BY <2>1, <2>2 DEF DecisionsStand
<1>10. QED
  BY <1>6, <1>8, <1>9 DEF DeliveryInv

(* A signoff decides what is pending, in its own submission only.          *)
LEMMA RecordDeliverySignoffInv ==
  ASSUME DeliveryInv, NEW s \in DOMAIN submissions,
         NEW accepted \in SUBSET submissions[s].sent,
         NEW rejected \in SUBSET submissions[s].sent,
         RecordDeliverySignoff(s, accepted, rejected)
  PROVE  DeliveryInv'
<1> DEFINE decided == [submissions[s] EXCEPT !.accepted = @ \cup accepted,
                                             !.rejected = @ \cup rejected]
<1>1. /\ UNCHANGED settlements /\ submissions' = [submissions EXCEPT ![s] = decided]
      /\ accepted \cap rejected = {} /\ accepted \cup rejected \subseteq Pending(s)
  BY DEF RecordDeliverySignoff
<1>2. /\ submissions[s] \in SubmissionRecord /\ decided \in SubmissionRecord
      /\ decided.sent = submissions[s].sent
      /\ decided.accepted = submissions[s].accepted \cup accepted
      /\ decided.rejected = submissions[s].rejected \cup rejected
  <2>1. submissions[s] \in SubmissionRecord
    BY DeliveryElements
  <2>2. QED
    BY <2>1 DEF SubmissionRecord
<1>3. /\ DOMAIN submissions' = DOMAIN submissions
      /\ submissions' = [t \in DOMAIN submissions |-> submissions'[t]]
      /\ \A t \in DOMAIN submissions :
            IF t = s THEN submissions'[t] = decided ELSE submissions'[t] = submissions[t]
  BY <1>1, DeliveryElements
<1>4. submissions' \in Seq(SubmissionRecord) /\ Len(submissions') = Len(submissions)
  <2>1. \A t \in DOMAIN submissions : submissions'[t] \in SubmissionRecord
    BY <1>2, <1>3, DeliveryElements
  <2>2. QED
    BY <1>3, <2>1, DeliveryElements, Replace
<1>5. /\ DOMAIN versions' = DOMAIN versions
      /\ versions' = [v \in DOMAIN versions |-> versions'[v]]
      /\ \A v \in DOMAIN versions :
            /\ versions'[v] \in VersionRecord
            /\ v \in accepted => versions'[v].status = "accepted"
            /\ v \in rejected => versions'[v].status = "rejected"
            /\ v \notin accepted \cup rejected => versions'[v] = versions[v]
  BY <1>1, DeliveryElements DEF RecordDeliverySignoff, VersionRecord, VersionStatuses
<1>6. versions' \in Seq(VersionRecord) /\ Len(versions') = Len(versions)
  BY <1>5, DeliveryElements, Replace
<1>7. milestones' \in [Milestones -> MilestoneRecord]
  BY <1>2, MilestoneSet DEF RecordDeliverySignoff, DeliveryInv, MilestoneStatuses,
       SubmissionRecord
<1>8. DeliveryTypeOK'
  BY <1>1, <1>4, <1>6, <1>7 DEF DeliveryInv, DeliveryTypeOK
<1>9. \A t \in DOMAIN submissions :
         /\ t # s => submissions[t].sent \cap (accepted \cup rejected) = {}
         /\ Decided(s) \cap (accepted \cup rejected) = {}
  BY <1>1 DEF DeliveryInv, DecisionsStand, Pending
<1>10. SubmissionsSound'
  BY <1>2, <1>3, <1>5 DEF DeliveryInv, SubmissionsSound
<1>11. DecisionsStand'
  <2>1. ASSUME NEW t \in DOMAIN submissions
        PROVE  /\ submissions'[t].accepted \cap submissions'[t].rejected = {}
               /\ \A v \in submissions'[t].accepted : versions'[v].status = "accepted"
               /\ \A v \in submissions'[t].rejected :
                     versions'[v].status \in {"rejected", "superseded"}
    <3>1. /\ submissions[t].accepted \cap submissions[t].rejected = {}
          /\ \A v \in submissions[t].accepted :
                v \in DOMAIN versions /\ versions[v].status = "accepted"
          /\ \A v \in submissions[t].rejected :
                v \in DOMAIN versions /\ versions[v].status \in {"rejected", "superseded"}
      BY DEF DeliveryInv, SubmissionsSound, DecisionsStand
    <3>2. CASE t = s
      <4>1. accepted \cup rejected \subseteq DOMAIN versions
        BY DEF DeliveryInv, SubmissionsSound
      <4>2. QED
        BY <1>1, <1>2, <1>3, <1>5, <1>9, <3>1, <3>2, <4>1 DEF Decided
    <3>3. CASE t # s
      BY <1>3, <1>5, <1>9, <3>1, <3>3 DEF DeliveryInv, SubmissionsSound
    <3>4. QED
      BY <3>2, <3>3
  <2>2. \A t, u \in DOMAIN submissions :
          t # u => submissions'[t].sent \cap submissions'[u].sent = {}
    <3>1. \A t \in DOMAIN submissions : submissions'[t].sent = submissions[t].sent
      <4> HIDE DEF decided
      <4> QED
        BY <1>2, <1>3
    <3>2. QED
      BY <3>1 DEF DeliveryInv, DecisionsStand
  <2>3. QED
    BY <1>3, <2>1, <2>2 DEF DecisionsStand
<1>12. QED
  BY <1>8, <1>10, <1>11 DEF DeliveryInv

LEMMA DeliveryNextInv ==
  ASSUME DeliveryInv, DeliveryNext
  PROVE  DeliveryInv'
<1>1. ASSUME NEW b \in Batches, VoidSettlementBatch(b)
      PROVE  DeliveryInv'
  BY <1>1, SettlementInv
<1>2. QED
  BY <1>1, UpsertMilestoneInv, RegisterVersionInv, RecordDeliverySentInv,
     RecordDeliverySignoffInv, SettlementInv DEF DeliveryNext

LEMMA DeliveryUnchanged ==
  ASSUME DeliveryInv, UNCHANGED deliveryVars
  PROVE  DeliveryInv'
BY DeliveryAsideInv DEF deliveryVars, DeliveryInv, DeliveryTypeOK

-------------------------------------------------------------------------------
(* Archiving.                                                              *)

(* What closes a workspace is read from the two sides' tables alone.       *)
Closed == /\ Received = ContractAmount /\ Invoiced = ContractAmount
          /\ Acceptances # {}
          /\ \A p \in DOMAIN payments : payments[p].status \in {"received", "canceled"}
          /\ MilestonesAccepted /\ DeliverablesAccepted /\ SubmissionsDecided

LEMMA ClosedUnchanged ==
  ASSUME Closed, UNCHANGED <<documentVars, deliveryVars>>
  PROVE  Closed'
<1>1. Received' = Received /\ ContractAmount' = ContractAmount /\ Invoiced' = Invoiced
  BY DEF documentVars, Received, Net, ContractAmount, Contracts, CurrentContract,
       WithStatus, Invoiced
<1>2. Acceptances' = Acceptances /\ payments' = payments
  BY DEF documentVars, Acceptances, WithStatus
<1>3. MilestonesAccepted' = MilestonesAccepted
  BY DEF deliveryVars, MilestonesAccepted, Required
<1>4. DeliverablesAccepted' = DeliverablesAccepted
  BY DEF deliveryVars, DeliverablesAccepted, DeliverableRequired, VersionsOf, Required
<1>5. SubmissionsDecided' = SubmissionsDecided
  BY DEF deliveryVars, SubmissionsDecided, Pending, Decided
<1>6. QED
  BY <1>1, <1>2, <1>3, <1>4, <1>5 DEF Closed

(* Every command of the two sides is refused on an archived workspace.     *)
LEMMA CommandsNeedActive ==
  ASSUME DocumentsNext \/ DeliveryNext
  PROVE  workspaceStatus = "active" /\ UNCHANGED workspaceStatus
<1>1. CASE DocumentStep
  BY <1>1 DEF DocumentStep, CreateDocument, PrepareAcceptance, PromoteReviewedContract,
       ChangeDocumentStatus, GenerateDocument, ConfirmQuote, UpdateProfile,
       AdoptRequirement, CreateAcceptanceBatch, UpsertAcceptanceMaterial, Mutable, Bump
<1>2. CASE LedgerStep
  BY <1>2 DEF LedgerStep, PlanPayment, IssueInvoice, CancelPayment, EditPayment,
       RecordReceipt, ReverseReceipt, CorrectInvoice, Mutable, Bump
<1>3. CASE DeliveryNext
  BY <1>3 DEF DeliveryNext, UpsertMilestone, RegisterVersion, RecordDeliverySent,
       RecordDeliverySignoff, UpsertSettlementBatch, VoidSettlementBatch, Mutable, Bump
<1>4. QED
  BY <1>1, <1>2, <1>3 DEF DocumentsNext

LEMMA ArchivedStep ==
  ASSUME ArchivedIsClosed, WorkspaceTypeOK, [Next]_vars
  PROVE  ArchivedIsClosed' /\ WorkspaceTypeOK'
<1>1. ArchivedIsClosed <=> (workspaceStatus = "archived" => Closed)
  BY DEF ArchivedIsClosed, Closed
<1>2. ArchivedIsClosed' <=> (workspaceStatus' = "archived" => Closed')
  BY DEF ArchivedIsClosed, Closed
<1>3. CASE DocumentsNext \/ DeliveryNext
  <2>1. workspaceStatus' = "active"
    BY <1>3, CommandsNeedActive
  <2>2. archiveIntegrity' \in {"notCaptured", "ready", "stale"}
    BY <1>3 DEF WorkspaceTypeOK, DocumentsNext, DeliveryNext, DocumentStep, LedgerStep,
         CreateDocument, PrepareAcceptance, PromoteReviewedContract,
         ChangeDocumentStatus, GenerateDocument, ConfirmQuote, UpdateProfile,
         AdoptRequirement, CreateAcceptanceBatch, UpsertAcceptanceMaterial,
         PlanPayment, IssueInvoice, CancelPayment, EditPayment, RecordReceipt,
         ReverseReceipt, CorrectInvoice, UpsertMilestone, RegisterVersion,
         RecordDeliverySent, RecordDeliverySignoff, UpsertSettlementBatch,
         VoidSettlementBatch, Bump
  <2>3. QED
    BY <1>2, <2>1, <2>2 DEF WorkspaceTypeOK
<1>4. CASE ClosureStep
  <2>1. UNCHANGED <<documentVars, deliveryVars>> /\ WorkspaceTypeOK'
    BY <1>4 DEF ClosureStep, CreateArchiveSnapshot, ChangeWorkspaceStatus, CustomerEdited,
         WorkspaceTypeOK
  <2>2. CASE workspaceStatus' = workspaceStatus
    BY <1>1, <1>2, <2>1, <2>2, ClosedUnchanged
  <2>3. CASE workspaceStatus' # workspaceStatus
    <3>1. PICK status \in {"active", "archived"} : ChangeWorkspaceStatus(status)
      BY <1>4, <2>3 DEF ClosureStep, CreateArchiveSnapshot, CustomerEdited
    <3>2. CASE status = "archived"
      <4>1. Archivable
        BY <3>1, <3>2 DEF ChangeWorkspaceStatus
      <4>2. Closed
        BY <4>1 DEF Archivable, ClosureArchivable, InvoicesSettled, Closed
      <4>3. QED
        BY <1>2, <2>1, <4>2, ClosedUnchanged
    <3>3. CASE status = "active"
      BY <1>2, <2>1, <3>1, <3>3 DEF ChangeWorkspaceStatus
    <3>4. QED
      BY <3>2, <3>3
  <2>4. QED
    BY <2>2, <2>3
<1>5. CASE UNCHANGED vars
  BY <1>1, <1>2, <1>5, ClosedUnchanged DEF vars, workspaceVars, WorkspaceTypeOK
<1>6. QED
  BY <1>3, <1>4, <1>5 DEF Next

-------------------------------------------------------------------------------
Inv == /\ IInv /\ ReceiptsNamePayments /\ DeliveryInv
       /\ WorkspaceTypeOK /\ ArchivedIsClosed

(* Every state a workspace reaches satisfies the inductive invariant.      *)
THEOREM Invariance == Spec => []Inv
<1>1. Init => Inv
  <2>1. ASSUME DeliveryInit
        PROVE  DeliveryInv
    <3>1. DeliveryTypeOK
      BY <2>1, DeliveryLimitsAssumption DEF DeliveryInit, DeliveryTypeOK, MilestoneRecord
    <3>2. DOMAIN submissions = {}
      BY <2>1 DEF DeliveryInit
    <3>3. QED
      BY <3>1, <3>2 DEF DeliveryInv, SubmissionsSound, DecisionsStand
  <2>2. ASSUME WorkspaceInit
        PROVE  WorkspaceTypeOK /\ ArchivedIsClosed
    BY <2>2 DEF WorkspaceInit, WorkspaceTypeOK, ArchivedIsClosed
  <2>3. QED
    BY <2>1, <2>2, DocumentsInitInv DEF Init, Inv
<1>2. Inv /\ [Next]_vars => Inv'
  <2>1. SUFFICES ASSUME Inv, [Next]_vars
                 PROVE  Inv'
    OBVIOUS
  <2>2. ArchivedIsClosed' /\ WorkspaceTypeOK'
    BY <2>1, ArchivedStep DEF Inv
  <2>3. DocumentsNext \/ UNCHANGED documentVars
    BY <2>1 DEF Next, ClosureStep, CreateArchiveSnapshot, ChangeWorkspaceStatus,
         CustomerEdited, vars
  <2>4. DeliveryNext \/ UNCHANGED deliveryVars
    BY <2>1 DEF Next, ClosureStep, CreateArchiveSnapshot, ChangeWorkspaceStatus,
         CustomerEdited, vars
  <2>5. IInv' /\ ReceiptsNamePayments'
    BY <2>1, <2>3, DocumentsNextInv, DocumentsUnchanged DEF Inv
  <2>6. DeliveryInv'
    BY <2>1, <2>4, DeliveryNextInv, DeliveryUnchanged DEF Inv
  <2>7. QED
    BY <2>2, <2>5, <2>6 DEF Inv
<1>3. QED
  BY <1>1, <1>2, PTL DEF Spec

(* The tables keep their types.                                            *)
THEOREM TypeCorrect == Spec => []TypeOK
<1>1. Inv => TypeOK
  BY DEF Inv, IInv, DeliveryInv, TypeOK
<1>2. QED
  BY <1>1, Invariance, PTL

(* Receipts, invoices and live payment requests have an effective contract. *)
THEOREM MoneyHasContract == Spec => []MoneyUnderContract
<1>1. Inv => MoneyUnderContract
  BY DEF Inv, IInv
<1>2. QED
  BY <1>1, Invariance, PTL

(* A live payment request and its payment agree.                           *)
THEOREM RequestsStayTrue == Spec => []RequestFreezesPayment
<1>1. Inv => RequestFreezesPayment
  BY DEF Inv, IInv
<1>2. QED
  BY <1>1, Invariance, PTL

(* A formal acceptance names a confirmed material.                         *)
THEOREM FormalAcceptancesBound == Spec => []FormalBindingsComplete
<1>1. Inv => FormalBindingsComplete
  BY DEF Inv, IInv
<1>2. QED
  BY <1>1, Invariance, PTL

(* What the customer decided stands, and is asked for once.                *)
THEOREM SignoffsStand == Spec => []DecisionsStand
<1>1. Inv => DecisionsStand
  BY DEF Inv, DeliveryInv
<1>2. QED
  BY <1>1, Invariance, PTL

(* An archived workspace has nothing outstanding.                          *)
THEOREM ArchivedClosed == Spec => []ArchivedIsClosed
<1>1. Inv => ArchivedIsClosed
  BY DEF Inv
<1>2. QED
  BY <1>1, Invariance, PTL

-------------------------------------------------------------------------------
(***************************************************************************)
(* Sums.  SumFunctionOnSet adds up in the order in which CHOOSE picks; the *)
(* order does not matter.  Sets are induced over by a smallest one that    *)
(* fails.                                                                  *)
(***************************************************************************)
LEMMA LessThanWF ==
  \E R : IsWellFoundedOn(R, Nat) /\ \A x, y \in Nat : x < y => <<x, y>> \in R
<1> DEFINE R == OpToRel(<, Nat)
<1>1. IsWellFoundedOn(R, Nat)
  BY NatLessThanWellFounded
<1>2. \A x, y \in Nat : x < y => <<x, y>> \in R
  BY DEF OpToRel
<1>3. QED
  BY <1>1, <1>2, Zenon

LEMMA LeastExists ==
  ASSUME NEW S \in SUBSET Nat, S # {}
  PROVE  \E x \in S : \A y \in S : x <= y
<1>1. PICK R : IsWellFoundedOn(R, Nat) /\ \A x, y \in Nat : x < y => <<x, y>> \in R
  BY LessThanWF
<1>2. \E x \in S : \A y \in S : ~(<<y, x>> \in R)
  <2>1. IsWellFoundedOn(R, Nat)
    BY <1>1
  <2>2. QED
    BY <2>1, WFMin
<1>3. \A x, y \in S : ~(<<y, x>> \in R) => ~(y < x)
  BY <1>1, Zenon
<1>4. \A x, y \in S : ~(y < x) => x <= y
  OBVIOUS
<1>5. QED
  BY <1>2, <1>3, <1>4, Zenon

(* A set of numbers with 0 that is closed under successor has them all.    *)
LEMMA AllNumbers ==
  ASSUME NEW Z, 0 \in Z, \A n \in Nat : n \in Z => n + 1 \in Z
  PROVE  \A n \in Nat : n \in Z
<1> DEFINE Bad == {n \in Nat : n \notin Z}
<1>1. SUFFICES ASSUME Bad # {} PROVE FALSE
  OBVIOUS
<1>2. PICK n \in Bad : \A k \in Bad : n <= k
  BY <1>1, LeastExists
<1>3. n - 1 \in Nat /\ n - 1 \notin Bad
  BY <1>2
<1>4. QED
  BY <1>2, <1>3

(* A family of sets that has every subset of S whose smaller ones it has.  *)
LEMMA AllSubsets ==
  ASSUME NEW S, IsFiniteSet(S), NEW Z,
         \A s \in SUBSET S : (\A x \in s : s \ {x} \in Z) => s \in Z
  PROVE  \A s \in SUBSET S : s \in Z
<1> DEFINE Bad == {s \in SUBSET S : s \notin Z}
           Sizes == {Cardinality(s) : s \in Bad}
<1>0. \A s \in SUBSET S : IsFiniteSet(s) /\ Cardinality(s) \in Nat
  BY FS_Subset, FS_CardinalityType
<1>1. SUFFICES ASSUME Bad # {} PROVE FALSE
  OBVIOUS
<1>2. Sizes \in SUBSET Nat /\ Sizes # {}
  BY <1>0, <1>1
<1>3. PICK m \in Sizes : \A k \in Sizes : m <= k
  BY <1>2, LeastExists
<1>4. PICK s \in Bad : m = Cardinality(s)
  BY <1>3
<1>5. ASSUME NEW x \in s PROVE s \ {x} \in Z
  <2>1. Cardinality(s \ {x}) = m - 1 /\ m \in Nat /\ s \ {x} \in SUBSET S
    BY <1>0, <1>4, FS_RemoveElement
  <2>2. s \ {x} \in Bad => m <= m - 1
    BY <1>3, <2>1
  <2>3. QED
    BY <2>1, <2>2
<1>6. QED
  BY <1>4, <1>5

Picked(s) == CHOOSE x \in s : TRUE

SumStep(f, g, s) == IF s = {} THEN 0 ELSE f[Picked(s)] + g[s \ {Picked(s)}]

AddsUp(f, S, g) == g = [s \in SUBSET S |-> SumStep(f, g, s)]

(* A solution on the subsets of S with at most n elements.                 *)
SolvesUpTo(f, S, n, g) ==
    /\ g = [s \in SUBSET S |-> g[s]]
    /\ \A s \in SUBSET S : Cardinality(s) <= n => g[s] = SumStep(f, g, s)

(* The recursion of the library has a solution on every finite set.        *)
LEMMA SumExists ==
  ASSUME NEW f, NEW S, IsFiniteSet(S)
  PROVE  \E g : AddsUp(f, S, g)
<1> DEFINE Z == {n \in Nat : \E g : SolvesUpTo(f, S, n, g)}
<1>0. \A s \in SUBSET S : IsFiniteSet(s) /\ Cardinality(s) \in Nat
  BY FS_Subset, FS_CardinalityType
<1>a. \A s \in SUBSET S : s # {} => Picked(s) \in s
  BY DEF Picked
<1>1. 0 \in Z
  <2> DEFINE g == [s \in SUBSET S |-> 0]
  <2>1. \A s \in SUBSET S : Cardinality(s) <= 0 => s = {}
    BY <1>0, FS_EmptySet
  <2>2. SolvesUpTo(f, S, 0, g)
    BY <2>1 DEF SumStep, SolvesUpTo
  <2>3. QED
    BY <2>2
<1>2. ASSUME NEW n \in Nat, n \in Z
      PROVE  n + 1 \in Z
  <2>1. PICK g : SolvesUpTo(f, S, n, g)
    BY <1>2
  <2> DEFINE h == [s \in SUBSET S |-> SumStep(f, g, s)]
  <2>2. ASSUME NEW s \in SUBSET S, Cardinality(s) <= n + 1
        PROVE  h[s] = SumStep(f, h, s)
    <3>1. CASE s = {}
      BY <3>1 DEF SumStep
    <3>2. CASE s # {}
      <4>1. /\ s \ {Picked(s)} \in SUBSET S /\ Cardinality(s \ {Picked(s)}) <= n
        <5>1. Picked(s) \in s
          BY <1>a, <3>2
        <5>2. Cardinality(s \ {Picked(s)}) = Cardinality(s) - 1
          BY <1>0, <5>1, FS_RemoveElement
        <5>3. QED
          BY <1>0, <2>2, <5>2
      <4>2. g[s \ {Picked(s)}] = h[s \ {Picked(s)}]
        BY <2>1, <4>1 DEF SolvesUpTo
      <4>3. QED
        BY <3>2, <4>2 DEF SumStep
    <3>3. QED
      BY <3>1, <3>2
  <2>3. SolvesUpTo(f, S, n + 1, h)
    BY <2>2 DEF SolvesUpTo
  <2> HIDE DEF h
  <2>4. QED
    BY <2>3
<1>3. Cardinality(S) \in Z
  <2> HIDE DEF Z
  <2>1. \A n \in Nat : n \in Z
    BY <1>1, <1>2, AllNumbers
  <2>2. QED
    BY <1>0, <2>1
<1>4. PICK g : SolvesUpTo(f, S, Cardinality(S), g)
  BY <1>3
<1>5. \A s \in SUBSET S : Cardinality(s) <= Cardinality(S)
  BY FS_Subset
<1>6. g = [s \in SUBSET S |-> SumStep(f, g, s)]
  BY <1>4, <1>5 DEF SolvesUpTo
<1>7. QED
  BY <1>6 DEF AddsUp

(* Solutions on a set and on a part of it agree on the part.               *)
LEMMA SumAgrees ==
  ASSUME NEW f, NEW S, IsFiniteSet(S), NEW T \in SUBSET S, NEW g, NEW h,
         AddsUp(f, S, g), AddsUp(f, T, h)
  PROVE  g[T] = h[T]
<1> DEFINE Z == {s \in SUBSET T : g[s] = h[s]}
<1>1. ASSUME NEW s \in SUBSET T, \A x \in s : s \ {x} \in Z
      PROVE  s \in Z
  <2>1. g[s] = SumStep(f, g, s) /\ h[s] = SumStep(f, h, s)
    BY DEF AddsUp
  <2>2. CASE s = {}
    BY <2>1, <2>2 DEF SumStep
  <2>3. CASE s # {}
    <3>1. Picked(s) \in s
      BY <2>3 DEF Picked
    <3>2. QED
      BY <1>1, <2>1, <2>3, <3>1 DEF SumStep
  <2>4. QED
    BY <2>2, <2>3
<1>2. IsFiniteSet(T)
  BY FS_Subset
<1> HIDE DEF Z
<1>3. \A s \in SUBSET T : s \in Z
  BY <1>1, <1>2, AllSubsets
<1>4. T \in Z
  BY <1>3
<1>5. QED
  BY <1>4 DEF Z

LEMMA SumSolves ==
  ASSUME NEW f, NEW S, IsFiniteSet(S)
  PROVE  \E g : AddsUp(f, S, g) /\ SumFunctionOnSet(f, S) = g[S]
<1> DEFINE G == CHOOSE g : AddsUp(f, S, g)
<1>1. AddsUp(f, S, G)
  BY SumExists
<1>2. SumFunctionOnSet(f, S) = G[S]
  BY DEF SumFunctionOnSet, FoldFunctionOnSet, MapThenFoldSet, AddsUp, SumStep, Picked
<1>3. QED
  BY <1>1, <1>2

(* A sum is the value at the chosen element and the sum of the rest.       *)
LEMMA SumUnfold ==
  ASSUME NEW f, NEW S, IsFiniteSet(S)
  PROVE  /\ S = {} => SumFunctionOnSet(f, S) = 0
         /\ S # {} => /\ Picked(S) \in S
                      /\ SumFunctionOnSet(f, S) =
                            f[Picked(S)] + SumFunctionOnSet(f, S \ {Picked(S)})
<1>1. PICK g : AddsUp(f, S, g) /\ SumFunctionOnSet(f, S) = g[S]
  BY SumSolves
<1>2. g[S] = SumStep(f, g, S)
  BY <1>1 DEF AddsUp
<1>3. ASSUME S # {}
      PROVE  SumFunctionOnSet(f, S) = f[Picked(S)] + SumFunctionOnSet(f, S \ {Picked(S)})
  <2> DEFINE T == S \ {Picked(S)}
  <2>1. IsFiniteSet(T) /\ T \in SUBSET S
    BY FS_Subset
  <2>2. PICK h : AddsUp(f, T, h) /\ SumFunctionOnSet(f, T) = h[T]
    BY <2>1, SumSolves
  <2>3. g[T] = h[T]
    BY <1>1, <2>1, <2>2, SumAgrees
  <2>4. QED
    BY <1>1, <1>2, <1>3, <2>2, <2>3 DEF SumStep
<1>4. S # {} => Picked(S) \in S
  BY DEF Picked
<1>5. QED
  BY <1>1, <1>2, <1>3, <1>4 DEF SumStep

LEMMA SumType ==
  ASSUME NEW f, NEW S, IsFiniteSet(S), \A x \in S : f[x] \in Int
  PROVE  \A s \in SUBSET S : IsFiniteSet(s) /\ SumFunctionOnSet(f, s) \in Int
<1> DEFINE Z == {s \in SUBSET S : SumFunctionOnSet(f, s) \in Int}
<1>0. \A s \in SUBSET S : IsFiniteSet(s)
  BY FS_Subset
<1>1. ASSUME NEW s \in SUBSET S, \A x \in s : s \ {x} \in Z
      PROVE  s \in Z
  <2>1. CASE s = {}
    <3>1. SumFunctionOnSet(f, s) = 0
      BY <1>0, <2>1, SumUnfold
    <3>2. QED
      BY <3>1
  <2>2. CASE s # {}
    <3>1. /\ Picked(s) \in s
          /\ SumFunctionOnSet(f, s) = f[Picked(s)] + SumFunctionOnSet(f, s \ {Picked(s)})
      BY <1>0, <2>2, SumUnfold
    <3>2. SumFunctionOnSet(f, s \ {Picked(s)}) \in Int
      BY <1>1, <3>1
    <3>3. QED
      BY <3>1, <3>2
  <2>3. QED
    BY <2>1, <2>2
<1> HIDE DEF Z
<1>2. \A s \in SUBSET S : s \in Z
  BY <1>1, AllSubsets
<1>3. QED
  BY <1>0, <1>2 DEF Z

(* Any element may be taken out first.                                     *)
LEMMA SumRemove ==
  ASSUME NEW f, NEW S, IsFiniteSet(S), \A x \in S : f[x] \in Int
  PROVE  \A x \in S : SumFunctionOnSet(f, S) = f[x] + SumFunctionOnSet(f, S \ {x})
<1> DEFINE Sum(s) == SumFunctionOnSet(f, s)
           Z == {s \in SUBSET S : \A x \in s : Sum(s) = f[x] + Sum(s \ {x})}
<1>0. \A s \in SUBSET S : IsFiniteSet(s) /\ Sum(s) \in Int
  BY SumType
<1>1. ASSUME NEW s \in SUBSET S, \A x \in s : s \ {x} \in Z
      PROVE  s \in Z
  <2>1. ASSUME NEW x \in s
        PROVE  Sum(s) = f[x] + Sum(s \ {x})
    <3> DEFINE c == Picked(s)
    <3>1. c \in s /\ Sum(s) = f[c] + Sum(s \ {c})
      BY <1>0, SumUnfold
    <3>2. CASE c = x
      BY <3>1, <3>2
    <3>3. CASE c # x
      <4>1. Sum(s \ {c}) = f[x] + Sum((s \ {c}) \ {x})
        BY <1>1, <3>1, <3>3
      <4>2. Sum(s \ {x}) = f[c] + Sum((s \ {x}) \ {c})
        BY <1>1, <3>1, <3>3
      <4>3. (s \ {x}) \ {c} = (s \ {c}) \ {x}
        OBVIOUS
      <4>4. f[x] \in Int /\ f[c] \in Int /\ Sum((s \ {c}) \ {x}) \in Int
        <5>1. (s \ {c}) \ {x} \in SUBSET S
          OBVIOUS
        <5>2. QED
          BY <1>0, <3>1, <5>1
      <4>5. \A a, b, m \in Int : a + (b + m) = b + (a + m)
        OBVIOUS
      <4> HIDE DEF Sum, c
      <4>6. f[c] + (f[x] + Sum((s \ {c}) \ {x})) = f[x] + (f[c] + Sum((s \ {c}) \ {x}))
        BY <4>4, <4>5
      <4>7. QED
        BY <3>1, <4>1, <4>2, <4>3, <4>6
    <3>4. QED
      BY <3>2, <3>3
  <2>2. QED
    BY <2>1
<1> HIDE DEF Z
<1>2. \A s \in SUBSET S : s \in Z
  BY <1>1, AllSubsets
<1>3. S \in Z
  BY <1>2
<1>4. QED
  BY <1>3 DEF Z

(* A sum looks at the values on its set only.                              *)
LEMMA SumSame ==
  ASSUME NEW f, NEW g, NEW S, IsFiniteSet(S), \A x \in S : f[x] = g[x]
  PROVE  SumFunctionOnSet(f, S) = SumFunctionOnSet(g, S)
<1> DEFINE Z == {s \in SUBSET S : SumFunctionOnSet(f, s) = SumFunctionOnSet(g, s)}
<1>0. \A s \in SUBSET S : IsFiniteSet(s)
  BY FS_Subset
<1>1. ASSUME NEW s \in SUBSET S, \A x \in s : s \ {x} \in Z
      PROVE  s \in Z
  <2>1. CASE s = {}
    BY <1>0, <2>1, SumUnfold
  <2>2. CASE s # {}
    <3>1. /\ Picked(s) \in s
          /\ SumFunctionOnSet(f, s) = f[Picked(s)] + SumFunctionOnSet(f, s \ {Picked(s)})
          /\ SumFunctionOnSet(g, s) = g[Picked(s)] + SumFunctionOnSet(g, s \ {Picked(s)})
      BY <1>0, <2>2, SumUnfold
    <3>2. SumFunctionOnSet(f, s \ {Picked(s)}) = SumFunctionOnSet(g, s \ {Picked(s)})
      BY <1>1, <3>1
    <3>3. QED
      BY <3>1, <3>2
  <2>3. QED
    BY <2>1, <2>2
<1> HIDE DEF Z
<1>2. \A s \in SUBSET S : s \in Z
  BY <1>1, AllSubsets
<1>3. S \in Z
  BY <1>2
<1>4. QED
  BY <1>3 DEF Z

(* T is S, a set of rows 1..n, to which the next row m may have been       *)
(* added; g counts the rows of S as f did.                                 *)
Extends(S, f, T, g, n, m) ==
  /\ n \in Nat /\ m = n + 1
  /\ S \in SUBSET (1..n)
  /\ T = S \/ T = S \cup {m}
  /\ \A x \in S : f[x] \in Int /\ g[x] = f[x]
  /\ g[m] \in Int

(* What a sum becomes when the next row joins the rows it is taken over.   *)
LEMMA SumAppended ==
  ASSUME NEW S, NEW f, NEW T, NEW g, NEW n, NEW m, Extends(S, f, T, g, n, m)
  PROVE  /\ SumFunctionOnSet(f, S) \in Int
         /\ m \notin T => SumFunctionOnSet(g, T) = SumFunctionOnSet(f, S)
         /\ m \in T => SumFunctionOnSet(g, T) = SumFunctionOnSet(f, S) + g[m]
<1>0. /\ n \in Nat /\ m = n + 1
      /\ S \in SUBSET (1..n)
      /\ T = S \/ T = S \cup {m}
      /\ \A x \in S : f[x] \in Int /\ g[x] = f[x]
      /\ g[m] \in Int
  BY DEF Extends
<1>1. IsFiniteSet(S) /\ IsFiniteSet(T)
  <2>1. IsFiniteSet(1..n)
    BY <1>0, FS_Interval
  <2>2. IsFiniteSet(S)
    BY <1>0, <2>1, FS_Subset
  <2>3. IsFiniteSet(S \cup {m})
    BY <2>2, FS_AddElement
  <2>4. QED
    BY <1>0, <2>2, <2>3
<1>2. SumFunctionOnSet(f, S) \in Int
  BY <1>0, <1>1, SumType
<1>3. SumFunctionOnSet(g, S) = SumFunctionOnSet(f, S)
  BY <1>0, <1>1, SumSame
<1>4. m \notin S
  BY <1>0
<1>5. ASSUME m \in T
      PROVE  SumFunctionOnSet(g, T) = SumFunctionOnSet(f, S) + g[m]
  <2>1. T \ {m} = S /\ \A x \in T : g[x] \in Int
    BY <1>0, <1>4, <1>5
  <2>2. SumFunctionOnSet(g, T) = g[m] + SumFunctionOnSet(g, S)
    BY <1>1, <1>5, <2>1, SumRemove
  <2>3. QED
    BY <1>0, <1>2, <1>3, <1>5, <2>2
<1>6. QED
  BY <1>0, <1>2, <1>3, <1>4, <1>5

-------------------------------------------------------------------------------
(***************************************************************************)
(* The receipt ledger.  Every booking checks the sums the ledger has after *)
(* it and sets the payment's status from them; nothing else that touches   *)
(* a payment touches one with money on it.                                 *)
(***************************************************************************)

(* A reversal is booked after what it reverses.                            *)
ReversesBooked ==
    \A r \in DOMAIN receipts : receipts[r].reverses \in {0} \cup DOMAIN receipts

Signed(entry) == IF entry.reverses = 0 THEN entry.amount ELSE -entry.amount

LEMMA ReceiptElements ==
  ASSUME IInv
  PROVE  /\ receipts \in Seq(ReceiptRecord) /\ Len(receipts) \in Nat
         /\ DOMAIN receipts = 1..Len(receipts)
         /\ \A r \in DOMAIN receipts :
               /\ receipts[r] \in ReceiptRecord
               /\ receipts[r].amount \in Nat \ {0} /\ Signed(receipts[r]) \in Int
<1>1. receipts \in Seq(ReceiptRecord)
  BY DEF IInv, DocumentsTypeOK
<1>2. \A entry \in ReceiptRecord : entry.amount \in Nat \ {0} /\ Signed(entry) \in Int
  BY AmountsAssumption DEF ReceiptRecord, Signed
<1>3. QED
  BY <1>1, <1>2

(* A booked row counts for its payment, with its sign.                     *)
LEMMA NetBooked ==
  ASSUME IInv, NEW entry \in ReceiptRecord, receipts' = Append(receipts, entry), NEW p
  PROVE  /\ Net({p}) \in Int
         /\ entry.payment # p => Net({p})' = Net({p})
         /\ entry.payment = p => Net({p})' = Net({p}) + Signed(entry)
<1> DEFINE n == Len(receipts)
           f == [r \in DOMAIN receipts |-> IF receipts[r].reverses = 0
                                           THEN receipts[r].amount ELSE -receipts[r].amount]
           g == [r \in DOMAIN receipts' |-> IF receipts'[r].reverses = 0
                                            THEN receipts'[r].amount ELSE -receipts'[r].amount]
           S == {r \in DOMAIN receipts : receipts[r].payment \in {p}}
           T == {r \in DOMAIN receipts' : receipts'[r].payment \in {p}}
<1>1. Net({p}) = SumFunctionOnSet(f, S) /\ Net({p})' = SumFunctionOnSet(g, T)
  BY DEF Net
<1>2. /\ n \in Nat /\ DOMAIN receipts = 1..n /\ DOMAIN receipts' = 1..n \cup {n + 1}
      /\ receipts'[n + 1] = entry /\ \A r \in 1..n : receipts'[r] = receipts[r]
  BY ReceiptElements, AppendTo
<1>3. /\ \A r \in S : f[r] \in Int /\ g[r] = f[r]
      /\ g[n + 1] = Signed(entry) /\ Signed(entry) \in Int
  <2>1. Signed(entry) \in Int
    BY AmountsAssumption DEF Signed, ReceiptRecord
  <2>2. \A r \in DOMAIN receipts : f[r] = Signed(receipts[r]) /\ g[r] = f[r]
    BY <1>2 DEF Signed
  <2>3. g[n + 1] = Signed(entry)
    BY <1>2 DEF Signed
  <2>4. QED
    BY <2>1, <2>2, <2>3, ReceiptElements
<1>4. /\ S \in SUBSET (1..n)
      /\ T = IF entry.payment = p THEN S \cup {n + 1} ELSE S
  BY <1>2
<1>5. n + 1 \in T <=> entry.payment = p
  BY <1>2
<1> HIDE DEF n, f, g, S, T
<1>6. /\ SumFunctionOnSet(f, S) \in Int
      /\ n + 1 \notin T => SumFunctionOnSet(g, T) = SumFunctionOnSet(f, S)
      /\ n + 1 \in T => SumFunctionOnSet(g, T) = SumFunctionOnSet(f, S) + g[n + 1]
  <2>1. T = S \/ T = S \cup {n + 1}
    BY <1>4
  <2>2. g[n + 1] \in Int
    BY <1>3
  <2>3. n \in Nat /\ S \in SUBSET (1..n)
    BY <1>2, <1>4
  <2>4. \A x \in S : f[x] \in Int /\ g[x] = f[x]
    BY <1>3
  <2>5. Extends(S, f, T, g, n, n + 1)
    BY <2>1, <2>2, <2>3, <2>4 DEF Extends
  <2>6. QED
    BY <2>5, SumAppended
<1>7. QED
  BY <1>1, <1>3, <1>5, <1>6

(* A booked reversal counts for what it reverses.                          *)
LEMMA ReversedBooked ==
  ASSUME IInv, NEW entry \in ReceiptRecord, receipts' = Append(receipts, entry), NEW q
  PROVE  /\ ReversedOf(q) \in Int
         /\ entry.reverses # q => ReversedOf(q)' = ReversedOf(q)
         /\ entry.reverses = q => ReversedOf(q)' = ReversedOf(q) + entry.amount
<1> DEFINE n == Len(receipts)
           f == [r \in DOMAIN receipts |-> receipts[r].amount]
           g == [r \in DOMAIN receipts' |-> receipts'[r].amount]
           S == {r \in DOMAIN receipts : receipts[r].reverses = q}
           T == {r \in DOMAIN receipts' : receipts'[r].reverses = q}
<1>1. ReversedOf(q) = SumFunctionOnSet(f, S) /\ ReversedOf(q)' = SumFunctionOnSet(g, T)
  BY DEF ReversedOf
<1>2. /\ n \in Nat /\ DOMAIN receipts = 1..n /\ DOMAIN receipts' = 1..n \cup {n + 1}
      /\ receipts'[n + 1] = entry /\ \A r \in 1..n : receipts'[r] = receipts[r]
  BY ReceiptElements, AppendTo
<1>3. /\ \A r \in S : f[r] \in Int /\ g[r] = f[r]
      /\ g[n + 1] = entry.amount /\ entry.amount \in Int
  <2>1. entry.amount \in Int
    BY AmountsAssumption DEF ReceiptRecord
  <2>2. QED
    BY <1>2, <2>1, ReceiptElements
<1>4. /\ S \in SUBSET (1..n)
      /\ T = IF entry.reverses = q THEN S \cup {n + 1} ELSE S
  BY <1>2
<1>5. n + 1 \in T <=> entry.reverses = q
  BY <1>2
<1> HIDE DEF n, f, g, S, T
<1>6. /\ SumFunctionOnSet(f, S) \in Int
      /\ n + 1 \notin T => SumFunctionOnSet(g, T) = SumFunctionOnSet(f, S)
      /\ n + 1 \in T => SumFunctionOnSet(g, T) = SumFunctionOnSet(f, S) + g[n + 1]
  <2>1. T = S \/ T = S \cup {n + 1}
    BY <1>4
  <2>2. g[n + 1] \in Int
    BY <1>3
  <2>3. n \in Nat /\ S \in SUBSET (1..n)
    BY <1>2, <1>4
  <2>4. \A x \in S : f[x] \in Int /\ g[x] = f[x]
    BY <1>3
  <2>5. Extends(S, f, T, g, n, n + 1)
    BY <2>1, <2>2, <2>3, <2>4 DEF Extends
  <2>6. QED
    BY <2>5, SumAppended
<1>7. QED
  BY <1>1, <1>3, <1>5, <1>6

(* Without rows there is nothing to add up.                                *)
LEMMA NothingBooked ==
  ASSUME NEW p
  PROVE  /\ (\A r \in DOMAIN receipts : receipts[r].payment # p) => Net({p}) = 0
         /\ (\A r \in DOMAIN receipts : receipts[r].reverses # p) => ReversedOf(p) = 0
<1>1. \A f : SumFunctionOnSet(f, {}) = 0
  BY FS_EmptySet, SumUnfold
<1>2. ASSUME \A r \in DOMAIN receipts : receipts[r].payment # p
      PROVE  Net({p}) = 0
  <2>1. {r \in DOMAIN receipts : receipts[r].payment \in {p}} = {}
    BY <1>2
  <2>2. QED
    BY <1>1, <2>1 DEF Net
<1>3. ASSUME \A r \in DOMAIN receipts : receipts[r].reverses # p
      PROVE  ReversedOf(p) = 0
  <2>1. {r \in DOMAIN receipts : receipts[r].reverses = p} = {}
    BY <1>3
  <2>2. QED
    BY <1>1, <2>1 DEF ReversedOf
<1>4. QED
  BY <1>2, <1>3

(* ReceiptLedgerBalanced, payment by payment and row by row.               *)
PaymentBalanced(p) ==
    CASE payments[p].status = "received" -> Net({p}) = payments[p].amount
      [] payments[p].status = "partiallyReceived" ->
            Net({p}) \in 1..payments[p].amount - 1
      [] OTHER -> Net({p}) = 0

RowBalanced(r) == receipts[r].reverses = 0 => ReversedOf(r) <= receipts[r].amount

Balance == /\ ReversesBooked
           /\ \A p \in DOMAIN payments : PaymentBalanced(p)
           /\ \A r \in DOMAIN receipts : RowBalanced(r)

Books == IInv /\ ReceiptsNamePayments /\ Balance

(* A booking that leaves the payment a net amount it can have.             *)
LEMMA BookBalance ==
  ASSUME Books, NEW p \in DOMAIN payments, NEW entry \in ReceiptRecord,
         entry.payment = p, Book(p, Net({p}) + Signed(entry), entry),
         entry.reverses # 0 => entry.reverses \in DOMAIN receipts
                               /\ Reversible(entry.reverses, entry.amount)
  PROVE  Balance'
<1> DEFINE n == Len(receipts)
           net == Net({p}) + Signed(entry)
           status == ProjectedStatus(net, payments[p].amount)
<1>0. IInv /\ ReceiptsNamePayments /\ Balance
  BY DEF Books
<1>1. /\ receipts' = Append(receipts, entry) /\ net \in 0..payments[p].amount
      /\ payments' = [payments EXCEPT ![p].status = status]
  BY DEF Book
<1>2. /\ n \in Nat /\ DOMAIN receipts = 1..n /\ DOMAIN receipts' = 1..n \cup {n + 1}
      /\ receipts'[n + 1] = entry /\ \A r \in 1..n : receipts'[r] = receipts[r]
  BY <1>0, <1>1, ReceiptElements, AppendTo
<1>3. ReversesBooked'
  BY <1>0, <1>2 DEF ReversesBooked, Balance
<1>4. ASSUME NEW q \in DOMAIN payments'
      PROVE  PaymentBalanced(q)'
  <2>1. q \in DOMAIN payments /\ payments[q] \in PaymentRecord
    BY <1>0, <1>1, Elements DEF IInv
  <2>2. CASE q = p
    <3>1. Net({q})' = net
      BY <1>0, <1>1, <2>2, NetBooked
    <3>2. payments'[q].status = status /\ payments'[q].amount = payments[p].amount
      BY <1>1, <2>1, <2>2 DEF PaymentRecord
    <3>3. payments[p].amount \in Nat \ {0}
      BY <2>1, <2>2, AmountsAssumption DEF PaymentRecord
    <3> HIDE DEF net
    <3>4. \/ status = "received" /\ net = payments[p].amount
          \/ status = "partiallyReceived" /\ net \in 1..payments[p].amount - 1
          \/ status = "requested" /\ net = 0
      BY <1>1, <3>3 DEF ProjectedStatus
    <3> HIDE DEF status
    <3>5. QED
      BY <3>1, <3>2, <3>4 DEF PaymentBalanced
  <2>3. CASE q # p
    <3>1. Net({q})' = Net({q})
      BY <1>0, <1>1, <2>3, NetBooked
    <3>2. payments'[q] = payments[q]
      BY <1>1, <2>1, <2>3
    <3>3. PaymentBalanced(q)
      BY <1>0, <2>1 DEF Balance
    <3>4. QED
      BY <3>1, <3>2, <3>3 DEF PaymentBalanced
  <2>4. QED
    BY <2>2, <2>3
<1>5. ASSUME NEW r \in DOMAIN receipts', receipts'[r].reverses = 0
      PROVE  ReversedOf(r)' <= receipts'[r].amount
  <2>1. /\ ReversedOf(r) \in Int
        /\ entry.reverses # r => ReversedOf(r)' = ReversedOf(r)
        /\ entry.reverses = r => ReversedOf(r)' = ReversedOf(r) + entry.amount
    BY <1>0, <1>1, ReversedBooked
  <2>2. CASE r \in 1..n
    <3>1. receipts'[r] = receipts[r] /\ RowBalanced(r)
      BY <1>0, <1>2, <2>2 DEF Balance
    <3>2. CASE entry.reverses = r
      BY <1>2, <2>1, <2>2, <3>1, <3>2 DEF Reversible
    <3>3. CASE entry.reverses # r
      BY <1>5, <2>1, <3>1, <3>3 DEF RowBalanced
    <3>4. QED
      BY <3>2, <3>3
  <2>3. CASE r = n + 1
    <3>1. receipts'[r] = entry /\ entry.reverses = 0 /\ entry.reverses # r
      BY <1>2, <1>5, <2>3
    <3>2. \A v \in DOMAIN receipts : receipts[v].reverses # r
      BY <1>0, <1>2, <2>3 DEF ReversesBooked, Balance
    <3>3. ReversedOf(r) = 0
      BY <3>2, NothingBooked
    <3>4. entry.amount \in Nat
      BY AmountsAssumption DEF ReceiptRecord
    <3>5. QED
      BY <2>1, <3>1, <3>3, <3>4
  <2>4. QED
    BY <1>2, <2>2, <2>3
<1>6. QED
  BY <1>3, <1>4, <1>5 DEF Balance, RowBalanced

(* A change of payments without a booking is balanced if what it changes   *)
(* has no money on it before and after.                                    *)
Unpaid(status) == status \in {"planned", "requested", "canceled"}

LEMMA PlanBalance ==
  ASSUME Books, UNCHANGED receipts,
         \A p \in DOMAIN payments' :
            \/ p \in DOMAIN payments /\ payments'[p] = payments[p]
            \/ /\ p \in DOMAIN payments => Unpaid(payments[p].status)
               /\ Unpaid(payments'[p].status)
  PROVE  Balance'
<1>1. \A p : Net({p})' = Net({p}) /\ ReversedOf(p)' = ReversedOf(p)
  BY DEF Net, ReversedOf
<1>2. ASSUME NEW p \in DOMAIN payments'
      PROVE  PaymentBalanced(p)'
  <2>1. Net({p})' = Net({p})
    BY <1>1
  <2>2. CASE p \in DOMAIN payments /\ payments'[p] = payments[p]
    <3>1. PaymentBalanced(p)
      BY <2>2 DEF Books, Balance
    <3>2. QED
      BY <2>1, <2>2, <3>1 DEF PaymentBalanced
  <2>3. CASE /\ p \in DOMAIN payments => Unpaid(payments[p].status)
             /\ Unpaid(payments'[p].status)
    <3>1. Net({p}) = 0
      <4>1. CASE p \in DOMAIN payments
        <5>1. PaymentBalanced(p) /\ Unpaid(payments[p].status)
          BY <2>3, <4>1 DEF Books, Balance
        <5>2. QED
          BY <5>1 DEF PaymentBalanced, Unpaid
      <4>2. CASE p \notin DOMAIN payments
        BY <4>2, NothingBooked DEF Books, ReceiptsNamePayments
      <4>3. QED
        BY <4>1, <4>2
    <3>2. payments'[p].status # "received" /\ payments'[p].status # "partiallyReceived"
      BY <2>3 DEF Unpaid
    <3>3. QED
      BY <2>1, <3>1, <3>2 DEF PaymentBalanced
  <2>4. QED
    BY <2>2, <2>3
<1>3. ReversesBooked' /\ \A r \in DOMAIN receipts' : RowBalanced(r)'
  BY <1>1 DEF Books, Balance, ReversesBooked, RowBalanced
<1>4. QED
  BY <1>2, <1>3 DEF Balance

LEMMA DocumentsBalance ==
  ASSUME Books, DocumentStep
  PROVE  Balance'
<1>1. ASSUME NEW d \in DOMAIN documents, GenerateDocument(d)
      PROVE  Balance'
  <2> DEFINE p == documents[d].payment
  <2>1. CASE UNCHANGED payments
    BY <1>1, <2>1, PlanBalance DEF GenerateDocument
  <2>2. CASE /\ payments[p].status = "planned"
             /\ payments' = [payments EXCEPT ![p].status = "requested"]
    <3>1. UNCHANGED receipts /\ DOMAIN payments' = DOMAIN payments
      BY <1>1, <2>2 DEF GenerateDocument
    <3>2. ASSUME NEW q \in DOMAIN payments
          PROVE  \/ payments'[q] = payments[q]
                 \/ Unpaid(payments[q].status) /\ Unpaid(payments'[q].status)
      <4>1. payments[q] \in PaymentRecord
        BY Elements DEF Books, IInv
      <4>2. CASE q = p
        BY <2>2, <4>1, <4>2 DEF Unpaid, PaymentRecord
      <4>3. CASE q # p
        BY <2>2, <4>3
      <4>4. QED
        BY <4>2, <4>3
    <3>3. QED
      BY <3>1, <3>2, PlanBalance
  <2>3. QED
    BY <1>1, <2>1, <2>2 DEF GenerateDocument
<1>2. CASE UNCHANGED <<payments, receipts>>
  BY <1>2, PlanBalance
<1>3. QED
  BY <1>1, <1>2 DEF DocumentStep, CreateDocument, PrepareAcceptance,
     PromoteReviewedContract, ChangeDocumentStatus, ConfirmQuote, UpdateProfile,
     AdoptRequirement, CreateAcceptanceBatch, UpsertAcceptanceMaterial

LEMMA LedgerBalance ==
  ASSUME Books, LedgerStep
  PROVE  Balance'
<1>0. IInv /\ ReceiptsNamePayments /\ \A q \in DOMAIN payments : payments[q] \in PaymentRecord
  BY Elements DEF Books, IInv
<1>1. ASSUME NEW amount \in Amounts, PlanPayment(amount)
      PROVE  Balance'
  <2> DEFINE new == [amount |-> amount, status |-> "planned"]
  <2>1. /\ payments' = Append(payments, new) /\ UNCHANGED receipts
        /\ payments \in Seq(PaymentRecord) /\ new \in PaymentRecord
    BY <1>0, <1>1 DEF PlanPayment, IInv, DocumentsTypeOK, PaymentRecord, PaymentStatuses
  <2>2. Unpaid(new.status)
    BY DEF Unpaid
  <2> HIDE DEF new
  <2>3. ASSUME NEW p \in DOMAIN payments'
        PROVE  \/ p \in DOMAIN payments /\ payments'[p] = payments[p]
               \/ p \notin DOMAIN payments /\ payments'[p] = new
    BY <2>1, AppendTo
  <2>4. QED
    BY <2>1, <2>2, <2>3, PlanBalance
<1>2. ASSUME NEW amount \in Amounts, IssueInvoice(amount)
      PROVE  Balance'
  BY <1>2, PlanBalance DEF IssueInvoice
<1>3. ASSUME NEW i \in DOMAIN invoices, NEW amount \in Amounts, CorrectInvoice(i, amount)
      PROVE  Balance'
  BY <1>3, PlanBalance DEF CorrectInvoice
<1>4. ASSUME NEW p \in DOMAIN payments, CancelPayment(p)
      PROVE  Balance'
  <2>1. /\ UNCHANGED receipts /\ Unpaid(payments[p].status)
        /\ payments' = [payments EXCEPT ![p].status = "canceled"]
    BY <1>4 DEF CancelPayment, Unpaid
  <2>2. DOMAIN payments' = DOMAIN payments /\ payments'[p].status = "canceled"
        /\ \A q \in DOMAIN payments : q # p => payments'[q] = payments[q]
    BY <1>0, <2>1 DEF PaymentRecord
  <2>3. QED
    BY <2>1, <2>2, PlanBalance DEF Unpaid
<1>5. ASSUME NEW p \in DOMAIN payments, NEW amount \in Amounts, EditPayment(p, amount)
      PROVE  Balance'
  <2>1. /\ UNCHANGED receipts /\ payments[p].status = "planned"
        /\ payments' = [payments EXCEPT ![p].amount = amount]
    BY <1>5 DEF EditPayment
  <2>2. DOMAIN payments' = DOMAIN payments /\ payments'[p].status = "planned"
        /\ \A q \in DOMAIN payments : q # p => payments'[q] = payments[q]
    BY <1>0, <2>1 DEF PaymentRecord
  <2>3. QED
    BY <2>1, <2>2, PlanBalance DEF Unpaid
<1>6. ASSUME NEW p \in DOMAIN payments, NEW amount \in Amounts, RecordReceipt(p, amount)
      PROVE  Balance'
  <2> DEFINE entry == [payment |-> p, amount |-> amount, reverses |-> 0]
  <2>1. entry \in ReceiptRecord
    BY <1>0, Elements DEF IInv, ReceiptRecord
  <2>2. entry.payment = p /\ entry.reverses = 0 /\ Signed(entry) = amount
    BY DEF Signed
  <2>3. Book(p, Net({p}) + amount, entry)
    BY <1>6 DEF RecordReceipt
  <2> HIDE DEF entry
  <2>4. QED
    BY <2>1, <2>2, <2>3, BookBalance
<1>7. ASSUME NEW r \in DOMAIN receipts, NEW amount \in Amounts, ReverseReceipt(r, amount)
      PROVE  Balance'
  <2> DEFINE p == receipts[r].payment
             entry == [payment |-> p, amount |-> amount, reverses |-> r]
  <2>1. p \in DOMAIN payments /\ r \in Nat \ {0} /\ amount \in Nat
    BY <1>0, ReceiptElements, AmountsAssumption DEF ReceiptsNamePayments
  <2>2. entry \in ReceiptRecord
    BY <1>0, <2>1, Elements DEF IInv, ReceiptRecord
  <2>3. entry.payment = p /\ entry.reverses = r /\ entry.amount = amount
        /\ Signed(entry) = -amount
    BY <2>1 DEF Signed
  <2>4. Book(p, Net({p}) - amount, entry) /\ Reversible(r, amount)
    BY <1>7 DEF ReverseReceipt
  <2> HIDE DEF entry, p
  <2>5. receipts' = Append(receipts, entry)
    BY <2>4 DEF Book
  <2>6. Net({p}) \in Int
    BY <1>0, <2>2, <2>5, NetBooked
  <2>7. Net({p}) - amount = Net({p}) + Signed(entry)
    BY <2>1, <2>3, <2>6
  <2>8. QED
    BY <2>1, <2>2, <2>3, <2>4, <2>7, BookBalance
<1>8. QED
  BY <1>1, <1>2, <1>3, <1>4, <1>5, <1>6, <1>7 DEF LedgerStep

(* A payment's status is the one its receipts less reversals amount to,    *)
(* and no receipt is reversed beyond itself, for any amounts and any       *)
(* number of payments and receipts.                                        *)
THEOREM ReceiptsBalanced == Spec => []ReceiptLedgerBalanced
<1>1. Init => Balance
  BY DEF Init, DocumentsInit, Balance, ReversesBooked
<1>2. Inv /\ Balance /\ [Next]_vars => Balance'
  <2> SUFFICES ASSUME Inv, Balance, [Next]_vars PROVE Balance'
    OBVIOUS
  <2>1. Books
    BY DEF Inv, Books
  <2>2. CASE DocumentsNext
    BY <2>1, <2>2, DocumentsBalance, LedgerBalance DEF DocumentsNext
  <2>3. CASE UNCHANGED <<payments, receipts>>
    BY <2>1, <2>3, PlanBalance
  <2>4. DocumentsNext \/ UNCHANGED <<payments, receipts>>
    BY DEF Next, ClosureStep, CreateArchiveSnapshot, ChangeWorkspaceStatus,
       CustomerEdited, vars, documentVars
  <2>5. QED
    BY <2>2, <2>3, <2>4
<1>3. Balance => ReceiptLedgerBalanced
  BY DEF Balance, PaymentBalanced, RowBalanced, ReceiptLedgerBalanced
<1>4. QED
  BY <1>1, <1>2, <1>3, Invariance, PTL DEF Spec
==============================================================================
