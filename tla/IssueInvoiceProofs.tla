--------------------------- MODULE IssueInvoiceProofs ---------------------------
(***************************************************************************)
(* The safety properties of IssueInvoice, for every set of requests,       *)
(* customers, keys, series and inputs.                                     *)
(***************************************************************************)
EXTENDS IssueInvoice, TLAPS

BeforeARCA == {"idle", "lookup", "type", "user", "credential", "build",
               "last", "voucher"}
Answering  == {"await", "persist", "persistRejected"}
PastBuild  == {"last", "voucher"} \cup Answering
PastLookup == {"type", "user", "credential", "build"} \cup PastBuild

\* ARCA's numbering: a number is given exactly to the approved requests, lies
\* within its book and is given once.
NumberInv ==
    /\ \A r \in Request :
        /\ number[r] # 0 => number[r] <= last[BookOf(r)]
        /\ number[r] # 0 <=> arca[r] = "approved"
    /\ \A r, s \in Request :
        r # s /\ BookOf(r) = BookOf(s) /\ number[r] # 0 => number[r] # number[s]

\* What the position of a goroutine says of the state it has reached.
ControlInv ==
    \A r \in Request :
        /\ pc[r] \notin {"reply", "done"} =>
              code[r] = "none" /\ ref[r] = r /\ stored[r] = "absent"
        /\ pc[r] \in BeforeARCA => arca[r] = "none"
        /\ pc[r] \in {"build", "last", "voucher"} \/ arca[r] # "none" => issuer[r] \in Cuit
        /\ pc[r] = "persist" => inv[r].status = "issued"
        /\ pc[r] = "persistRejected" => inv[r].status = "rejected"
        /\ inv[r].status = "issued" =>
              arca[r] = "approved" /\ inv[r].voucher = number[r]

\* A goroutine past the lookup had no earlier invoice of its key, and what was
\* stored stays stored.
RetryInv ==
    /\ \A r \in Request : \A s \in prior[r] : stored[s] # "absent"
    /\ \A r \in Request : pc[r] \in PastLookup \/ arca[r] # "none" =>
          \A s \in prior[r] : ~SameKey(r, s)

\* The checks a goroutine has passed when it reaches a step, and that whatever
\* reached ARCA has passed.
CheckInv ==
    \A r \in Request :
        /\ pc[r] \in {"lookup"} \cup PastLookup \/ arca[r] # "none" =>
              "body" \notin input[r].defects
        /\ pc[r] \in PastLookup \ {"type"} \/ arca[r] # "none" =>
              "type" \notin input[r].defects
        /\ pc[r] \in PastLookup \ {"type", "user"} \/ arca[r] # "none" =>
              input[r].customer \in Registered
        /\ pc[r] \in PastBuild \/ arca[r] # "none" =>
              input[r].defects \cap {"item", "invoice"} = {}

\* A credential that may still be read has been usable since the request arrived,
\* and so was the one that was read.
UsableInv ==
    \A r \in Request :
        /\ BeforeRead(r) => Unexpired(input[r].customer) \subseteq usable[r]
        /\ pc[r] \in PastBuild \cup {"build"} \/ arca[r] # "none" =>
              issuer[r] \in usable[r]

\* What has come of a request that waits for ARCA, and of one with an answer that
\* leaves the client in doubt.
AnswerInv ==
    \A r \in Request :
        /\ pc[r] \in Answering => arca[r] # "none"
        /\ pc[r] = "reply" => code[r] # "none" /\ code[r] # "aborted"
        /\ code[r] = "arca_rejected" => arca[r] # "none" /\ stored[r] # "issued"
        /\ code[r] = "database_error" =>
              \/ arca[r] = "none" /\ stored[r] = "absent"
              \/ arca[r] = "approved" /\ stored[r] # "rejected"

IndInv ==
    /\ TypeOK
    /\ NumberInv
    /\ ControlInv
    /\ IssuedMeansAuthorised
    /\ CreatedMeansStored
    /\ CleanFailure
    /\ RetryInv
    /\ CheckInv
    /\ UsableInv
    /\ AnswerInv

-----------------------------------------------------------------------------
\* The book of a request that has read a credential is one of the books.
LEMMA BookTyped ==
    ASSUME TypeOK, NEW r \in Request
    PROVE  /\ input[r] \in InputType
           /\ issuer[r] \in Cuit => BookOf(r) \in Book
<1>1. input[r] \in InputType
  BY ConstantsAssumption DEF TypeOK
<1> QED
  BY <1>1 DEF InputType, BookOf, Book

\* The invoices that NewInvoice and a crash leave are invoices.
LEMMA InvoiceTyped ==
    /\ NoInvoice \in Invoice
    /\ [status |-> "pending", voucher |-> 0] \in Invoice
BY DEF NoInvoice, Invoice, Status

\* The state variables keep their types (every handler step, ARCA, a crash).
LEMMA TypeStep ==
    ASSUME TypeOK, ControlInv, [Next]_vars
    PROVE  TypeOK'
<1> USE DEF TypeOK
<1>1. ASSUME NEW r \in Request, IssueInvoice(r) PROVE TypeOK'
  <2>1. input[r].customer \in Customer
    BY BookTyped DEF InputType
  <2>2. Unexpired(input[r].customer) \subseteq Cuit
    BY <2>1 DEF Unexpired, CredentialRow
  <2>3. pc' \in [Request -> Step] /\ code' \in [Request -> Outcome]
    BY <1>1 DEF IssueInvoice, Goto, Return, Step, Outcome, CleanCode
  <2>4. usable' \in [Request -> SUBSET Cuit] /\ prior' \in [Request -> SUBSET Request]
    BY <1>1, <2>2 DEF IssueInvoice, Stored
  <2> QED
    BY <1>1, <2>3, <2>4 DEF IssueInvoice, arcaVars
<1>2. ASSUME NEW r \in Request, Handle(r) PROVE TypeOK'
  <2> USE DEF Goto, Return, Step, Outcome, CleanCode, arcaVars, credVars
  <2>1. CASE GetByIdempotencyKey(r)
    <3>1. pc' \in [Request -> Step] /\ code' \in [Request -> Outcome]
      <4>1. pc' = [pc EXCEPT ![r] = "type"] \/ pc' = [pc EXCEPT ![r] = "reply"]
        BY <2>1 DEF GetByIdempotencyKey
      <4>2. \/ UNCHANGED code
            \/ code' = [code EXCEPT ![r] = "created"]
            \/ code' = [code EXCEPT ![r] = "database_error"]
        BY <2>1 DEF GetByIdempotencyKey
      <4> QED
        BY <4>1, <4>2
    <3>2. ref' \in [Request -> Request]
      BY <2>1 DEF GetByIdempotencyKey, Matches, Stored
    <3> QED
      BY <2>1, <3>1, <3>2 DEF GetByIdempotencyKey
  <2>2. CASE LookupPanics(r)
    BY <2>2 DEF LookupPanics
  <2>3. CASE ParseInvoiceType(r)
    BY <2>3 DEF ParseInvoiceType
  <2>4. CASE GetByID(r)
    BY <2>4 DEF GetByID
  <2>5. CASE GetByCustomerAndEnvironment(r)
    <3>1. input[r].customer \in Customer
      BY BookTyped DEF InputType
    <3>2. Unexpired(input[r].customer) \subseteq Cuit
      BY <3>1 DEF Unexpired, CredentialRow
    <3>3. issuer' \in [Request -> Cuit \cup {NoCuit}]
      <4>1. \/ \E q \in Unexpired(input[r].customer) : issuer' = [issuer EXCEPT ![r] = q]
            \/ UNCHANGED issuer
        BY <2>5 DEF GetByCustomerAndEnvironment
      <4> QED
        BY <3>2, <4>1
    <3>4. pc' \in [Request -> Step] /\ code' \in [Request -> Outcome]
      <4>1. pc' = [pc EXCEPT ![r] = "build"] \/ pc' = [pc EXCEPT ![r] = "reply"]
        BY <2>5 DEF GetByCustomerAndEnvironment
      <4>2. \/ UNCHANGED code
            \/ code' = [code EXCEPT ![r] = "arca_authentication_failed"]
            \/ code' = [code EXCEPT ![r] = "database_error"]
        BY <2>5 DEF GetByCustomerAndEnvironment
      <4> QED
        BY <4>1, <4>2
    <3>5. usable' \in [Request -> SUBSET Cuit]
      BY <2>5 DEF GetByCustomerAndEnvironment
    <3> QED
      BY <2>5, <3>3, <3>4, <3>5 DEF GetByCustomerAndEnvironment
  <2>6. CASE NewInvoice(r)
    <3>1. inv' \in [Request -> Invoice]
      BY <2>6, InvoiceTyped DEF NewInvoice
    <3>2. pc' \in [Request -> Step] /\ code' \in [Request -> Outcome]
      BY <2>6 DEF NewInvoice
    <3> QED
      BY <2>6, <3>1, <3>2 DEF NewInvoice
  <2>7. CASE GetLastVoucher(r)
    <3>1. last[BookOf(r)] \in Nat
      BY <2>7, BookTyped DEF GetLastVoucher, ControlInv
    <3>2. voucherNumber' \in [Request -> Nat]
      BY <2>7, <3>1 DEF GetLastVoucher
    <3> QED
      BY <2>7, <3>2 DEF GetLastVoucher
  <2>8. CASE CreateVoucher(r)
    BY <2>8 DEF CreateVoucher, VoucherState
  <2>9. CASE MarkIssued(r)
    BY <2>9 DEF MarkIssued, Invoice, Status
  <2>10. CASE MarkRejected(r)
    BY <2>10 DEF MarkRejected, Invoice, Status
  <2>11. CASE Create(r)
    <3>1. inv[r].status = "issued"
      BY <2>11 DEF Create, ControlInv
    <3>2. stored' \in [Request -> Row]
      BY <2>11, <3>1 DEF Create, Row
    <3> QED
      BY <2>11, <3>2 DEF Create
  <2>12. CASE CreateRejected(r)
    BY <2>12 DEF CreateRejected, ControlInv, Row
  <2>13. CASE Reply(r)
    BY <2>13 DEF Reply
  <2> QED
    BY <1>2, <2>1, <2>2, <2>3, <2>4, <2>5, <2>6, <2>7, <2>8, <2>9, <2>10,
       <2>11, <2>12, <2>13 DEF Handle
<1>3. ASSUME NEW r \in Request, ARCAAuthorises(r) PROVE TypeOK'
  BY <1>3, BookTyped DEF ARCAAuthorises, ControlInv, serverVars, credVars, VoucherState
<1>4. ASSUME NEW r \in Request, ARCARefuses(r) PROVE TypeOK'
  BY <1>4 DEF ARCARefuses, serverVars, credVars, VoucherState
<1>5. ASSUME NEW c \in Customer,
             CredentialExpires(c) \/ CredentialStored(c)
      PROVE  TypeOK'
  <2>1. CASE CredentialExpires(c)
    <3>1. credential' \in [Customer -> SUBSET CredentialRow]
      BY <2>1 DEF CredentialExpires, CredentialRow
    <3> QED
      BY <2>1, <3>1 DEF CredentialExpires, serverVars, arcaVars
  <2>2. CASE CredentialStored(c)
    <3>1. credential' \in [Customer -> SUBSET CredentialRow]
      BY <2>2 DEF CredentialStored, CredentialRow
    <3>2. usable' \in [Request -> SUBSET Cuit]
      BY <2>2 DEF CredentialStored
    <3> QED
      BY <2>2, <3>1, <3>2 DEF CredentialStored, serverVars, arcaVars
  <2> QED
    BY <1>5, <2>1, <2>2
<1>6. CASE Crash
  <2>1. pc' \in [Request -> Step] /\ code' \in [Request -> Outcome]
    BY <1>6 DEF Crash, Step, Outcome
  <2>2. inv' \in [Request -> Invoice]
    BY <1>6, InvoiceTyped DEF Crash
  <2> QED
    BY <1>6, <2>1, <2>2 DEF Crash, arcaVars, credVars
<1>7. CASE UNCHANGED vars
  BY <1>7 DEF vars, serverVars, arcaVars, credVars
<1> QED
  BY <1>1, <1>2, <1>3, <1>4, <1>5, <1>6, <1>7 DEF Next

\* Init establishes the types.
LEMMA TypeInit == Init => TypeOK
BY DEF Init, TypeOK, Step, Outcome, Invoice, NoInvoice, Status, VoucherState, Row

\* The next number of a book is above all of its numbers.
LEMMA AuthoriseNumbers ==
    ASSUME TypeOK, ControlInv, NumberInv, NEW r \in Request, ARCAAuthorises(r),
           issuer[r] \in Cuit
    PROVE  NumberInv'
<1>1. \A q \in Request : number[q] # 0 => BookOf(q) \in Book
  BY BookTyped DEF NumberInv, ControlInv
<1>2. BookOf(r) \in Book /\ last[BookOf(r)] \in Nat
  BY BookTyped DEF TypeOK
<1>3. /\ number'[r] = last[BookOf(r)] + 1
      /\ arca'[r] = "approved"
      /\ \A q \in Request : q # r => number'[q] = number[q] /\ arca'[q] = arca[q]
      /\ \A q \in Request : number[q] \in Nat
  BY DEF ARCAAuthorises, TypeOK
<1>4. /\ last'[BookOf(r)] = last[BookOf(r)] + 1
      /\ \A b \in Book : last[b] \in Nat /\ last'[b] >= last[b]
  BY <1>2 DEF ARCAAuthorises, TypeOK
<1>5. \A q \in Request : BookOf(q)' = BookOf(q)
  BY DEF ARCAAuthorises, credVars, BookOf
<1>6. ASSUME NEW q \in Request
      PROVE  /\ number'[q] # 0 => number'[q] <= last'[BookOf(q)]
             /\ number'[q] # 0 <=> arca'[q] = "approved"
  <2>1. CASE q = r
    BY <1>2, <1>3, <1>4, <2>1
  <2>2. CASE q # r
    <3>1. number[q] # 0 => number[q] <= last[BookOf(q)]
      BY DEF NumberInv
    <3>2. number[q] # 0 => last[BookOf(q)] \in Nat /\ last'[BookOf(q)] \in Nat
                             /\ last'[BookOf(q)] >= last[BookOf(q)]
      <4>1. last' \in [Book -> Nat]
        BY <1>2 DEF ARCAAuthorises, TypeOK
      <4> QED
        BY <1>1, <1>4, <4>1
    <3> QED
      BY <1>3, <2>2, <3>1, <3>2 DEF NumberInv
  <2> QED
    BY <2>1, <2>2
<1>7. ASSUME NEW q \in Request, NEW s \in Request, q # s, BookOf(q) = BookOf(s),
             number'[q] # 0
      PROVE  number'[q] # number'[s]
  <2>1. \A p \in Request : p # r /\ BookOf(p) = BookOf(r) => number[p] # last[BookOf(r)] + 1
    BY <1>2, <1>3 DEF NumberInv
  <2> QED
    BY <1>2, <1>3, <1>7, <2>1 DEF NumberInv
<1> QED
  BY <1>5, <1>6, <1>7 DEF NumberInv

\* ARCA numbers each book on its own, and no step of the proxy changes a number.
LEMMA NumberStep ==
    ASSUME TypeOK, ControlInv, NumberInv, [Next]_vars
    PROVE  NumberInv'
<1>1. ASSUME UNCHANGED <<input, issuer, arcaVars>> PROVE NumberInv'
  BY <1>1 DEF NumberInv, BookOf, arcaVars
<1>2. ASSUME UNCHANGED <<input, issuer, number, last>>,
             \A q \in Request : arca'[q] = "approved" <=> arca[q] = "approved"
      PROVE  NumberInv'
  BY <1>2 DEF NumberInv, BookOf
<1>3. ASSUME NEW r \in Request, CreateVoucher(r) PROVE NumberInv'
  <2>1. arca[r] = "none" /\ arca' = [arca EXCEPT ![r] = "sent"]
    BY <1>3 DEF CreateVoucher, ControlInv, BeforeARCA
  <2>2. \A q \in Request : arca'[q] = "approved" <=> arca[q] = "approved"
    BY <2>1 DEF TypeOK
  <2> QED
    BY <1>2, <1>3, <2>2 DEF CreateVoucher, credVars
<1>4. ASSUME NEW r \in Request, ARCAAuthorises(r) PROVE NumberInv'
  <2>1. issuer[r] \in Cuit
    BY <1>4 DEF ARCAAuthorises, ControlInv
  <2> QED
    BY <1>4, <2>1, AuthoriseNumbers
<1>5. ASSUME NEW r \in Request, ARCARefuses(r) PROVE NumberInv'
  <2>1. \A q \in Request : arca'[q] = "approved" <=> arca[q] = "approved"
    BY <1>5 DEF ARCARefuses, TypeOK
  <2> QED
    BY <1>2, <1>5, <2>1 DEF ARCARefuses, credVars
<1>6. ASSUME NEW r \in Request, Handle(r), ~CreateVoucher(r),
             ~GetByCustomerAndEnvironment(r)
      PROVE  UNCHANGED <<input, issuer, arcaVars>>
  BY <1>6 DEF Handle, GetByIdempotencyKey, LookupPanics, ParseInvoiceType, GetByID,
     NewInvoice, GetLastVoucher, MarkIssued, MarkRejected, Create, CreateRejected, Reply,
     credVars
<1>8. ASSUME NEW r \in Request, GetByCustomerAndEnvironment(r) PROVE NumberInv'
  <2>1. number[r] = 0
    BY <1>8 DEF GetByCustomerAndEnvironment, ControlInv, BeforeARCA, NumberInv, TypeOK
  <2>2. \A q \in Request : q # r => issuer'[q] = issuer[q]
    BY <1>8 DEF GetByCustomerAndEnvironment, TypeOK
  <2>3. UNCHANGED <<input, arcaVars>>
    BY <1>8 DEF GetByCustomerAndEnvironment
  <2>4. \A q \in Request : number'[q] # 0 => q # r /\ BookOf(q)' = BookOf(q)
    BY <2>1, <2>2, <2>3 DEF BookOf, arcaVars
  <2>5. ASSUME NEW q \in Request
        PROVE  /\ number'[q] # 0 => number'[q] <= last'[BookOf(q)']
               /\ number'[q] # 0 <=> arca'[q] = "approved"
    BY <2>3, <2>4 DEF NumberInv, arcaVars
  <2>6. ASSUME NEW q \in Request, NEW s \in Request, q # s,
               BookOf(q)' = BookOf(s)', number'[q] # 0
        PROVE  number'[q] # number'[s]
    <3>1. CASE number'[s] = 0
      BY <2>6, <3>1
    <3>2. CASE number'[s] # 0
      BY <2>3, <2>4, <2>6, <3>2 DEF NumberInv, arcaVars
    <3> QED
      BY <3>1, <3>2
  <2> QED
    BY <2>5, <2>6 DEF NumberInv
<1>7. ASSUME \/ \E r \in Request : IssueInvoice(r)
             \/ \E c \in Customer : CredentialExpires(c) \/ CredentialStored(c)
             \/ Crash
             \/ UNCHANGED vars
      PROVE  UNCHANGED <<input, issuer, arcaVars>>
  BY <1>7 DEF IssueInvoice, CredentialExpires, CredentialStored, Crash, vars, credVars
<1> QED
  BY <1>1, <1>3, <1>4, <1>5, <1>6, <1>7, <1>8 DEF Next

\* Each step leaves its goroutine where ControlInv describes, and the others
\* alone; ARCA only decides on requests that were sent.
LEMMA ControlStep ==
    ASSUME TypeOK, NumberInv, ControlInv, [Next]_vars
    PROVE  ControlInv'
<1> USE DEF TypeOK, ControlInv, NumberInv, BeforeARCA
<1>1. ASSUME NEW r \in Request, IssueInvoice(r) PROVE ControlInv'
  BY <1>1 DEF IssueInvoice, Goto, Return, arcaVars, credVars
<1>2. ASSUME NEW r \in Request, Handle(r) PROVE ControlInv'
  <2> USE DEF Goto, Return, arcaVars, credVars
  <2>1. CASE GetByIdempotencyKey(r)
    BY <2>1 DEF GetByIdempotencyKey
  <2>2. CASE LookupPanics(r)
    BY <2>2 DEF LookupPanics
  <2>3. CASE ParseInvoiceType(r)
    BY <2>3 DEF ParseInvoiceType
  <2>4. CASE GetByID(r)
    BY <2>4 DEF GetByID
  <2>5. CASE GetByCustomerAndEnvironment(r)
    <3>1. input[r].customer \in Customer
      BY BookTyped DEF InputType
    <3>2. Unexpired(input[r].customer) \subseteq Cuit
      BY <3>1 DEF Unexpired, CredentialRow
    <3> QED
      BY <2>5, <3>2 DEF GetByCustomerAndEnvironment
  <2>6. CASE NewInvoice(r)
    BY <2>6 DEF NewInvoice
  <2>7. CASE GetLastVoucher(r)
    BY <2>7 DEF GetLastVoucher
  <2>8. CASE CreateVoucher(r)
    BY <2>8 DEF CreateVoucher
  <2>9. CASE MarkIssued(r)
    BY <2>9 DEF MarkIssued
  <2>10. CASE MarkRejected(r)
    BY <2>10 DEF MarkRejected
  <2>11. CASE Create(r)
    BY <2>11 DEF Create
  <2>12. CASE CreateRejected(r)
    BY <2>12 DEF CreateRejected
  <2>13. CASE Reply(r)
    BY <2>13 DEF Reply
  <2> QED
    BY <1>2, <2>1, <2>2, <2>3, <2>4, <2>5, <2>6, <2>7, <2>8, <2>9, <2>10, <2>11, <2>12, <2>13 DEF Handle
<1>3. ASSUME NEW r \in Request, ARCAAuthorises(r) PROVE ControlInv'
  BY <1>3, BookTyped DEF ARCAAuthorises, serverVars, credVars
<1>4. ASSUME NEW r \in Request, ARCARefuses(r) PROVE ControlInv'
  BY <1>4 DEF ARCARefuses, serverVars, credVars
<1>5. ASSUME NEW c \in Customer,
             CredentialExpires(c) \/ CredentialStored(c)
      PROVE  ControlInv'
  BY <1>5 DEF CredentialExpires, CredentialStored, serverVars, arcaVars
<1>6. CASE Crash
  BY <1>6 DEF Crash, Running, arcaVars, credVars, NoInvoice
<1>7. CASE UNCHANGED vars
  BY <1>7 DEF vars, serverVars, arcaVars, credVars
<1> QED
  BY <1>1, <1>2, <1>3, <1>4, <1>5, <1>6, <1>7 DEF Next

\* The answers that were given stay true.
LEMMA OutcomeStep ==
    ASSUME TypeOK, ControlInv, IssuedMeansAuthorised, CreatedMeansStored, CleanFailure, [Next]_vars
    PROVE  (IssuedMeansAuthorised /\ CreatedMeansStored /\ CleanFailure)'
<1> USE DEF TypeOK, IssuedMeansAuthorised, CreatedMeansStored, CleanFailure, ControlInv,
            BeforeARCA, SameKey, Stored, CleanCode
<1>1. ASSUME NEW r \in Request, IssueInvoice(r) PROVE (IssuedMeansAuthorised /\ CreatedMeansStored /\ CleanFailure)'
  BY <1>1 DEF IssueInvoice, Goto, Return, arcaVars, credVars
<1>2. ASSUME NEW r \in Request, Handle(r) PROVE (IssuedMeansAuthorised /\ CreatedMeansStored /\ CleanFailure)'
  <2> USE DEF Goto, Return, arcaVars, credVars
  <2>1. CASE GetByIdempotencyKey(r)
    BY <2>1 DEF GetByIdempotencyKey, Matches
  <2>2. CASE LookupPanics(r)
    BY <2>2 DEF LookupPanics
  <2>3. CASE ParseInvoiceType(r)
    BY <2>3 DEF ParseInvoiceType
  <2>4. CASE GetByID(r)
    BY <2>4 DEF GetByID
  <2>5. CASE GetByCustomerAndEnvironment(r)
    BY <2>5 DEF GetByCustomerAndEnvironment
  <2>6. CASE NewInvoice(r)
    BY <2>6 DEF NewInvoice
  <2>7. CASE GetLastVoucher(r)
    BY <2>7 DEF GetLastVoucher
  <2>8. CASE CreateVoucher(r)
    <3>1. /\ code[r] = "none" /\ stored[r] = "absent"
          /\ \A q \in Request : q # r => arca'[q] = arca[q]
          /\ UNCHANGED <<input, ref, code, stored>>
      <4>1. pc[r] = "voucher" /\ arca' = [arca EXCEPT ![r] = "sent"]
        BY <2>8 DEF CreateVoucher
      <4>2. UNCHANGED <<input, ref, code, stored>>
        BY <2>8 DEF CreateVoucher
      <4>3. code[r] = "none" /\ stored[r] = "absent"
        BY <4>1
      <4> QED
        BY <4>1, <4>2, <4>3
    <3>2. IssuedMeansAuthorised'
      BY <3>1
    <3>3. CreatedMeansStored'
      BY <3>1
    <3>4. CleanFailure'
      BY <3>1
    <3> QED
      BY <3>2, <3>3, <3>4
  <2>9. CASE MarkIssued(r)
    BY <2>9 DEF MarkIssued
  <2>10. CASE MarkRejected(r)
    BY <2>10 DEF MarkRejected
  <2>11. CASE Create(r)
    BY <2>11 DEF Create
  <2>12. CASE CreateRejected(r)
    BY <2>12 DEF CreateRejected
  <2>13. CASE Reply(r)
    BY <2>13 DEF Reply
  <2> QED
    BY <1>2, <2>1, <2>2, <2>3, <2>4, <2>5, <2>6, <2>7, <2>8, <2>9, <2>10, <2>11, <2>12, <2>13 DEF Handle
<1>3. ASSUME NEW r \in Request, ARCAAuthorises(r) PROVE (IssuedMeansAuthorised /\ CreatedMeansStored /\ CleanFailure)'
  BY <1>3, BookTyped DEF ARCAAuthorises, serverVars, credVars
<1>4. ASSUME NEW r \in Request, ARCARefuses(r) PROVE (IssuedMeansAuthorised /\ CreatedMeansStored /\ CleanFailure)'
  BY <1>4 DEF ARCARefuses, serverVars, credVars
<1>5. ASSUME NEW c \in Customer,
             CredentialExpires(c) \/ CredentialStored(c)
      PROVE  (IssuedMeansAuthorised /\ CreatedMeansStored /\ CleanFailure)'
  BY <1>5 DEF CredentialExpires, CredentialStored, serverVars, arcaVars
<1>6. CASE Crash
  BY <1>6 DEF Crash, Running, arcaVars, credVars
<1>7. CASE UNCHANGED vars
  BY <1>7 DEF vars, serverVars, arcaVars, credVars
<1> QED
  BY <1>1, <1>2, <1>3, <1>4, <1>5, <1>6, <1>7 DEF Next

\* Only a lookup that found nothing leads past the lookup.
LEMMA RetryStep ==
    ASSUME TypeOK, ControlInv, RetryInv, [Next]_vars
    PROVE  RetryInv'
<1> USE DEF TypeOK, RetryInv, ControlInv, BeforeARCA, PastLookup, PastBuild, Answering, SameKey
<1>1. ASSUME NEW r \in Request, IssueInvoice(r) PROVE RetryInv'
  BY <1>1 DEF IssueInvoice, Goto, Return, arcaVars, credVars, Stored
<1>2. ASSUME NEW r \in Request, Handle(r) PROVE RetryInv'
  <2> USE DEF Goto, Return, arcaVars, credVars
  <2>1. CASE GetByIdempotencyKey(r)
    BY <2>1 DEF GetByIdempotencyKey, Matches, Stored
  <2>2. CASE LookupPanics(r)
    BY <2>2 DEF LookupPanics
  <2>3. CASE ParseInvoiceType(r)
    BY <2>3 DEF ParseInvoiceType
  <2>4. CASE GetByID(r)
    BY <2>4 DEF GetByID
  <2>5. CASE GetByCustomerAndEnvironment(r)
    BY <2>5 DEF GetByCustomerAndEnvironment
  <2>6. CASE NewInvoice(r)
    BY <2>6 DEF NewInvoice
  <2>7. CASE GetLastVoucher(r)
    BY <2>7 DEF GetLastVoucher
  <2>8. CASE CreateVoucher(r)
    BY <2>8 DEF CreateVoucher
  <2>9. CASE MarkIssued(r)
    BY <2>9 DEF MarkIssued
  <2>10. CASE MarkRejected(r)
    BY <2>10 DEF MarkRejected
  <2>11. CASE Create(r)
    BY <2>11 DEF Create, Row
  <2>12. CASE CreateRejected(r)
    BY <2>12 DEF CreateRejected, Row
  <2>13. CASE Reply(r)
    BY <2>13 DEF Reply
  <2> QED
    BY <1>2, <2>1, <2>2, <2>3, <2>4, <2>5, <2>6, <2>7, <2>8, <2>9, <2>10, <2>11, <2>12, <2>13 DEF Handle
<1>3. ASSUME NEW r \in Request, ARCAAuthorises(r) PROVE RetryInv'
  BY <1>3, BookTyped DEF ARCAAuthorises, serverVars, credVars
<1>4. ASSUME NEW r \in Request, ARCARefuses(r) PROVE RetryInv'
  <2>1. UNCHANGED <<pc, input, stored, prior>>
    BY <1>4 DEF ARCARefuses, serverVars
  <2>2. \A q \in Request : arca'[q] # "none" => arca[q] # "none"
    BY <1>4 DEF ARCARefuses
  <2> QED
    BY <2>1, <2>2
<1>5. ASSUME NEW c \in Customer,
             CredentialExpires(c) \/ CredentialStored(c)
      PROVE  RetryInv'
  <2>1. UNCHANGED <<pc, input, arca, stored, prior>>
    BY <1>5 DEF CredentialExpires, CredentialStored, serverVars, arcaVars
  <2> QED
    BY <2>1
<1>6. CASE Crash
  BY <1>6 DEF Crash, Running, arcaVars, credVars
<1>7. CASE UNCHANGED vars
  BY <1>7 DEF vars, serverVars, arcaVars, credVars
<1> QED
  BY <1>1, <1>2, <1>3, <1>4, <1>5, <1>6, <1>7 DEF Next

\* A goroutine passes a step only with the check of that step.
LEMMA CheckStep ==
    ASSUME TypeOK, ControlInv, CheckInv, [Next]_vars
    PROVE  CheckInv'
<1> USE DEF TypeOK, CheckInv, ControlInv, BeforeARCA, PastLookup, PastBuild, Answering
<1>1. ASSUME NEW r \in Request, IssueInvoice(r) PROVE CheckInv'
  BY <1>1 DEF IssueInvoice, Goto, Return, arcaVars, credVars
<1>2. ASSUME NEW r \in Request, Handle(r) PROVE CheckInv'
  <2> USE DEF Goto, Return, arcaVars, credVars
  <2>1. CASE GetByIdempotencyKey(r)
    BY <2>1 DEF GetByIdempotencyKey
  <2>2. CASE LookupPanics(r)
    BY <2>2 DEF LookupPanics
  <2>3. CASE ParseInvoiceType(r)
    BY <2>3 DEF ParseInvoiceType
  <2>4. CASE GetByID(r)
    BY <2>4 DEF GetByID
  <2>5. CASE GetByCustomerAndEnvironment(r)
    BY <2>5, BookTyped DEF GetByCustomerAndEnvironment, InputType
  <2>6. CASE NewInvoice(r)
    BY <2>6 DEF NewInvoice
  <2>7. CASE GetLastVoucher(r)
    BY <2>7 DEF GetLastVoucher
  <2>8. CASE CreateVoucher(r)
    BY <2>8 DEF CreateVoucher
  <2>9. CASE MarkIssued(r)
    BY <2>9 DEF MarkIssued
  <2>10. CASE MarkRejected(r)
    BY <2>10 DEF MarkRejected
  <2>11. CASE Create(r)
    BY <2>11 DEF Create
  <2>12. CASE CreateRejected(r)
    BY <2>12 DEF CreateRejected
  <2>13. CASE Reply(r)
    BY <2>13 DEF Reply
  <2> QED
    BY <1>2, <2>1, <2>2, <2>3, <2>4, <2>5, <2>6, <2>7, <2>8, <2>9, <2>10, <2>11, <2>12, <2>13 DEF Handle
<1>3. ASSUME NEW r \in Request, ARCAAuthorises(r) PROVE CheckInv'
  BY <1>3 DEF ARCAAuthorises, serverVars, credVars
<1>4. ASSUME NEW r \in Request, ARCARefuses(r) PROVE CheckInv'
  BY <1>4 DEF ARCARefuses, serverVars, credVars
<1>5. ASSUME NEW c \in Customer,
             CredentialExpires(c) \/ CredentialStored(c)
      PROVE  CheckInv'
  BY <1>5 DEF CredentialExpires, CredentialStored, serverVars, arcaVars
<1>6. CASE Crash
  BY <1>6 DEF Crash, Running, arcaVars, credVars
<1>7. CASE UNCHANGED vars
  BY <1>7 DEF vars, serverVars, arcaVars, credVars
<1> QED
  BY <1>1, <1>2, <1>3, <1>4, <1>5, <1>6, <1>7 DEF Next

\* A step that touches neither the credentials nor what was read of them, and
\* takes no goroutine to a step before or after the read that it was not at.
LEMMA UsableKept ==
    ASSUME UsableInv, UNCHANGED <<input, credVars>>,
           \A q \in Request :
              /\ BeforeRead(q)' => BeforeRead(q)
              /\ pc'[q] \in PastBuild \cup {"build"} \/ arca'[q] # "none" =>
                    pc[q] \in PastBuild \cup {"build"} \/ arca[q] # "none"
    PROVE  UsableInv'
<1>1. \A c : Unexpired(c)' = Unexpired(c)
  BY DEF Unexpired, credVars
<1> QED
  BY <1>1 DEF UsableInv, credVars

\* The credential that is read is one of those that the history has recorded.
LEMMA UsableRead ==
    ASSUME TypeOK, ControlInv, UsableInv, NEW r \in Request, GetByCustomerAndEnvironment(r)
    PROVE  UsableInv'
<1>1. /\ pc[r] = "credential" /\ arca[r] = "none"
      /\ UNCHANGED <<input, credential, arca>>
      /\ \A q \in Request : q # r =>
            pc'[q] = pc[q] /\ issuer'[q] = issuer[q] /\ usable'[q] = usable[q]
      /\ usable'[r] = usable[r] \cap {issuer'[r]}
  BY DEF GetByCustomerAndEnvironment, Goto, Return, arcaVars, TypeOK, ControlInv, BeforeARCA
<1>2. \/ pc'[r] = "reply"
      \/ pc'[r] = "build" /\ issuer'[r] \in Unexpired(input[r].customer)
  BY DEF GetByCustomerAndEnvironment, Goto, Return, TypeOK
<1>3. Unexpired(input[r].customer) \subseteq usable[r]
  BY <1>1 DEF UsableInv, BeforeRead
<1>4. \A c : Unexpired(c)' = Unexpired(c)
  BY <1>1 DEF Unexpired
<1>5. ASSUME NEW q \in Request, q # r
      PROVE  /\ BeforeRead(q)' => (Unexpired(input[q].customer) \subseteq usable[q])'
             /\ pc'[q] \in PastBuild \cup {"build"} \/ arca'[q] # "none" =>
                   issuer'[q] \in usable'[q]
  BY <1>1, <1>4, <1>5 DEF UsableInv, BeforeRead
<1>6. /\ ~BeforeRead(r)'
      /\ pc'[r] \in PastBuild \cup {"build"} \/ arca'[r] # "none" =>
            issuer'[r] \in usable'[r]
  BY <1>1, <1>2, <1>3 DEF BeforeRead, PastBuild, Answering
<1> QED
  BY <1>5, <1>6 DEF UsableInv

\* Time and the operator change what can be read only in ways that the history
\* records.
LEMMA UsableCredentials ==
    ASSUME TypeOK, UsableInv, NEW c \in Customer,
           CredentialExpires(c) \/ CredentialStored(c)
    PROVE  UsableInv'
<1>1. UNCHANGED <<input, pc, issuer, arca>>
  BY DEF CredentialExpires, CredentialStored, serverVars, arcaVars
<1>2. \A r \in Request : input[r].customer \in Customer
  BY BookTyped DEF InputType
<1>3. CASE CredentialExpires(c)
  <2>1. usable' = usable /\ \A d \in Customer : Unexpired(d)' \subseteq Unexpired(d)
    BY <1>3 DEF CredentialExpires, Unexpired, TypeOK
  <2> QED
    BY <1>1, <1>2, <2>1 DEF UsableInv, BeforeRead
<1>4. CASE CredentialStored(c)
  <2>1. PICK q \in Cuit :
            /\ credential' = [credential EXCEPT ![c] = @ \cup {q}]
            /\ usable' = [r \in Request |->
                  IF input[r].customer = c /\ BeforeRead(r)
                  THEN usable[r] \cup {q} ELSE usable[r]]
    BY <1>4 DEF CredentialStored
  <2>2. /\ Unexpired(c)' \subseteq Unexpired(c) \cup {q}
        /\ \A d \in Customer : d # c => Unexpired(d)' = Unexpired(d)
    BY <2>1 DEF Unexpired, TypeOK
  <2>3. \A r \in Request : usable[r] \subseteq usable'[r]
    BY <2>1
  <2>4. ASSUME NEW r \in Request, BeforeRead(r)
        PROVE  Unexpired(input[r].customer)' \subseteq usable'[r]
    BY <1>1, <1>2, <2>1, <2>2, <2>3, <2>4 DEF UsableInv
  <2> QED
    BY <1>1, <2>3, <2>4 DEF UsableInv, BeforeRead
<1> QED
  BY <1>3, <1>4

\* What a request goes on with was usable since it arrived.
LEMMA UsableStep ==
    ASSUME TypeOK, ControlInv, UsableInv, [Next]_vars
    PROVE  UsableInv'
<1>1. ASSUME NEW r \in Request, IssueInvoice(r) PROVE UsableInv'
  <2>1. /\ UNCHANGED <<input, credential, issuer, arca>>
        /\ \A q \in Request : q # r => pc'[q] = pc[q] /\ usable'[q] = usable[q]
        /\ pc'[r] \in {"reply", "type", "lookup"}
        /\ usable'[r] = Unexpired(input[r].customer)
        /\ arca[r] = "none"
    BY <1>1 DEF IssueInvoice, Goto, Return, arcaVars, TypeOK, ControlInv, BeforeARCA
  <2>2. \A c : Unexpired(c)' = Unexpired(c)
    BY <2>1 DEF Unexpired
  <2> QED
    BY <2>1, <2>2 DEF UsableInv, BeforeRead, PastBuild, Answering
<1>2. ASSUME NEW r \in Request, Handle(r), ~GetByCustomerAndEnvironment(r) PROVE UsableInv'
  <2>1. /\ UNCHANGED <<input, credVars>>
        /\ \A q \in Request : q # r => pc'[q] = pc[q] /\ arca'[q] = arca[q]
    BY <1>2 DEF Handle, GetByIdempotencyKey, LookupPanics, ParseInvoiceType, GetByID,
       NewInvoice, GetLastVoucher, CreateVoucher, MarkIssued, MarkRejected, Create,
       CreateRejected, Reply, Goto, Return, arcaVars, TypeOK
  <2>2. /\ BeforeRead(r)' => BeforeRead(r)
        /\ pc'[r] \in PastBuild \cup {"build"} \/ arca'[r] # "none" =>
              pc[r] \in PastBuild \cup {"build"} \/ arca[r] # "none"
    BY <1>2 DEF Handle, GetByIdempotencyKey, LookupPanics, ParseInvoiceType, GetByID,
       NewInvoice, GetLastVoucher, CreateVoucher, MarkIssued, MarkRejected, Create,
       CreateRejected, Reply, Goto, Return, arcaVars, TypeOK, BeforeRead, PastBuild, Answering
  <2> QED
    BY <2>1, <2>2, UsableKept DEF BeforeRead
<1>3. ASSUME NEW r \in Request, ARCAAuthorises(r) \/ ARCARefuses(r) PROVE UsableInv'
  <2>1. UNCHANGED <<input, pc, credVars>> /\ \A q \in Request : arca'[q] # "none" => arca[q] # "none"
    BY <1>3 DEF ARCAAuthorises, ARCARefuses, serverVars, TypeOK
  <2> QED
    BY <2>1, UsableKept DEF BeforeRead
<1>4. CASE Crash
  <2>1. /\ UNCHANGED <<input, credVars, arca>>
        /\ \A q \in Request : pc'[q] = pc[q] \/ pc'[q] = "done"
    BY <1>4 DEF Crash, arcaVars
  <2> QED
    BY <2>1, UsableKept DEF BeforeRead, PastBuild, Answering
<1>5. CASE UNCHANGED vars
  BY <1>5, UsableKept DEF vars, serverVars, arcaVars, BeforeRead
<1> QED
  BY <1>1, <1>2, <1>3, <1>4, <1>5, UsableRead, UsableCredentials DEF Next, Handle

\* A goroutine waits for ARCA only after it has asked, and a doubtful answer is
\* given only where there is a doubt.
LEMMA AnswerStep ==
    ASSUME TypeOK, ControlInv, AnswerInv, [Next]_vars
    PROVE  AnswerInv'
<1> USE DEF TypeOK, AnswerInv, ControlInv, BeforeARCA, Answering
<1>1. ASSUME NEW r \in Request, IssueInvoice(r) PROVE AnswerInv'
  BY <1>1 DEF IssueInvoice, Goto, Return, arcaVars, credVars
<1>2. ASSUME NEW r \in Request, Handle(r) PROVE AnswerInv'
  <2> USE DEF Goto, Return, arcaVars, credVars
  <2>1. CASE GetByIdempotencyKey(r)
    BY <2>1 DEF GetByIdempotencyKey
  <2>2. CASE LookupPanics(r)
    BY <2>2 DEF LookupPanics
  <2>3. CASE ParseInvoiceType(r)
    BY <2>3 DEF ParseInvoiceType
  <2>4. CASE GetByID(r)
    BY <2>4 DEF GetByID
  <2>5. CASE GetByCustomerAndEnvironment(r)
    BY <2>5 DEF GetByCustomerAndEnvironment
  <2>6. CASE NewInvoice(r)
    BY <2>6 DEF NewInvoice
  <2>7. CASE GetLastVoucher(r)
    BY <2>7 DEF GetLastVoucher
  <2>8. CASE CreateVoucher(r)
    BY <2>8 DEF CreateVoucher
  <2>9. CASE MarkIssued(r)
    BY <2>9 DEF MarkIssued
  <2>10. CASE MarkRejected(r)
    BY <2>10 DEF MarkRejected
  <2>11. CASE Create(r)
    BY <2>11 DEF Create
  <2>12. CASE CreateRejected(r)
    BY <2>12 DEF CreateRejected
  <2>13. CASE Reply(r)
    BY <2>13 DEF Reply
  <2> QED
    BY <1>2, <2>1, <2>2, <2>3, <2>4, <2>5, <2>6, <2>7, <2>8, <2>9, <2>10, <2>11, <2>12, <2>13 DEF Handle
<1>3. ASSUME NEW r \in Request, ARCAAuthorises(r) PROVE AnswerInv'
  BY <1>3, BookTyped DEF ARCAAuthorises, serverVars, credVars
<1>4. ASSUME NEW r \in Request, ARCARefuses(r) PROVE AnswerInv'
  BY <1>4 DEF ARCARefuses, serverVars, credVars
<1>5. ASSUME NEW c \in Customer,
             CredentialExpires(c) \/ CredentialStored(c)
      PROVE  AnswerInv'
  BY <1>5 DEF CredentialExpires, CredentialStored, serverVars, arcaVars
<1>6. CASE Crash
  BY <1>6 DEF Crash, Running, arcaVars, credVars
<1>7. CASE UNCHANGED vars
  BY <1>7 DEF vars, serverVars, arcaVars, credVars
<1> QED
  BY <1>1, <1>2, <1>3, <1>4, <1>5, <1>6, <1>7 DEF Next

-----------------------------------------------------------------------------
LEMMA IndInvInit == Init => IndInv
<1> SUFFICES ASSUME Init PROVE IndInv
  OBVIOUS
<1> USE DEF Init
<1>1. TypeOK
  BY TypeInit
<1>2. NumberInv /\ ControlInv
  BY DEF NumberInv, ControlInv, NoInvoice
<1>3. IssuedMeansAuthorised /\ CreatedMeansStored /\ CleanFailure
  BY DEF IssuedMeansAuthorised, CreatedMeansStored, CleanFailure, CleanCode
<1>4. RetryInv
  BY DEF RetryInv, PastLookup, PastBuild, Answering
<1>5. CheckInv /\ UsableInv
  BY DEF CheckInv, UsableInv, PastLookup, PastBuild, Answering, BeforeRead
<1>6. AnswerInv
  BY DEF AnswerInv, Answering
<1> QED
  BY <1>1, <1>2, <1>3, <1>4, <1>5, <1>6 DEF IndInv

LEMMA IndInvStep == IndInv /\ [Next]_vars => IndInv'
<1> SUFFICES ASSUME IndInv, [Next]_vars PROVE IndInv'
  OBVIOUS
<1> USE DEF IndInv
<1>1. TypeOK'
  BY TypeStep
<1>2. NumberInv'
  BY NumberStep
<1>3. ControlInv'
  BY ControlStep
<1>4. (IssuedMeansAuthorised /\ CreatedMeansStored /\ CleanFailure)'
  BY OutcomeStep
<1>5. RetryInv'
  BY RetryStep
<1>6. CheckInv' /\ UsableInv'
  BY CheckStep, UsableStep
<1>7. AnswerInv'
  BY AnswerStep
<1> QED
  BY <1>1, <1>2, <1>3, <1>4, <1>5, <1>6, <1>7

\* The inductive invariant holds throughout every behaviour of the operation.
THEOREM Invariance == Spec => []IndInv
BY IndInvInit, IndInvStep, PTL DEF Spec

\* Every reachable state is well typed: no step of the handler, of ARCA or of
\* a crash leaves the steps, codes and counters the code has.
THEOREM TypeCorrect == Spec => []TypeOK
<1>1. IndInv => TypeOK
  BY DEF IndInv
<1> QED
  BY <1>1, Invariance, PTL

\* ARCA has authorised the voucher of every invoice saved as issued
\* (issue_invoice.go:131-158).
THEOREM IssuedIsAuthorised == Spec => []IssuedMeansAuthorised
<1>1. IndInv => IssuedMeansAuthorised
  BY DEF IndInv
<1> QED
  BY <1>1, Invariance, PTL

\* The numbers recorded in the issued invoices of one book, which is a CUIT's and
\* may be of several customers, are distinct, however the requests interleave
\* between GetLastVoucher and CreateVoucher.
THEOREM NumbersAreDistinct == Spec => []NumbersDistinct
<1>1. IndInv => NumbersDistinct
  <2> SUFFICES ASSUME IndInv, NEW r \in Request, NEW s \in Request, r # s,
                      inv[r].status = "issued", inv[s].status = "issued",
                      BookOf(r) = BookOf(s)
               PROVE  inv[r].voucher # inv[s].voucher
    BY DEF NumbersDistinct
  <2>1. /\ arca[r] = "approved" /\ inv[r].voucher = number[r]
        /\ inv[s].voucher = number[s]
    BY DEF IndInv, ControlInv
  <2>2. number[r] # number[s]
    BY <2>1 DEF IndInv, NumberInv
  <2> QED
    BY <2>1, <2>2
<1> QED
  BY <1>1, Invariance, PTL

\* Every 201 stands for a saved invoice, and one that replays another request's
\* invoice has left no trace of its own (issue_invoice.go:81-83, 156-160).
THEOREM CreatedIsStored == Spec => []CreatedMeansStored
<1>1. IndInv => CreatedMeansStored
  BY DEF IndInv
<1> QED
  BY <1>1, Invariance, PTL

\* A code that says nothing happened is, and stays, true: the client may retry.
THEOREM FailureIsClean == Spec => []CleanFailure
<1>1. IndInv => CleanFailure
  BY DEF IndInv
<1> QED
  BY <1>1, Invariance, PTL

\* A retry that arrives after an invoice of its key was saved sends nothing to
\* ARCA (issue_invoice.go:76-84).
THEOREM RetryIsNeverReissued == Spec => []RetryNeverReissues
<1>1. IndInv => RetryNeverReissues
  BY DEF IndInv, RetryInv, RetryNeverReissues
<1> QED
  BY <1>1, Invariance, PTL

\* Only requests that pass every check of the handler, the service and the
\* domain constructors reach ARCA, and in the name of a CUIT of which their
\* customer has had an unexpired credential since they arrived
\* (issue_invoice.go:86-120, 185).
THEOREM OnlyValidReachesARCA == Spec => []OnlyValidInputReachesARCA
<1>1. IndInv => OnlyValidInputReachesARCA
  <2> SUFFICES ASSUME IndInv, NEW r \in Request, arca[r] # "none"
               PROVE  /\ input[r].defects = {}
                      /\ input[r].customer \in Registered
                      /\ issuer[r] \in usable[r]
    BY DEF OnlyValidInputReachesARCA
  <2>1. input[r].defects \subseteq Defect
    BY BookTyped DEF IndInv, InputType
  <2> QED
    BY <2>1 DEF IndInv, CheckInv, UsableInv, Defect
<1> QED
  BY <1>1, Invariance, PTL

-----------------------------------------------------------------------------
(***************************************************************************)
(* The operation keeps its contract.                                       *)
(***************************************************************************)

\* What the client sees of a step that ends no goroutine.
LEMMA NotAnswered ==
    ASSUME TypeOK, NEW r \in Request,
           pc[r] # "done", pc'[r] # "done",
           \A q \in Request : q # r => pc'[q] = pc[q] /\ code'[q] = code[q] /\ ref'[q] = ref[q]
    PROVE  Told' = Told /\ Shown' = Shown
BY DEF Told, Shown

\* A goroutine that goes on from one step to the next, seen by nobody.
LEMMA Unseen ==
    ASSUME TypeOK, NEW r \in Request,
           pc[r] \notin {"idle", "done"}, pc'[r] \notin {"idle", "done"},
           \A q \in Request : q # r => pc'[q] = pc[q] /\ code'[q] = code[q] /\ ref'[q] = ref[q],
           UNCHANGED <<input, prior, arca, number, stored>>,
           arca[r] = "none" \/ issuer'[r] = issuer[r],
           \A q \in Request : q # r => issuer'[q] = issuer[q]
    PROVE  UNCHANGED Contract!vars
<1>1. Received' = Received
  BY DEF Received
<1>2. Signed' = Signed
  BY DEF Signed
<1> QED
  BY <1>1, <1>2, NotAnswered DEF Contract!vars

\* Steps of the goroutine before ARCA is asked, and of the answer's way to it.
LEMMA QuietContract ==
    ASSUME TypeOK, ControlInv, NEW r \in Request,
           \/ GetByIdempotencyKey(r) \/ ParseInvoiceType(r) \/ GetByID(r)
           \/ GetByCustomerAndEnvironment(r) \/ NewInvoice(r) \/ GetLastVoucher(r)
           \/ MarkIssued(r) \/ MarkRejected(r)
    PROVE  UNCHANGED Contract!vars
<1>1. /\ pc[r] \notin {"idle", "done"} /\ pc'[r] \notin {"idle", "done"}
      /\ UNCHANGED <<input, prior, arca, number, stored>>
      /\ \A q \in Request : q # r => pc'[q] = pc[q] /\ code'[q] = code[q] /\ ref'[q] = ref[q]
      /\ arca[r] = "none" \/ issuer'[r] = issuer[r]
      /\ \A q \in Request : q # r => issuer'[q] = issuer[q]
  <2> USE DEF TypeOK, Goto, Return, arcaVars, credVars
  <2>1. CASE GetByIdempotencyKey(r) \/ ParseInvoiceType(r)
    BY <2>1 DEF GetByIdempotencyKey, ParseInvoiceType
  <2>2. CASE GetByID(r) \/ GetByCustomerAndEnvironment(r)
    BY <2>2 DEF GetByID, GetByCustomerAndEnvironment, ControlInv, BeforeARCA
  <2>3. CASE NewInvoice(r) \/ GetLastVoucher(r)
    BY <2>3 DEF NewInvoice, GetLastVoucher
  <2>4. CASE MarkIssued(r) \/ MarkRejected(r)
    BY <2>4 DEF MarkIssued, MarkRejected
  <2> QED
    BY <2>1, <2>2, <2>3, <2>4
<1> QED
  BY <1>1, Unseen

LEMMA ArriveContract ==
    ASSUME TypeOK, NEW r \in Request, IssueInvoice(r)
    PROVE  Contract!Arrive(r)
<1>1. pc[r] = "idle" /\ pc'[r] # "idle" /\ pc'[r] # "done"
  BY DEF IssueInvoice, Goto, Return, TypeOK
<1>2. \A q \in Request : q # r => pc'[q] = pc[q] /\ code'[q] = code[q] /\ ref'[q] = ref[q]
  BY DEF IssueInvoice, Goto, Return, TypeOK
<1>3. UNCHANGED <<input, issuer, arca, number, stored>>
  BY DEF IssueInvoice, arcaVars
<1>4. Received' = Received \cup {r} /\ r \notin Received
  BY <1>1, <1>2 DEF Received
<1>5. prior' = [prior EXCEPT ![r] = {s \in Request : stored[s] # "absent"}]
  BY DEF IssueInvoice, Stored
<1>6. Signed' = Signed
  BY <1>3 DEF Signed
<1> QED
  BY <1>1, <1>2, <1>3, <1>4, <1>5, <1>6, NotAnswered DEF Contract!Arrive

LEMMA SendContract ==
    ASSUME IndInv, NEW r \in Request, CreateVoucher(r)
    PROVE  Contract!Send(r)
<1>1. /\ pc[r] = "voucher" /\ pc'[r] = "await"
      /\ \A q \in Request : q # r => pc'[q] = pc[q] /\ code'[q] = code[q] /\ ref'[q] = ref[q]
      /\ UNCHANGED <<input, issuer, prior, number, stored>>
      /\ arca' = [arca EXCEPT ![r] = "sent"]
  BY DEF CreateVoucher, Goto, credVars, IndInv, TypeOK
<1>2. Received' = Received
  BY <1>1 DEF Received
<1>3. arca[r] = "none" /\ stored[r] = "absent" /\ \A s \in prior[r] : ~SameKey(r, s)
  BY <1>1 DEF IndInv, ControlInv, BeforeARCA, RetryInv, PastLookup, PastBuild
<1>4. TypeOK
  BY DEF IndInv
<1>5. issuer[r] \in Cuit /\ Signed' = [Signed EXCEPT ![r] = issuer[r]]
  BY <1>1, <1>4 DEF IndInv, ControlInv, Signed, TypeOK
<1> QED
  BY <1>1, <1>2, <1>3, <1>4, <1>5, NotAnswered
     DEF Contract!Send, Contract!Open, Received, Told, Contract!Traceless, Contract!SameKey, SameKey

LEMMA DecideContract ==
    ASSUME IndInv, NEW r \in Request, ARCAAuthorises(r) \/ ARCARefuses(r)
    PROVE  Contract!Decide(r)
<1>1. arca[r] = "sent" /\ UNCHANGED <<input, pc, code, ref, prior, issuer, stored>>
  BY DEF ARCAAuthorises, ARCARefuses, serverVars, credVars
<1>2. UNCHANGED <<Received, Told, Shown, Signed>>
  <2>1. \A q \in Request : arca'[q] = "none" <=> arca[q] = "none"
    BY <1>1 DEF ARCAAuthorises, ARCARefuses, IndInv, TypeOK
  <2> QED
    BY <1>1, <2>1 DEF Received, Told, Shown, Signed
<1>3. CASE ARCARefuses(r)
  BY <1>1, <1>2, <1>3 DEF ARCARefuses, Contract!Decide
<1>4. CASE ARCAAuthorises(r)
  <2>1. TypeOK /\ issuer[r] \in Cuit /\ BookOf(r) \in Book
    BY <1>1, BookTyped DEF IndInv, ControlInv
  <2>2. number' = [number EXCEPT ![r] = last[BookOf(r)] + 1] /\ last[BookOf(r)] \in Nat
    BY <1>4, <2>1 DEF ARCAAuthorises, TypeOK
  <2>3. number'[r] = last[BookOf(r)] + 1
    BY <2>1, <2>2 DEF TypeOK
  <2>4. ASSUME NEW s \in Request, s # r, Contract!SameBook(r, s)
        PROVE  number[s] # number'[r]
    <3>1. issuer[s] = issuer[r] /\ input[s].series = input[r].series
      BY <1>1, <2>1, <2>4, ConstantsAssumption DEF Contract!SameBook, Signed
    <3>2. BookOf(s) = BookOf(r)
      BY <3>1 DEF BookOf
    <3>3. number[s] # 0 => number[s] <= last[BookOf(r)]
      BY <3>2 DEF IndInv, NumberInv
    <3>4. number[s] \in Nat
      BY <2>1 DEF TypeOK
    <3> QED
      BY <2>2, <2>3, <3>3, <3>4
  <2>5. number'[r] \in Nat \ {0}
    BY <2>2, <2>3
  <2>6. number' = [number EXCEPT ![r] = number'[r]]
    BY <2>2, <2>3
  <2>7. arca' = [arca EXCEPT ![r] = "approved"]
    BY <1>4 DEF ARCAAuthorises
  <2> QED
    BY <1>1, <1>2, <2>4, <2>5, <2>6, <2>7 DEF Contract!Decide
<1> QED
  BY <1>3, <1>4

LEMMA SaveContract ==
    ASSUME IndInv, NEW r \in Request, Create(r) \/ CreateRejected(r)
    PROVE  Contract!Save(r) \/ UNCHANGED Contract!vars
<1>1. /\ pc[r] \in {"persist", "persistRejected"} /\ pc'[r] = "reply"
      /\ \A q \in Request : q # r => pc'[q] = pc[q] /\ code'[q] = code[q] /\ ref'[q] = ref[q]
      /\ UNCHANGED <<input, prior, issuer, arca, number>>
      /\ stored' = stored \/ stored' = [stored EXCEPT ![r] = inv[r].status]
  BY DEF Create, CreateRejected, Return, arcaVars, credVars, IndInv, TypeOK
<1>2. TypeOK
  BY DEF IndInv
<1>3. CASE stored' = stored
  BY <1>1, <1>2, <1>3, Unseen
<1>4. CASE stored' = [stored EXCEPT ![r] = inv[r].status]
  <2>1. Received' = Received /\ Signed' = Signed
    BY <1>1 DEF Received, Signed
  <2>2. stored[r] = "absent" /\ arca[r] # "none"
    BY <1>1 DEF IndInv, ControlInv, AnswerInv, Answering
  <2>3. \/ inv[r].status = "issued" /\ arca[r] = "approved"
        \/ inv[r].status = "rejected"
    BY <1>1 DEF IndInv, ControlInv
  <2> QED
    BY <1>1, <1>2, <1>4, <2>1, <2>2, <2>3, NotAnswered DEF Contract!Save, Contract!Open, Received, Told
<1> QED
  BY <1>1, <1>3, <1>4

\* The code a goroutine returns is true when the handler writes it.
LEMMA AnswerTrue ==
    ASSUME IndInv, NEW r \in Request, pc[r] = "reply"
    PROVE  /\ code[r] \in CleanCode \cup {"created", "arca_rejected", "database_error"}
           /\ ref[r] \in Request
           /\ Contract!True(r, code[r], ref[r])
<1>1. code[r] \in CleanCode \cup {"created", "arca_rejected", "database_error"}
  BY DEF IndInv, TypeOK, AnswerInv, Outcome
<1>2. ref[r] \in Request
  BY DEF IndInv, TypeOK
<1>3. CASE code[r] = "created"
  BY <1>1, <1>2, <1>3 DEF IndInv, CreatedMeansStored, IssuedMeansAuthorised, Stored,
     SameKey, Contract!True, Contract!SameKey, Contract!Traceless
<1>4. CASE code[r] \in {"arca_rejected", "database_error"}
  BY <1>1, <1>2, <1>4 DEF IndInv, AnswerInv, Contract!True, Contract!Traceless
<1>5. CASE code[r] \in CleanCode
  BY <1>1, <1>2, <1>5 DEF IndInv, CleanFailure, Contract!True, Contract!Traceless
<1> QED
  BY <1>1, <1>2, <1>3, <1>4, <1>5

LEMMA ReplyContract ==
    ASSUME IndInv, NEW r \in Request, Reply(r)
    PROVE  Contract!Answer(r)
<1>1. /\ pc[r] = "reply" /\ pc' = [pc EXCEPT ![r] = "done"]
      /\ UNCHANGED <<input, code, ref, prior, issuer, arca, number, stored>>
  BY DEF Reply, arcaVars, credVars
<1>2. pc'[r] = "done" /\ \A q \in Request : q # r => pc'[q] = pc[q]
  BY <1>1 DEF IndInv, TypeOK
<1>3. code[r] # "aborted"
  BY <1>1 DEF IndInv, AnswerInv
<1>4. Told' = [Told EXCEPT ![r] = code[r]]
  BY <1>1, <1>2 DEF Told
<1>5. Shown' = [Shown EXCEPT ![r] = ref[r]]
  BY <1>1, <1>2, <1>3 DEF Shown
<1>6. Received' = Received /\ Signed' = Signed
  BY <1>1, <1>2 DEF Received, Signed
<1>7. Contract!Open(r)
  BY <1>1 DEF Contract!Open, Received, Told
<1>8. Told'[r] = code[r] /\ Shown'[r] = ref[r]
  BY <1>4, <1>5 DEF Told, Shown
<1>9. code[r] # "none"
  BY <1>1 DEF IndInv, AnswerInv
<1> QED
  BY <1>1, <1>4, <1>5, <1>6, <1>7, <1>8, <1>9, AnswerTrue DEF Contract!Answer

\* A panic of the lookup cuts one request off, the end of the process all.
LEMMA CutOffContract ==
    ASSUME TypeOK,
           \/ Crash
           \/ \E r \in Request : LookupPanics(r)
    PROVE  Contract!CutOff
<1>1. PICK lost \in SUBSET {r \in Request : Running(r)} :
          /\ \A q \in lost : pc'[q] = "done" /\ code'[q] = "aborted"
          /\ \A q \in Request \ lost : pc'[q] = pc[q] /\ code'[q] = code[q]
  <2>1. CASE Crash
    <3>1. \A q \in {r \in Request : Running(r)} : pc'[q] = "done" /\ code'[q] = "aborted"
      BY <2>1 DEF Crash
    <3>2. \A q \in Request \ {r \in Request : Running(r)} : pc'[q] = pc[q] /\ code'[q] = code[q]
      BY <2>1 DEF Crash
    <3> QED
      BY <3>1, <3>2
  <2>2. ASSUME NEW r \in Request, LookupPanics(r)
        PROVE  \E lost \in SUBSET {q \in Request : Running(q)} :
                  /\ \A q \in lost : pc'[q] = "done" /\ code'[q] = "aborted"
                  /\ \A q \in Request \ lost : pc'[q] = pc[q] /\ code'[q] = code[q]
    <3>1. /\ {r} \in SUBSET {q \in Request : Running(q)}
          /\ \A q \in {r} : pc'[q] = "done" /\ code'[q] = "aborted"
          /\ \A q \in Request \ {r} : pc'[q] = pc[q] /\ code'[q] = code[q]
      BY <2>2 DEF LookupPanics, Running, TypeOK
    <3> QED
      BY <3>1
  <2> QED
    BY <2>1, <2>2
<1>2. UNCHANGED <<input, ref, prior, issuer, arca, number, stored>>
  BY DEF Crash, LookupPanics, arcaVars, credVars
<1>3. Received' = Received /\ Signed' = Signed
  BY <1>1, <1>2 DEF Received, Running, Signed
<1>4. Shown' = Shown
  <2>1. ASSUME NEW q \in Request
        PROVE  (pc'[q] = "done" /\ code'[q] # "aborted")
                  <=> (pc[q] = "done" /\ code[q] # "aborted")
    BY <1>1 DEF Running
  <2> QED
    BY <1>2, <2>1 DEF Shown
<1>5. lost \in SUBSET {r \in Request : Contract!Open(r)}
  BY <1>1 DEF Running, Contract!Open, Received, Told
<1>6. Told' = [q \in Request |-> IF q \in lost THEN "aborted" ELSE Told[q]]
  BY <1>1 DEF Told
<1> QED
  BY <1>2, <1>3, <1>4, <1>5, <1>6 DEF Contract!CutOff

\* Every step is a step of the contract, or seen by nobody.
LEMMA ContractStep ==
    ASSUME IndInv, [Next]_vars
    PROVE  [Contract!Next]_(Contract!vars)
<1>0. TypeOK
  BY DEF IndInv
<1> USE DEF Contract!Next
<1>1. ASSUME NEW r \in Request, IssueInvoice(r) PROVE Contract!Next
  BY <1>0, <1>1, ArriveContract
<1>2. ASSUME NEW r \in Request, Handle(r) PROVE [Contract!Next]_(Contract!vars)
  <2>1. CASE \/ GetByIdempotencyKey(r) \/ ParseInvoiceType(r) \/ GetByID(r)
             \/ GetByCustomerAndEnvironment(r) \/ NewInvoice(r) \/ GetLastVoucher(r)
             \/ MarkIssued(r) \/ MarkRejected(r)
    BY <1>0, <2>1, QuietContract DEF IndInv
  <2>2. CASE LookupPanics(r)
    BY <1>0, <2>2, CutOffContract
  <2>3. CASE CreateVoucher(r)
    BY <2>3, SendContract
  <2>4. CASE Create(r) \/ CreateRejected(r)
    BY <2>4, SaveContract
  <2>5. CASE Reply(r)
    BY <2>5, ReplyContract
  <2> QED
    BY <1>2, <2>1, <2>2, <2>3, <2>4, <2>5 DEF Handle
<1>3. ASSUME NEW r \in Request, ARCAAuthorises(r) \/ ARCARefuses(r) PROVE Contract!Next
  BY <1>3, DecideContract
<1>4. ASSUME NEW c \in Customer, CredentialExpires(c) \/ CredentialStored(c)
      PROVE  UNCHANGED Contract!vars
  BY <1>4 DEF CredentialExpires, CredentialStored, serverVars, arcaVars, Contract!vars, Received, Told, Shown, Signed
<1>5. ASSUME Crash PROVE Contract!Next
  BY <1>0, <1>5, CutOffContract
<1>6. ASSUME UNCHANGED vars PROVE UNCHANGED Contract!vars
  BY <1>6 DEF vars, serverVars, arcaVars, credVars, Contract!vars, Received, Told, Shown, Signed
<1> QED
  BY <1>1, <1>2, <1>3, <1>4, <1>5, <1>6 DEF Next

\* The operation keeps its contract with the client, ARCA and the table, for any
\* number of requests, keys and books, and under every failure and crash
\* (invoice.go and issue_invoice.go:75-161).
THEOREM OperationKeepsContract == Spec => KeepsContract
<1>1. Init => Contract!Init
  BY DEF Init, Contract!Init, Received, Told, Shown, Signed
<1> QED
  BY <1>1, ContractStep, Invariance, PTL DEF Spec, KeepsContract, Contract!Spec

=============================================================================
