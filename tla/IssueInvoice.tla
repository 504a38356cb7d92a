------------------------------ MODULE IssueInvoice ------------------------------
(***************************************************************************)
(* The invoice-issuing operation of the proxy: POST /v1/facturar, from the *)
(* HTTP handler (internal/interfaces/http/handlers/invoice.go) through the *)
(* application service (internal/application/invoice/issue_invoice.go) to  *)
(* its four collaborators, which the service reaches only through Go       *)
(* interfaces: the invoice, user and credential repositories, and ARCA.    *)
(*                                                                         *)
(* net/http runs every request in a goroutine of its own, and the service  *)
(* takes no lock, so a behaviour interleaves the requests at every call to *)
(* a collaborator.  One action is one such call with the code up to the    *)
(* next.  A collaborator call either does its work or returns an error.    *)
(* For the store this is the contract that the in-memory repository of the *)
(* tests and the PostgreSQL repository share: module PostgresInvoices is   *)
(* the PostgreSQL one, and is shown to implement this module.              *)
(*                                                                         *)
(* Identities.  An invoice is named by the request that built it.  A book  *)
(* is what ARCA numbers vouchers in: an issuer with an invoice type and a  *)
(* point of sale.  The issuer is the CUIT of the credential that the       *)
(* request read, which is not the customer: arca_credentials lets one      *)
(* customer have rows of several CUITs and several customers rows of one.  *)
(***************************************************************************)
EXTENDS Integers

CONSTANTS
    Request,     \* the HTTP requests the server ever receives
    Customer,    \* authenticated customers (the middleware fixes user_id)
    Key,         \* non-empty Idempotency-Key values
    NoKey,       \* the empty string: no Idempotency-Key header
    Series,      \* invoice type with point of sale, as the body carries them
    Input,       \* the inputs a request may carry
    Registered,  \* customers that have a users row
    Cuit,        \* the CUITs that credentials are for
    NoCuit       \* no credential has been read

\* What can be wrong with an input, in the order the code looks for it: the
\* body is no JSON, the type is not A, B or C, an item is invalid, the
\* invoice as a whole is (no item, or a point of sale that is not positive).
Defect == {"body", "type", "item", "invoice"}

InputType ==
    [customer : Customer, key : Key \cup {NoKey}, series : Series,
     defects : SUBSET Defect]

ASSUME ConstantsAssumption ==
    /\ Input \subseteq InputType
    /\ Input # {}
    /\ NoKey \notin Key
    /\ Registered \subseteq Customer
    /\ NoCuit \notin Cuit

VARIABLES
    input,          \* [Request -> Input]: what each request carries
    pc,             \* [Request -> Step]: where its goroutine is
    code,           \* [Request -> Outcome]: what the service returned
    inv,            \* [Request -> Invoice]: the *Invoice the goroutine built
    ref,            \* [Request -> Request]: the invoice IssueInvoiceOutput holds
    voucherNumber,  \* [Request -> Nat]: the local of that name
    credential,     \* [Customer -> SUBSET CredentialRow]: the customer's
                    \* arca_credentials rows of the server's environment
    issuer,         \* [Request -> Cuit or NoCuit]: cred.CUIT, which the voucher
                    \* request carries to ARCA
    arca,           \* [Request -> VoucherState]: the voucher request at ARCA
    number,         \* [Request -> Nat]: the number ARCA gave it, 0 for none
    last,           \* [Book -> Nat]: last number authorised in each book
    stored,         \* [Request -> Row]: the persisted invoices
    prior,          \* [Request -> SUBSET Request]: history, the invoices that
                    \* were stored when the request arrived
    usable          \* [Request -> SUBSET Cuit]: history, the CUITs of which the
                    \* customer has had an unexpired row at some time since the
                    \* request arrived; of those, once it has read a
                    \* credential, the one it goes on with

serverVars == <<pc, code, inv, ref, voucherNumber>>
arcaVars   == <<arca, number, last>>
credVars   == <<credential, issuer, usable>>
vars == <<input, serverVars, credVars, arcaVars, stored, prior>>

Step == {"idle", "lookup", "type", "user", "credential", "build", "last",
         "voucher", "await", "persist", "persistRejected", "reply", "done"}

\* Codes of internal/domain/errors with which nothing was sent to ARCA.
CleanCode ==
    {"invalid_request", "invalid_invoice_type", "not_found",
     "arca_authentication_failed", "invalid_amount", "validation_failed",
     "arca_service_unavailable"}

\* "created" is success; "aborted" is a goroutine that never returned, by a
\* panic or because the process died.
Outcome == CleanCode \cup
    {"none", "created", "arca_rejected", "database_error", "aborted"}

Status  == {"none", "pending", "issued", "rejected"}
Invoice == [status : Status, voucher : Nat]
NoInvoice == [status |-> "none", voucher |-> 0]

Row == {"absent", "issued", "rejected"}
VoucherState == {"none", "sent", "approved", "refused"}

\* A row is the CUIT it is for, and NoCuit once it has expired: the code uses
\* nothing of an expired row.
CredentialRow == Cuit \cup {NoCuit}

\* The CUITs of which customer c has a credential that has not expired.
Unexpired(c) == credential[c] \ {NoCuit}

Book == Cuit \X Series
BookOf(r) == <<issuer[r], input[r].series>>

\* Two requests of one customer under one idempotency key.
SameKey(r, s) ==
    /\ input[r].key # NoKey
    /\ input[r].key = input[s].key
    /\ input[r].customer = input[s].customer

Stored == {r \in Request : stored[r] # "absent"}

\* The rows a lookup by (customer, key) selects.
Matches(r) == {s \in Stored : SameKey(r, s)}

TypeOK ==
    /\ input \in [Request -> Input]
    /\ pc \in [Request -> Step]
    /\ code \in [Request -> Outcome]
    /\ inv \in [Request -> Invoice]
    /\ ref \in [Request -> Request]
    /\ voucherNumber \in [Request -> Nat]
    /\ credential \in [Customer -> SUBSET CredentialRow]
    /\ issuer \in [Request -> Cuit \cup {NoCuit}]
    /\ usable \in [Request -> SUBSET Cuit]
    /\ arca \in [Request -> VoucherState]
    /\ number \in [Request -> Nat]
    /\ last \in [Book -> Nat]
    /\ stored \in [Request -> Row]
    /\ prior \in [Request -> SUBSET Request]

Init ==
    /\ input \in [Request -> Input]
    /\ pc = [r \in Request |-> "idle"]
    /\ code = [r \in Request |-> "none"]
    /\ inv = [r \in Request |-> NoInvoice]
    /\ ref = [r \in Request |-> r]
    /\ voucherNumber = [r \in Request |-> 0]
    /\ credential \in [Customer -> SUBSET CredentialRow]
    /\ \A c \in Customer \ Registered : credential[c] = {}
    /\ issuer = [r \in Request |-> NoCuit]
    /\ usable = [r \in Request |-> {}]
    /\ arca = [r \in Request |-> "none"]
    /\ number = [r \in Request |-> 0]
    /\ last = [b \in Book |-> 0]
    /\ stored = [r \in Request |-> "absent"]
    /\ prior = [r \in Request |-> {}]

-----------------------------------------------------------------------------
(***************************************************************************)
(* Control of one goroutine.                                               *)
(***************************************************************************)

\* The service goes on to step s.
Goto(r, s) ==
    /\ pc' = [pc EXCEPT ![r] = s]
    /\ UNCHANGED code

\* The service returns c to the handler.
Return(r, c) ==
    /\ pc' = [pc EXCEPT ![r] = "reply"]
    /\ code' = [code EXCEPT ![r] = c]

-----------------------------------------------------------------------------
(***************************************************************************)
(* Plausible mistakes in the actions below, kept to show that the          *)
(* properties notice them.  No specification uses these definitions.       *)
(***************************************************************************)

GetByIdempotencyKeyIgnoringErrors(r) ==
    /\ pc[r] = "lookup"
    /\ \/ \E s \in Matches(r) :
             /\ ref' = [ref EXCEPT ![r] = s]
             /\ Return(r, "created")
       \/ Goto(r, "type") /\ UNCHANGED ref
    /\ UNCHANGED <<input, inv, voucherNumber, credVars, arcaVars, stored, prior>>

GetByCustomerIgnoringExpiry(r) ==
    /\ pc[r] = "credential"
    /\ \E row \in credential[input[r].customer] :
          \E q \in IF row = NoCuit THEN Cuit ELSE {row} :
             issuer' = [issuer EXCEPT ![r] = q]
    /\ Goto(r, "build")
    /\ usable' = [usable EXCEPT ![r] = @ \cap {issuer'[r]}]
    /\ UNCHANGED <<input, inv, ref, voucherNumber, credential, arcaVars, stored,
                   prior>>

GetLastVoucherMinusOne(r) ==
    /\ pc[r] = "last"
    /\ voucherNumber' = [voucherNumber EXCEPT ![r] = last[BookOf(r)] - 1]
    /\ Goto(r, "voucher")
    /\ UNCHANGED <<input, inv, ref, credVars, arcaVars, stored, prior>>

MarkIssuedUnchecked(r) ==
    /\ pc[r] = "await"
    /\ arca[r] \in {"approved", "refused"}
    /\ inv' = [inv EXCEPT ![r] = [status |-> "issued", voucher |-> number[r]]]
    /\ Goto(r, "persist")
    /\ UNCHANGED <<input, ref, voucherNumber, credVars, arcaVars, stored, prior>>

MarkIssuedWithLocalNumber(r) ==
    /\ pc[r] = "await"
    /\ arca[r] = "approved"
    /\ inv' = [inv EXCEPT ![r] = [status |-> "issued", voucher |-> voucherNumber[r]]]
    /\ Goto(r, "persist")
    /\ UNCHANGED <<input, ref, voucherNumber, credVars, arcaVars, stored, prior>>

CreateIgnoringErrors(r) ==
    /\ pc[r] = "persist"
    /\ stored' \in {stored, [stored EXCEPT ![r] = inv[r].status]}
    /\ Return(r, "created")
    /\ UNCHANGED <<input, inv, ref, voucherNumber, credVars, arcaVars, prior>>

\* A voucher request that failed is sent again.
CreateVoucherRetried(r) ==
    /\ pc[r] = "await"
    /\ arca' = [arca EXCEPT ![r] = "sent"]
    /\ UNCHANGED <<input, serverVars, credVars, number, last, stored, prior>>

CreateRejectedAsUnavailable(r) ==
    /\ pc[r] = "persistRejected"
    /\ stored' \in {stored, [stored EXCEPT ![r] = inv[r].status]}
    /\ Return(r, "arca_service_unavailable")
    /\ UNCHANGED <<input, inv, ref, voucherNumber, credVars, arcaVars, prior>>

-----------------------------------------------------------------------------
(***************************************************************************)
(* The request up to the point where its invoice is built.                 *)
(***************************************************************************)

\* The handler decodes the body.  Without a key the service skips the lookup.
IssueInvoice(r) ==
    /\ pc[r] = "idle"
    /\ prior' = [prior EXCEPT ![r] = Stored]
    /\ usable' = [usable EXCEPT ![r] = Unexpired(input[r].customer)]
    /\ \/ /\ "body" \in input[r].defects
          /\ Return(r, "invalid_request")
       \/ /\ "body" \notin input[r].defects
          /\ Goto(r, IF input[r].key = NoKey THEN "type" ELSE "lookup")
    /\ UNCHANGED <<input, inv, ref, voucherNumber, credential, issuer, arcaVars,
                   stored>>

\* The lookup returns a stored invoice of the key, which is the answer; or no
\* such invoice, and the service goes on; or an error, which is returned.
GetByIdempotencyKey(r) ==
    /\ pc[r] = "lookup"
    /\ \/ \E s \in Matches(r) :
             /\ ref' = [ref EXCEPT ![r] = s]
             /\ Return(r, "created")
       \/ /\ Matches(r) = {}
          /\ Goto(r, "type")
          /\ UNCHANGED ref
       \/ /\ Return(r, "database_error")
          /\ UNCHANGED ref
    /\ UNCHANGED <<input, inv, voucherNumber, credVars, arcaVars, stored, prior>>

\* The PostgreSQL repository takes the address of a field of the nil
\* ARCAResponse and panics; net/http recovers and drops the connection.
LookupPanics(r) ==
    /\ pc[r] = "lookup"
    /\ pc' = [pc EXCEPT ![r] = "done"]
    /\ code' = [code EXCEPT ![r] = "aborted"]
    /\ UNCHANGED <<input, inv, ref, voucherNumber, credVars, arcaVars, stored, prior>>

ParseInvoiceType(r) ==
    /\ pc[r] = "type"
    /\ IF "type" \in input[r].defects
       THEN Return(r, "invalid_invoice_type")
       ELSE Goto(r, "user")
    /\ UNCHANGED <<input, inv, ref, voucherNumber, credVars, arcaVars, stored, prior>>

\* The user repository: a row, none, or an error.  (The in-memory one of the
\* tests returns the row; module PostgresInvoices says what the other does.)
GetByID(r) ==
    /\ pc[r] = "user"
    /\ \/ input[r].customer \in Registered /\ Goto(r, "credential")
       \/ input[r].customer \notin Registered /\ Return(r, "not_found")
       \/ Return(r, "database_error")
    /\ UNCHANGED <<input, inv, ref, voucherNumber, credVars, arcaVars, stored, prior>>

\* The credential repository, which returns any row the customer has in the
\* environment, of whatever CUIT, and IsExpired on it.
GetByCustomerAndEnvironment(r) ==
    /\ pc[r] = "credential"
    /\ \/ /\ \E q \in Unexpired(input[r].customer) : issuer' = [issuer EXCEPT ![r] = q]
          /\ Goto(r, "build")
       \/ /\ \/ credential[input[r].customer] = {}
             \/ NoCuit \in credential[input[r].customer]
          /\ Return(r, "arca_authentication_failed")
          /\ UNCHANGED issuer
       \/ /\ Return(r, "database_error")
          /\ UNCHANGED issuer
    /\ usable' = [usable EXCEPT ![r] = @ \cap {issuer'[r]}]
    /\ UNCHANGED <<input, inv, ref, voucherNumber, credential, arcaVars, stored,
                   prior>>

\* NewInvoiceItem on every item, then NewInvoice.
NewInvoice(r) ==
    /\ pc[r] = "build"
    /\ \/ /\ "item" \in input[r].defects
          /\ Return(r, "invalid_amount")
          /\ UNCHANGED inv
       \/ /\ "item" \notin input[r].defects
          /\ "invoice" \in input[r].defects
          /\ Return(r, "validation_failed")
          /\ UNCHANGED inv
       \/ /\ input[r].defects \cap {"item", "invoice"} = {}
          /\ Goto(r, "last")
          /\ inv' = [inv EXCEPT ![r] = [status |-> "pending", voucher |-> 0]]
    /\ UNCHANGED <<input, ref, voucherNumber, credVars, arcaVars, stored, prior>>

-----------------------------------------------------------------------------
(***************************************************************************)
(* The conversation with ARCA.  The voucher request carries no number: the *)
(* local voucherNumber is handed to buildVoucherRequest, which drops it.   *)
(* ARCA decides on a request at any time after it is sent, also after the  *)
(* client has given up on the answer, and numbers each book on its own.    *)
(***************************************************************************)

GetLastVoucher(r) ==
    /\ pc[r] = "last"
    /\ \/ /\ voucherNumber' = [voucherNumber EXCEPT ![r] = last[BookOf(r)] + 1]
          /\ Goto(r, "voucher")
       \/ /\ Return(r, "arca_service_unavailable")
          /\ UNCHANGED voucherNumber
    /\ UNCHANGED <<input, inv, ref, credVars, arcaVars, stored, prior>>

\* buildVoucherRequest and the call leaves the process.
CreateVoucher(r) ==
    /\ pc[r] = "voucher"
    /\ arca' = [arca EXCEPT ![r] = "sent"]
    /\ Goto(r, "await")
    /\ UNCHANGED <<input, inv, ref, voucherNumber, credVars, number, last,
                   stored, prior>>

ARCAAuthorises(r) ==
    /\ arca[r] = "sent"
    /\ arca' = [arca EXCEPT ![r] = "approved"]
    /\ number' = [number EXCEPT ![r] = last[BookOf(r)] + 1]
    /\ last' = [last EXCEPT ![BookOf(r)] = @ + 1]
    /\ UNCHANGED <<input, serverVars, credVars, stored, prior>>

ARCARefuses(r) ==
    /\ arca[r] = "sent"
    /\ arca' = [arca EXCEPT ![r] = "refused"]
    /\ UNCHANGED <<input, serverVars, credVars, number, last, stored, prior>>

\* An approving answer arrives: the number is the one ARCA answered.
MarkIssued(r) ==
    /\ pc[r] = "await"
    /\ arca[r] = "approved"
    /\ inv' = [inv EXCEPT ![r] = [status |-> "issued", voucher |-> number[r]]]
    /\ Goto(r, "persist")
    /\ UNCHANGED <<input, ref, voucherNumber, credVars, arcaVars, stored, prior>>

\* A refusing answer arrives, or CreateVoucher returns an error, whatever
\* has become or will become of the request at ARCA.  Both mark the invoice
\* rejected.
MarkRejected(r) ==
    /\ pc[r] = "await"
    /\ inv' = [inv EXCEPT ![r] = [status |-> "rejected", voucher |-> 0]]
    /\ Goto(r, "persistRejected")
    /\ UNCHANGED <<input, ref, voucherNumber, credVars, arcaVars, stored, prior>>

-----------------------------------------------------------------------------
(***************************************************************************)
(* Persisting and answering.                                               *)
(***************************************************************************)

\* Saving an issued invoice.  An error may come before or after the commit.
Create(r) ==
    /\ pc[r] = "persist"
    /\ \/ /\ stored' = [stored EXCEPT ![r] = inv[r].status]
          /\ Return(r, "created")
       \/ /\ stored' \in {stored, [stored EXCEPT ![r] = inv[r].status]}
          /\ Return(r, "database_error")
    /\ UNCHANGED <<input, inv, ref, voucherNumber, credVars, arcaVars, prior>>

\* Saving a rejected invoice: the result of Create is dropped.
CreateRejected(r) ==
    /\ pc[r] = "persistRejected"
    /\ stored' \in {stored, [stored EXCEPT ![r] = inv[r].status]}
    /\ Return(r, "arca_rejected")
    /\ UNCHANGED <<input, inv, ref, voucherNumber, credVars, arcaVars, prior>>

\* The handler writes the status line and the body.
Reply(r) ==
    /\ pc[r] = "reply"
    /\ pc' = [pc EXCEPT ![r] = "done"]
    /\ UNCHANGED <<input, code, inv, ref, voucherNumber, credVars, arcaVars,
                   stored, prior>>

-----------------------------------------------------------------------------
(***************************************************************************)
(* The environment.                                                        *)
(***************************************************************************)

Running(r) == pc[r] \notin {"idle", "done"}

\* The process dies (SIGKILL, or log.Fatalf when the requests in flight
\* outlive the ten seconds of Shutdown) and is started again: every running
\* goroutine is gone, what ARCA and the store hold is not.
Crash ==
    /\ pc' = [r \in Request |-> IF Running(r) THEN "done" ELSE pc[r]]
    /\ code' = [r \in Request |-> IF Running(r) THEN "aborted" ELSE code[r]]
    /\ inv' = [r \in Request |-> IF Running(r) THEN NoInvoice ELSE inv[r]]
    /\ UNCHANGED <<input, ref, voucherNumber, credVars, arcaVars, stored, prior>>

\* Time passes the ExpiresAt of a row of c, of its last unexpired one of that
\* CUIT or not.
CredentialExpires(c) ==
    /\ \E q \in Unexpired(c) : \E rest \in {credential[c], credential[c] \ {q}} :
          credential' = [credential EXCEPT ![c] = rest \cup {NoCuit}]
    /\ UNCHANGED <<input, serverVars, issuer, usable, arcaVars, stored, prior>>

\* r has arrived, and a credential for it is still to be read.
BeforeRead(r) == pc[r] \in {"lookup", "type", "user", "credential"}

\* A further credential of c is made, which NewARCACredential refuses if it has
\* expired, and inserted, which needs the users row.  No endpoint does this: it
\* is an operator's work.
CredentialStored(c) ==
    /\ c \in Registered
    /\ \E q \in Cuit :
          /\ credential' = [credential EXCEPT ![c] = @ \cup {q}]
          /\ usable' = [r \in Request |->
                IF input[r].customer = c /\ BeforeRead(r)
                THEN usable[r] \cup {q} ELSE usable[r]]
    /\ UNCHANGED <<input, serverVars, issuer, arcaVars, stored, prior>>

\* The steps of request r's goroutine once the request has arrived.
Handle(r) ==
    \/ GetByIdempotencyKey(r)
    \/ LookupPanics(r)
    \/ ParseInvoiceType(r)
    \/ GetByID(r)
    \/ GetByCustomerAndEnvironment(r)
    \/ NewInvoice(r)
    \/ GetLastVoucher(r)
    \/ CreateVoucher(r)
    \/ MarkIssued(r)
    \/ MarkRejected(r)
    \/ Create(r)
    \/ CreateRejected(r)
    \/ Reply(r)

Next ==
    \/ \E r \in Request :
          IssueInvoice(r) \/ Handle(r) \/ ARCAAuthorises(r) \/ ARCARefuses(r)
    \/ \E c \in Customer : CredentialExpires(c) \/ CredentialStored(c)
    \/ Crash

Spec == Init /\ [][Next]_vars

-----------------------------------------------------------------------------
(***************************************************************************)
(* Properties.                                                             *)
(***************************************************************************)

\* An invoice is saved as issued only if ARCA authorised its voucher, however
\* ARCA's late decisions, lost answers and crashes interleave with the checks
\* of the answer's Result (issue_invoice.go:131-147).
IssuedMeansAuthorised ==
    \A r \in Request : stored[r] = "issued" => arca[r] = "approved"

\* Two issued invoices of one book, be they of one customer or of two that have
\* credentials of the same CUIT, never carry the same number, although the
\* goroutines of both may have read the same last voucher before either was
\* authorised (issue_invoice.go:122-150: the number recorded is the answer's,
\* not the local one).
NumbersDistinct ==
    \A r, s \in Request :
        /\ r # s
        /\ inv[r].status = "issued"
        /\ inv[s].status = "issued"
        /\ BookOf(r) = BookOf(s)
        => inv[r].voucher # inv[s].voucher

\* A 201 always stands for a saved invoice: the request's own, issued one, or
\* one saved under the same customer and key, and then the request itself
\* reached neither ARCA nor the store (issue_invoice.go:81-83, 156-160).
CreatedMeansStored ==
    \A r \in Request : code[r] = "created" =>
        \/ ref[r] = r /\ stored[r] = "issued"
        \/ /\ SameKey(r, ref[r])
           /\ ref[r] \in Stored
           /\ arca[r] = "none"
           /\ stored[r] = "absent"

\* Nothing is sent to ARCA for a request that any of the checks spread over
\* the handler, the service and the domain constructors should have stopped
\* (issue_invoice.go:86-120), and nothing in the name of a CUIT whose
\* credentials of that customer had all expired before the request arrived, or
\* that it never had: whichever rows expire and are inserted while the request
\* is on its way (repositories.go:202-209, issue_invoice.go:96-106, 185).
OnlyValidInputReachesARCA ==
    \A r \in Request : arca[r] # "none" =>
        /\ input[r].defects = {}
        /\ input[r].customer \in Registered
        /\ issuer[r] \in usable[r]

\* An error code that tells the client nothing was issued is true for ever:
\* no voucher request is on its way to ARCA and no invoice was saved, so the
\* client may send the request again (every early return, and :124).
CleanFailure ==
    \A r \in Request :
        code[r] \in CleanCode => arca[r] = "none" /\ stored[r] = "absent"

\* A retry is never issued again: a request under a key of which an invoice
\* was saved before the request arrived sends nothing to ARCA, whatever fails
\* in between (issue_invoice.go:76-84).
RetryNeverReissues ==
    \A r \in Request : arca[r] # "none" =>
        \A s \in prior[r] : ~SameKey(r, s)

\* The operation seen from outside: the requests that were received, the answers
\* that the handler has written, and the invoices they show.
Received == {r \in Request : pc[r] # "idle"}
Told == [r \in Request |-> IF pc[r] = "done" THEN code[r] ELSE "none"]
Shown ==
    [r \in Request |-> IF pc[r] = "done" /\ code[r] # "aborted" THEN ref[r] ELSE r]

\* The CUIT in whose name ARCA was asked.
Signed == [r \in Request |-> IF arca[r] = "none" THEN NoCuit ELSE issuer[r]]

Contract == INSTANCE InvoiceContract
    WITH arrived <- Received, earlier <- prior, voucher <- arca, signed <- Signed,
         row <- stored, answer <- Told, shows <- Shown

\* The operation keeps its contract: one voucher request per request and none
\* for a retry, one invoice and one answer, each at a moment when it is true,
\* and nothing more comes of a request once it is answered, except a late
\* decision of ARCA (invoice.go and issue_invoice.go:75-161).
KeepsContract == Contract!Spec

(***************************************************************************)
(* What the documents and tests of the repository say and the code does    *)
(* not do.                                                                 *)
(***************************************************************************)

\* "idempotent calls should return same invoice": two 201 answers under one
\* key stand for the same invoice (tests/application_invoice_test.go).
SameKeySameInvoice ==
    \A r, s \in Request :
        SameKey(r, s) /\ code[r] = "created" /\ code[s] = "created"
            => ref[r] = ref[s]

\* "Invoice created and issued successfully": a 201 shows an issued invoice
\* (docs/openapi.yaml).
CreatedMeansIssued ==
    \A r \in Request : code[r] = "created" => stored[ref[r]] = "issued"

\* "`arca_rejected` - ARCA returned rejection" (docs/contracts.md).
RejectedMeansRefused ==
    \A r \in Request : code[r] = "arca_rejected" => arca[r] = "refused"

=============================================================================
