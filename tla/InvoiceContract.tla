----------------------------- MODULE InvoiceContract -----------------------------
(***************************************************************************)
(* What POST /v1/facturar promises, seen from outside: by the client, who  *)
(* sends requests and gets answers; by ARCA, which is asked for vouchers;  *)
(* and by whoever reads the invoices table.  There are no goroutines here, *)
(* no steps inside a request and no errors of collaborators, only what may *)
(* be seen to happen and when.  Module IssueInvoice is shown to implement  *)
(* this one.                                                               *)
(***************************************************************************)
EXTENDS Naturals

CONSTANTS
    Request,   \* the HTTP requests the server ever receives
    NoKey,     \* no Idempotency-Key
    Cuit,      \* the issuers of invoices
    NoCuit,    \* no issuer
    CleanCode  \* the codes that say that nothing was issued

VARIABLES
    input,     \* what each request carries: its customer, key and series
    arrived,   \* the requests the server has received
    earlier,   \* [Request -> SUBSET Request]: the invoices in the table when
               \* the request arrived
    voucher,   \* [Request -> {"none", "sent", "approved", "refused"}]
    signed,    \* [Request -> Cuit or NoCuit]: in whose name ARCA was asked
    number,    \* [Request -> Nat]: the number ARCA gave its voucher, 0 for none
    row,       \* [Request -> {"absent", "issued", "rejected"}]: its invoice
    answer,    \* [Request -> code]: what the client was told, "none" so far
    shows      \* [Request -> Request]: whose invoice the answer shows

vars == <<input, arrived, earlier, voucher, signed, number, row, answer, shows>>

SameBook(r, s) ==
    /\ signed[r] = signed[s]
    /\ input[r].series = input[s].series

SameKey(r, s) ==
    /\ input[r].key # NoKey
    /\ input[r].key = input[s].key
    /\ input[r].customer = input[s].customer

\* r was received and is not answered yet.
Open(r) == r \in arrived /\ answer[r] = "none"

\* Nothing has come of r: no voucher request, no invoice.
Traceless(r) == voucher[r] = "none" /\ row[r] = "absent"

Init ==
    /\ arrived = {}
    /\ earlier = [r \in Request |-> {}]
    /\ voucher = [r \in Request |-> "none"]
    /\ signed = [r \in Request |-> NoCuit]
    /\ number = [r \in Request |-> 0]
    /\ row = [r \in Request |-> "absent"]
    /\ answer = [r \in Request |-> "none"]
    /\ shows = [r \in Request |-> r]

Arrive(r) ==
    /\ r \notin arrived
    /\ arrived' = arrived \cup {r}
    /\ earlier' = [earlier EXCEPT ![r] = {s \in Request : row[s] # "absent"}]
    /\ UNCHANGED <<input, voucher, signed, number, row, answer, shows>>

\* ARCA is asked once for a request, in the name of one CUIT, while the request
\* is open, and never for one whose key had an invoice when it arrived.
Send(r) ==
    /\ Open(r) /\ Traceless(r)
    /\ \A s \in earlier[r] : ~SameKey(r, s)
    /\ voucher' = [voucher EXCEPT ![r] = "sent"]
    /\ \E q \in Cuit : signed' = [signed EXCEPT ![r] = q]
    /\ UNCHANGED <<input, arrived, earlier, number, row, answer, shows>>

\* ARCA gives a number that no other voucher of the book has, or refuses.  It
\* may do so when the client has long been answered.
Decide(r) ==
    /\ voucher[r] = "sent"
    /\ \/ /\ voucher' = [voucher EXCEPT ![r] = "approved"]
          /\ number' = [number EXCEPT ![r] = number'[r]]
          /\ number'[r] \in Nat \ {0}
          /\ \A s \in Request : s # r /\ SameBook(r, s) => number[s] # number'[r]
       \/ /\ voucher' = [voucher EXCEPT ![r] = "refused"]
          /\ UNCHANGED number
    /\ UNCHANGED <<input, arrived, earlier, signed, row, answer, shows>>

\* An invoice is saved once, while its request is open: an issued one only if
\* ARCA approved it, a rejected one only if ARCA was asked.
Save(r) ==
    /\ Open(r) /\ row[r] = "absent"
    /\ \/ voucher[r] = "approved" /\ row' = [row EXCEPT ![r] = "issued"]
       \/ voucher[r] # "none" /\ row' = [row EXCEPT ![r] = "rejected"]
    /\ UNCHANGED <<input, arrived, earlier, voucher, signed, number, answer, shows>>

\* What makes each answer true.  An error of the database leaves the client in
\* doubt: nothing was sent, or an approved voucher may be saved or not.
True(r, code, s) ==
    \/ code = "created" /\ s = r /\ voucher[r] = "approved" /\ row[r] = "issued"
    \/ code = "created" /\ SameKey(r, s) /\ row[s] # "absent" /\ Traceless(r)
    \/ code = "arca_rejected" /\ voucher[r] # "none" /\ row[r] # "issued"
    \/ code = "database_error" /\ Traceless(r)
    \/ code = "database_error" /\ voucher[r] = "approved" /\ row[r] # "rejected"
    \/ code \in CleanCode /\ Traceless(r)

\* A request is answered once, and what it is told is true.
Answer(r) ==
    /\ Open(r)
    /\ answer' = [answer EXCEPT ![r] = answer'[r]]
    /\ shows' = [shows EXCEPT ![r] = shows'[r]]
    /\ answer'[r] # "none"
    /\ shows'[r] \in Request
    /\ True(r, answer'[r], shows'[r])
    /\ UNCHANGED <<input, arrived, earlier, voucher, signed, number, row>>

\* Open requests are cut off, by a panic or by the end of the process, wherever
\* they are.
CutOff ==
    /\ \E lost \in SUBSET {r \in Request : Open(r)} :
          answer' = [r \in Request |-> IF r \in lost THEN "aborted" ELSE answer[r]]
    /\ UNCHANGED <<input, arrived, earlier, voucher, signed, number, row, shows>>

Next ==
    \/ CutOff
    \/ \E r \in Request : Arrive(r) \/ Send(r) \/ Decide(r) \/ Save(r) \/ Answer(r)

Spec == Init /\ [][Next]_vars

=============================================================================
