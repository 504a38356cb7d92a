----------------------------- MODULE PostgresInvoices -----------------------------
(***************************************************************************)
(* The invoice operation as cmd/api deploys it: the service of module      *)
(* IssueInvoice over the PostgreSQL repositories                           *)
(* (internal/infrastructure/postgres) and the schema of                    *)
(* migrations/001_initial_schema.sql.                                      *)
(*                                                                         *)
(* Create is one transaction: Begin takes a connection of the pool, the    *)
(* invoice row and each item row are inserted, Commit publishes them.  The *)
(* unique index on (user_id, idempotency_key) makes an insert wait for an  *)
(* open transaction with the same pair and fail on a committed one; the    *)
(* repository writes the empty key as '' and not as NULL, so requests      *)
(* without a key meet in the index like the others.  The other queries of  *)
(* the operation use a connection for their duration only.                 *)
(***************************************************************************)
EXTENDS Integers, Sequences, FiniteSets

CONSTANTS Request, Customer, Key, NoKey, Series, Input, Registered, Cuit,
          NoCuit   \* as in IssueInvoice

CONSTANTS
    Content,    \* the contents an invoice may have for the database
    PoolSize    \* the values DB_MAX_OPEN_CONNS may have

\* Whether the invoice row and each item row fit their columns.  The service
\* lets values through that do not: a point of sale or a quantity above int4,
\* a key above VARCHAR(64), a product that wraps to a negative total_cents.
ContentType == [row : BOOLEAN, items : Seq(BOOLEAN)]

ASSUME PostgresAssumption ==
    /\ Content \subseteq ContentType
    /\ Content # {}
    /\ \A c \in Content : c.items # <<>>
    /\ PoolSize \subseteq Nat \ {0}

VARIABLES input, pc, code, inv, ref, voucherNumber, credential, issuer, usable,
          arca, number, last, prior   \* as in IssueInvoice

VARIABLES
    maxConns,   \* connections of the pool, read from the environment
    content,    \* [Request -> Content]: what each request makes the store insert
    saved,      \* [Request -> SavedRow]: the committed invoices and item rows
    tx,         \* [Request -> TxState]: the goroutine's open transaction
    txItems,    \* [Request -> Nat]: item rows inserted in it
    leaked      \* connections taken from the pool and never given back

storeVars == <<maxConns, content, saved, tx, txItems, leaked>>
vars == <<input, pc, code, inv, ref, voucherNumber, credential, issuer, usable,
          arca, number, last, prior, storeVars>>

TxState == {"none", "begun", "inserted"}

\* A committed invoice row: its status and how many of its items are there.
SavedRow == [status : {"absent", "issued", "rejected"}, items : Nat]
NotSaved == [status |-> "absent", items |-> 0]

\* The service over a store in which exactly the committed rows are visible.
visible == [r \in Request |-> saved[r].status]
Svc == INSTANCE IssueInvoice WITH stored <- visible

ASSUME ServiceAssumption ==
    /\ Input \subseteq Svc!InputType
    /\ Input # {}
    /\ NoKey \notin Key
    /\ Registered \subseteq Customer
    /\ NoCuit \notin Cuit

TypeOK ==
    /\ Svc!TypeOK
    /\ maxConns \in PoolSize
    /\ content \in [Request -> Content]
    /\ saved \in [Request -> SavedRow]
    /\ tx \in [Request -> TxState]
    /\ txItems \in [Request -> Nat]
    /\ leaked \in Nat

\* No invoice is saved, and the pool is new.
EmptyStore ==
    /\ maxConns \in PoolSize
    /\ content \in [Request -> Content]
    /\ saved = [r \in Request |-> NotSaved]
    /\ tx = [r \in Request |-> "none"]
    /\ txItems = [r \in Request |-> 0]
    /\ leaked = 0

Init == EmptyStore /\ Svc!Init

-----------------------------------------------------------------------------
(***************************************************************************)
(* The connection pool and the unique index.                               *)
(***************************************************************************)

InTx == {r \in Request : tx[r] # "none"}
Held == Cardinality(InTx) + leaked

\* Acquire returns without waiting.
ConnFree == Held < maxConns

\* The index entries of r and s are equal: '' counts as a key.
SameEntry(r, s) ==
    /\ input[r].customer = input[s].customer
    /\ input[r].key = input[s].key

\* A committed row has r's entry.
Conflict(r) ==
    \E s \in Request : s # r /\ SameEntry(r, s) /\ saved[s].status # "absent"

\* An open transaction has inserted r's entry: r's insert waits for its end.
LockedOut(r) ==
    \E s \in Request : s # r /\ SameEntry(r, s) /\ tx[s] = "inserted"

Persisting(r) == pc[r] \in {"persist", "persistRejected"}

serviceVars == <<input, inv, ref, voucherNumber, credential, issuer, usable,
                 arca, number, last, prior>>

\* Create has returned, with an error or not, and so does the service.  The
\* result is dropped when the invoice is a rejected one.
Returned(r, failed) ==
    /\ pc' = [pc EXCEPT ![r] = "reply"]
    /\ code' = [code EXCEPT ![r] =
          IF pc[r] = "persistRejected" THEN "arca_rejected"
          ELSE IF failed THEN "database_error" ELSE "created"]
    /\ UNCHANGED serviceVars

\* The transaction is over and its connection is back in the pool.
EndTx(r) ==
    /\ tx' = [tx EXCEPT ![r] = "none"]
    /\ txItems' = [txItems EXCEPT ![r] = 0]
    /\ UNCHANGED <<maxConns, content, leaked>>

\* The rows of r's transaction become visible.
Publish(r) ==
    saved' = [saved EXCEPT ![r] = [status |-> inv[r].status, items |-> txItems[r]]]

-----------------------------------------------------------------------------
(***************************************************************************)
(* Plausible mistakes in the actions below, kept to show that the          *)
(* properties notice them.  No specification uses these definitions.       *)
(***************************************************************************)

\* An error return without the deferred Rollback.
RollbackForgotten(r) ==
    /\ Persisting(r) /\ tx[r] # "none"
    /\ Returned(r, TRUE)
    /\ UNCHANGED storeVars

\* The index is consulted for committed rows only.
InsertInvoiceUnlocked(r) ==
    /\ Persisting(r) /\ tx[r] = "begun"
    /\ content[r].row /\ ~Conflict(r)
    /\ tx' = [tx EXCEPT ![r] = "inserted"]
    /\ UNCHANGED <<pc, code, serviceVars, maxConns, content, saved, txItems, leaked>>

\* The transaction is committed before the last item.
CommitEarly(r) ==
    /\ Persisting(r) /\ tx[r] = "inserted"
    /\ Publish(r)
    /\ EndTx(r)
    /\ Returned(r, FALSE)

\* The lookup gives back a connection it may not have had.
LookupReleasesTwice(r) ==
    /\ UNCHANGED <<maxConns, content, saved, tx, txItems>>
    /\ leaked' = leaked - 1
    /\ Svc!LookupPanics(r)

\* An insert that fails is rolled back and tried again.
InsertRetried(r) ==
    /\ Persisting(r) /\ tx[r] # "none"
    /\ EndTx(r)
    /\ UNCHANGED <<pc, code, serviceVars, saved>>

\* A failed Create of an issued invoice is answered like a good one.
CommitErrorIgnored(r) ==
    /\ Persisting(r) /\ tx[r] = "inserted"
    /\ txItems[r] = Len(content[r].items)
    /\ \/ Publish(r)
       \/ UNCHANGED saved
    /\ Returned(r, FALSE)
    /\ EndTx(r)

-----------------------------------------------------------------------------
(***************************************************************************)
(* Steps of a goroutine.                                                   *)
(***************************************************************************)

\* A query that cannot have a connection waits, or fails when the client
\* goes away and the request's context with it.
Queried(r) == ConnFree \/ code'[r] = "database_error"

\* Steps that use no connection, and queries that use one for an instant.  That
\* GetByID may find the row is more than the code does: UserRepository.GetByID
\* scans timestamps into strings, which fails for every row there is.  The steps
\* after it are those of a repository whose Scan fits its columns.
ServiceStep(r) ==
    /\ UNCHANGED storeVars
    /\ \/ Svc!ParseInvoiceType(r)
       \/ Svc!GetByID(r) /\ Queried(r)
       \/ Svc!GetByCustomerAndEnvironment(r) /\ Queried(r)
       \/ Svc!NewInvoice(r)
       \/ Svc!GetLastVoucher(r)
       \/ Svc!CreateVoucher(r)
       \/ Svc!MarkIssued(r)
       \/ Svc!MarkRejected(r)
       \/ Svc!Reply(r)

\* QueryRow takes a connection, which only Scan would give back; evaluating
\* Scan's arguments panics.  If no connection was taken (the context ended
\* first), the panic is the same.
GetByIdempotencyKey(r) ==
    /\ UNCHANGED <<maxConns, content, saved, tx, txItems>>
    /\ \/ ConnFree /\ leaked' = leaked + 1
       \/ UNCHANGED leaked
    /\ Svc!LookupPanics(r)

Begin(r) ==
    /\ Persisting(r) /\ tx[r] = "none" /\ ConnFree
    /\ tx' = [tx EXCEPT ![r] = "begun"]
    /\ UNCHANGED <<pc, code, serviceVars, maxConns, content, saved, txItems, leaked>>

BeginFails(r) ==
    /\ Persisting(r) /\ tx[r] = "none"
    /\ Returned(r, TRUE)
    /\ UNCHANGED storeVars

InsertInvoice(r) ==
    /\ Persisting(r) /\ tx[r] = "begun"
    /\ content[r].row /\ ~LockedOut(r) /\ ~Conflict(r)
    /\ tx' = [tx EXCEPT ![r] = "inserted"]
    /\ UNCHANGED <<pc, code, serviceVars, maxConns, content, saved, txItems, leaked>>

InsertItem(r) ==
    /\ Persisting(r) /\ tx[r] = "inserted"
    /\ txItems[r] < Len(content[r].items)
    /\ content[r].items[txItems[r] + 1]
    /\ txItems' = [txItems EXCEPT ![r] = @ + 1]
    /\ UNCHANGED <<pc, code, serviceVars, maxConns, content, saved, tx, leaked>>

\* An insert returns an error: a value that does not fit, a conflict, an
\* identifier that another request built at the same instant of the clock, or
\* any failure of the connection or the database.  The deferred Rollback runs.
InsertFails(r) ==
    /\ Persisting(r) /\ tx[r] # "none"
    /\ Returned(r, TRUE)
    /\ EndTx(r)
    /\ UNCHANGED saved

\* Commit, whose own error may come before or after it took effect.
Commit(r) ==
    /\ Persisting(r) /\ tx[r] = "inserted"
    /\ txItems[r] = Len(content[r].items)
    /\ \/ Publish(r) /\ Returned(r, FALSE)
       \/ Publish(r) /\ Returned(r, TRUE)
       \/ UNCHANGED saved /\ Returned(r, TRUE)
    /\ EndTx(r)

Create(r) ==
    Begin(r) \/ BeginFails(r) \/ InsertInvoice(r) \/ InsertItem(r)
             \/ InsertFails(r) \/ Commit(r)

Handle(r) == ServiceStep(r) \/ GetByIdempotencyKey(r) \/ Create(r)

-----------------------------------------------------------------------------
(***************************************************************************)
(* The environment.                                                        *)
(***************************************************************************)

\* The connections die with the process and PostgreSQL rolls back what was
\* open; a new process has a new pool.
Crash ==
    /\ tx' = [r \in Request |-> "none"]
    /\ txItems' = [r \in Request |-> 0]
    /\ leaked' = 0
    /\ UNCHANGED <<maxConns, content, saved>>
    /\ Svc!Crash

\* The request is through the middleware and its handler starts.
Arrive(r) == UNCHANGED storeVars /\ Svc!IssueInvoice(r)

External ==
    /\ UNCHANGED storeVars
    /\ \/ \E r \in Request : Svc!ARCAAuthorises(r) \/ Svc!ARCARefuses(r)
       \/ \E c \in Customer : Svc!CredentialExpires(c) \/ Svc!CredentialStored(c)

Serve == (\E r \in Request : Arrive(r) \/ Handle(r)) \/ External

Next == Serve \/ Crash

Spec == Init /\ [][Next]_vars

\* A process that does not die.
ServeSpec == Init /\ [][Serve]_vars

\* The repository alone: callers of InvoiceRepository.Create, each with an issued
\* invoice of its own, that reach it in whatever way.
RepositoryInit ==
    /\ EmptyStore
    /\ input \in [Request -> Input]
    /\ pc = [r \in Request |-> "persist"]
    /\ code = [r \in Request |-> "none"]
    /\ inv = [r \in Request |-> [status |-> "issued", voucher |-> 1]]
    /\ ref = [r \in Request |-> r]
    /\ voucherNumber = [r \in Request |-> 0]
    /\ credential = [c \in Customer |-> {}]
    /\ issuer = [r \in Request |-> NoCuit]
    /\ usable = [r \in Request |-> {}]
    /\ arca = [r \in Request |-> "none"]
    /\ number = [r \in Request |-> 0]
    /\ last = [b \in Svc!Book |-> 0]
    /\ prior = [r \in Request |-> {}]

RepositorySpec == RepositoryInit /\ [][\E r \in Request : Create(r)]_vars

\* The goroutine waits for another: for a connection, or for the transaction
\* that inserted its index entry.
Blocked(r) ==
    \/ /\ \/ pc[r] \in {"lookup", "user", "credential"}
          \/ Persisting(r) /\ tx[r] = "none"
       /\ ~ConnFree
    \/ Persisting(r) /\ tx[r] = "begun" /\ content[r].row /\ LockedOut(r)

\* A bound on the steps that r's goroutine has still to take: the longest way
\* from where it is to the end, less what its transaction has done.
StepsFrom ==
    [idle |-> 13, lookup |-> 12, type |-> 11, user |-> 10, credential |-> 9,
     build |-> 8, last |-> 7, voucher |-> 6, await |-> 5,
     persist |-> 4, persistRejected |-> 4, reply |-> 1, done |-> 0]
InTxDone(r) == [none |-> 0, begun |-> 1, inserted |-> 2 + txItems[r]][tx[r]]
StepsLeft(r) ==
    StepsFrom[pc[r]] + IF pc[r] \in {"reply", "done"} THEN 0
                       ELSE Len(content[r].items) - InTxDone(r)

-----------------------------------------------------------------------------
(***************************************************************************)
(* Properties.                                                             *)
(***************************************************************************)

\* The deployed operation is an instance of the operation over the repository
\* interface: what is shown there of answers, vouchers and saved invoices
\* holds here, although a save is now many steps and holds a connection.
ImplementsService == Svc!Spec

\* An invoice is saved with all of its items or not at all: no error between
\* two inserts, no crash and no concurrent save leaves a part of one
\* (repositories.go:250-282).
SavedWhole ==
    \A r \in Request : saved[r].status # "absent" =>
        /\ saved[r].items = Len(content[r].items)
        /\ content[r].row
        /\ \A i \in 1 .. Len(content[r].items) : content[r].items[i]

\* At most one invoice is ever saved per customer and key, however the
\* transactions of concurrent requests overlap (001_initial_schema.sql:81).
OneRowPerKey ==
    \A r, s \in Request :
        /\ r # s
        /\ saved[r].status # "absent"
        /\ saved[s].status # "absent"
        => ~SameEntry(r, s)

\* The pool never hands out more than it has, and a connection is kept only
\* while its goroutine is inside Create: every return from it, also on an
\* error, and every crash give it back (repositories.go:255).
ConnectionsReturned ==
    /\ Held <= maxConns
    /\ \A r \in Request : ~Persisting(r) => tx[r] = "none"

\* Requests never wait for each other in a circle, one for a connection that
\* another has and that one for a row the first has inserted: as long as panics
\* have not used up the pool, whoever waits, another goroutine runs that waits
\* for nobody (pool.go:18, repositories.go:250-282, 001_initial_schema.sql:81).
NoCircularWait ==
    leaked < maxConns =>
        \A r \in Request : Blocked(r) =>
            \E s \in Request : s # r /\ Svc!Running(s) /\ ~Blocked(s)

\* A request is a bounded amount of work: each step of its goroutine brings it
\* nearer to its answer, whatever fails, and no step of another, of ARCA or of
\* a crash takes it further away.  The code retries nothing
\* (issue_invoice.go:75-161, repositories.go:250-282).
BoundedWork ==
    [][\A r \in Request :
          /\ StepsLeft(r)' <= StepsLeft(r)
          /\ Handle(r) => StepsLeft(r)' < StepsLeft(r)]_vars

(***************************************************************************)
(* What the documents of the repository say and the code does not do.      *)
(***************************************************************************)

\* GetByIdempotencyKey returns an invoice, not_found or database_error
\* (docs/contracts.md): a request is aborted only if the process dies.
LookupReturns == \A r \in Request : code[r] # "aborted"

\* The Idempotency-Key is optional (docs/api.md) and uniqueness applies to keys
\* that are there (docs/database.md): an invoice without a key is never
\* refused for the key of another.
KeylessNeverConflicts ==
    \A r \in Request : Persisting(r) /\ Conflict(r) => input[r].key # NoKey

=============================================================================
