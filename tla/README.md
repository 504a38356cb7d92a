# Verification of the ARCA invoice proxy

TLA+ models of the proxy in `src/`, the TLC runs that check them on small
instances, and TLAPS proofs of their safety properties. The proxy takes invoices
over HTTP (`POST /v1/facturar`), has them authorised by ARCA, the Argentine tax
authority, and keeps them in PostgreSQL.

## Inventory

| Component | State | Operations | Correct when |
|---|---|---|---|
| Invoice service and handler (`application/invoice`, `handlers/invoice.go`) | none of its own; locals of one goroutine per request | `IssueInvoice`: lookup by key, checks, `GetLastVoucher`, `CreateVoucher`, `MarkIssued`/`MarkRejected`, `Create` | an invoice saved as issued was authorised; numbers are distinct; an answer says what happened; a retry is not issued again |
| Invoice domain (`domain/invoice`) | the `Invoice` object | constructors, marks, totals | only valid invoices exist; totals do not wrap |
| PostgreSQL repositories and schema (`infrastructure/postgres`, `migrations`) | tables, transactions, a pool of connections | one SQL statement per method; `InvoiceRepository.Create` is a transaction | a save is whole or nothing; one invoice per customer and key; connections come back |
| Idempotency service (`application/idempotency`, `domain/idempotency`) | `idempotency_keys` | `Process`: `Get`, `Create`, the handler, `Update` | the handler's effect happens once; results are those of the key and body |
| API keys and middleware (`application/authentication`, `domain/apikey`, `middleware`) | `api_keys` | validate, create, list, revoke | a valid key is accepted; a revoked one stays revoked |
| Credentials (`domain/credential`) | `arca_credentials` | lookup by customer and environment, expiry | a request is signed with an unexpired certificate of its customer |
| Customers (`domain/customer`) | `users` | `NewCustomer`, CUIT checksum | only well-formed CUITs |
| ARCA client (`ARCAClient`) | external; `cmd/api` has a stub that always approves with number 1 | `GetLastVoucher`, `CreateVoucher` | numbers each book without gaps |
| Server (`cmd/api`) | goroutines, shutdown | start, serve, drain for ten seconds | requests in flight are answered or cut off cleanly |
| Config, health, DTOs, request ids | none | | |

The components meet in the request: the middleware fixes the customer, the
handler decodes and calls the service, the service calls the repositories and
ARCA one after the other, each call with the request's context. What is hard:
requests run concurrently and no lock spans two calls; ARCA's effect and the
save are two systems with no transaction around both; an error of a call does not
tell whether the call took effect; the process may die between any two calls; the
pool and the unique index make requests wait for each other. `PROJECT.json` lists
the hazards with their lines.

## Modules

| Module | Models |
|---|---|
| `InvoiceContract` | What `POST /v1/facturar` promises clients, ARCA and the table, with nothing of how |
| `IssueInvoice` | The handler and the service over the repository and ARCA interfaces; implements `InvoiceContract` |
| `PostgresInvoices` | The same service over the PostgreSQL repository, its schema and the pool; implements `IssueInvoice` |
| `Server` | The life of the process around `PostgresInvoices`: start, signal, draining, pool close, kill; implements it |
| `IdempotencyContract` | What `Process` promises, with nothing of the order of its calls of the store |
| `IdempotencyService` | `Process` over the store; implements `IdempotencyContract` |
| `APIKeys` | The authentication middleware and `/v1/api-keys` over the `api_keys` table |
| `CUIT` | The check digit of a CUIT, with its theorems |
| `MC...` | Inputs, contents and symmetry of the TLC instances |
| `...Proofs` | Inductive invariants, theorems and proofs |

### InvoiceContract

The abstract specification. A request arrives (`Arrive`), may send one voucher
request (`Send`), which ARCA decides at any later time (`Decide`), may be saved once
(`Save`), and is answered once (`Answer`) or cut off (`CutOff`). The guards are the
promises: nothing is sent for a retry whose key had an invoice when it arrived; an
issued invoice was approved before it is saved; numbers of a book, which is the CUIT in
whose name ARCA was asked (`signed`) with the series, are distinct; an
answer is given only in a state in which it is `True`; and nothing is sent, saved or
answered once a request has been answered or cut off. `IssueInvoice` implements it with
the mapping `Received`, `Told`, `Shown` and `Signed`: a request has arrived when its goroutine
runs, the answer is what the handler has written and not what the service is about to
return, and `prior`, `arca` and `stored` are what they are. The promises that the code
does not keep (`race`, `replay`, `rejected` below) are not in it: `True` allows a 201
for a rejected invoice of the key and `arca_rejected` for any voucher.

### IssueInvoice

`pc[r]` is where request `r`'s goroutine stands: one step per call to a
collaborator, in the order of `issue_invoice.go:75-161`. `inv`, `voucherNumber`
and `ref` are its locals (the invoice it built, the number it computed, the
invoice it returns), `code` the error code or success of the service. `arca`,
`number` and `last` are ARCA's side, `stored` the saved invoices. `credential` is the
`arca_credentials` table: each customer has rows of any CUITs, several customers may have
rows of one, and a row that has expired is `NoCuit`. `issuer` is `cred.CUIT`, the CUIT of
the row that the request read: with the series it is the book that ARCA numbers
(`BookOf`, `issue_invoice.go:122` and `:185`), and it is not the customer. `prior` and
`usable` are history variables: what was saved when the request arrived, and the CUITs of
which its customer had an unexpired row then or was given one before the request read its
credential. A CUIT whose rows had all expired before the request arrived is not among
them.

A body is abstracted to a series (invoice type and point of sale) and the set of its
defects, one per check of
the code: the body does not decode, the type is unknown, an item is invalid, the
invoice is empty or has no valid point of sale. An invoice is named by the
request that built it.

`GetByIdempotencyKey`, `GetByID`, `GetByCustomerAndEnvironment` and `GetLastVoucher`
each return what they read or an error. `CreateVoucher` is three actions: it
is sent; ARCA decides (`ARCAAuthorises`, `ARCARefuses`), perhaps after the
client gave up; an answer or an error arrives (`MarkIssued`, `MarkRejected`; an
error may arrive whatever ARCA did, so `MarkRejected` is not guarded by ARCA's
state). `Create` may fail before or after its commit. `LookupPanics` is the
PostgreSQL lookup. `Crash` ends every running goroutine and starts the server
again; what ARCA and the store hold survives. Credentials are put in the database
by an operator (no handler creates them), before the service runs and later
(`CredentialStored`), need the customer's `users` row, and expire one by one. The
lookup has no `ORDER BY`, so any row of the customer may be read.

The code answers 500 for every error of the service, so a client sees the code
only in the text of the error; the properties are about the code.

### PostgresInvoices

It uses `IssueInvoice`'s actions for the steps that do not write, through
`Svc == INSTANCE IssueInvoice WITH stored <- visible` (the committed rows), and models
`Create` in its steps: `Begin`, `InsertInvoice`, one `InsertItem` per item, `Commit`,
and a failure at each, with the deferred rollback (an identifier that another
request built at the same instant of the clock, `invoice.go:182`, is one reason). `content[r]` says which of
the rows fit their columns; the service lets through values that do not. The
unique index makes an insert wait for an open transaction with the same (user,
key) and fail on a committed one. `leaked` counts the connections of lookups that
panicked. The pool has `maxConns` connections, a member of the constant
`PoolSize` fixed at the start (`DB_MAX_OPEN_CONNS`); single queries hold one for
the instant of their action. `StepsLeft(r)` is the variant of a request: the longest way
from where its goroutine is to its answer. The lookup never returns: taking the address of
`inv.ARCAResponse.CAE` panics with or without a row. `GetByID` may find the row here, which is more than the code
does: `UserRepository.GetByID` scans two timestamps into string fields, which pgx refuses
for every row there is, so that with the deployed repository no request gets past the
step `user`. What is shown for the steps after it is shown for a repository whose `Scan`
fits its columns; the model has the failing call as well. `RepositorySpec` is the
repository alone, each request inside `Create` with an issued invoice, for what is about
`Create` whoever calls it.

### Server

`phase` is where `main` stands. `Signal` is SIGINT or SIGTERM and leads into
`Shutdown`, which returns when no request runs (`Drained`) or when its ten seconds
are over (`DeadlineExceeded`: `log.Fatalf` exits without the deferred calls, so the
goroutines and their transactions are cut off). After `Drained` the deferred
`pool.Close` waits for every connection (`PoolClosed`). `Killed` can happen at any
moment. Requests arrive while the process serves, and while it drains, on
connections that were accepted before. Every other step is one of
`PostgresInvoices`, whose variables the module shares; `ImplementsPostgres` says that
starts, stops and kills are to it nothing, or its `Crash`.

### IdempotencyService

`Process` step by step: `Get` (`NotFound`, `Found`, `GetFails`), the upsert, the
handler (its effect, then its return), `Complete` or `Fail` with `Update`. `executed`
and `succeeded` are what the handlers did, `existed` the retries: the calls that arrived
when their key had an unexpired record, which has not expired while they waited for `Get`.
An error that was kept, and a kept result that does not unmarshal, both come back as
`internal_error`, as in `service.go:84` and `:88`. The store has the semantics of the SQL: the upsert
overwrites hash, status and expiry; `Update` overwrites status and response only.
`cmd/api` does not wire this service, and the Go code around the SQL has a
wrong number of arguments in both `Create` and `Get` of an existing row
(`repositories.go:461`, `:480`), so over the only store in `src/` the handler is never
run. Failing calls of the store are behaviours of the model; the others are those
of a store that does what the SQL says, and no violation run is drawn from them.

`IdempotencyContract` is its abstract specification. Of a record it sees only that it is
there, whether it has expired and whose result it keeps (`recorded`, `live`, `kept`). A call is made (`Arrive`), makes a
record (`Record`), runs its handler (`Execute`) and returns (`Finish`, `Replay`, `Refuse`) or
is cut off; a record expires (`Lapse`). Its guards say what the sets `executed` and `existed` alone do not: the handler
runs at most once for a call, a replay returns what an unexpired record keeps at that
moment, a refusal has its reason in the record, and a call that has returned does nothing more. That a late `Record` replaces
what another call has kept is part of the contract, since the code does it. A call whose
key has an expired record may be refused, which the code does, or be served like a
first one, which the documents say.

### APIKeys

`pc[c]` is where call `c` stands: the middleware takes the header apart
(`ParseAPIKey`), reads one row of the key's slot (`GetByPrefixAndSuffix`), checks it
(`Validate`) and starts the handler of the route; `CreateAPIKey` and `ListAPIKeys` are one
statement each, a revocation is `GetByID` and `Update`. Every statement may fail,
the writing ones before or after they took effect. `row`, `owner`, `slot` and `expired` are
the table; `found` is the copy a call read, which is what makes a concurrent
revocation matter. A key is named by its raw key: the table keeps its HMAC, and
two raw keys with 32 random bytes do not have the same one. The slot is what
the code looks keys up by: prefix and last four characters, which two keys may
share. `prior` and `outdated` are history: the creations and revocations that had been
confirmed when the call arrived, and its key if that had expired. A raw key with fewer than four
characters after the prefix makes the slice expression of `service.go:38` panic, which
net/http recovers.

### CUIT

`validateCUITChecksum` over sequences of digits: the weights are written out, and the
text that is not eleven digits is a sequence outside `Cuit`.

## Runs

Passing:

| Run | Instance | Shows |
|---|---|---|
| `validation` | 2 requests, 3 customers (one unregistered), 2 CUITs, every defect alone and valid keyed input | `TypeOK`, `NumbersDistinct`, `OnlyValidInputReachesARCA`, `CleanFailure`; the operation implements `InvoiceContract` (`KeepsContract`) |
| `interleaving` | 3 requests of one customer and one CUIT in one book, with or without the key | `IssuedMeansAuthorised`, `CreatedMeansStored`, `RetryNeverReissues` |
| `pg_store` | 2 requests, 4 contents, pools of 1 and of 2 connections | `SavedWhole`, `OneRowPerKey`, `ConnectionsReturned`, `NoCircularWait`, that each request is a bounded amount of work (`BoundedWork`), and that the module implements `IssueInvoice` |
| `server` | 2 requests with or without the key, pools of 1 and of 2 connections, any number of starts and stops | `NothingLeftBehind`, `ImplementsPostgres`; nobody waits for a connection or a row lock for ever (`EveryRequestAnswered`); a signal ends the process (`ShutdownEnds`) |
| `apikeys` | 3 calls, 2 customers, 2 keys, in one slot or in two | `RevocationHolds`, `ExpiredIsRefused`, `ActsForOwner`, `ListShowsWhatWasAnswered`; rows only age (`RowsOnlyAge`) |
| `idem_process` | 3 calls, 2 keys, 2 bodies, with and without key and body | `RetryNeverExecutes`, `ExecutedIsRecorded`, `ResultIsGenuine`; `Process` implements `IdempotencyContract` (`KeepsContract`) |

Runs that expect a violation, each of a statement of the repository:

| Run | The repository says | The code does |
|---|---|---|
| `race` | idempotent calls return the same invoice (test) | two concurrent requests under one key are both issued |
| `replay` | 201 is an issued invoice (`openapi.yaml`) | a rejected invoice is replayed with 201 |
| `rejected` | `arca_rejected` is a rejection of ARCA (`contracts.md`) | it is any error of `CreateVoucher` |
| `pg_panic` | the lookup returns `not_found` or `database_error` (`contracts.md`) | it panics |
| `pg_keyless` | the key is optional (`api.md`) | the second `Create` of an invoice without a key conflicts with the first |
| `apikeys_neighbour` | revoked and expired mean that the key is (`contracts.md`) | a good key is refused for the row of another key |

`race` and `replay` are about the service over a lookup that works, such as
the tests' repository; with the PostgreSQL one, a request under a key gets no
further than `pg_panic`, and one without a key no further than `GetByID`. `pg_keyless`
is therefore shown at the repository, with calls of `Create` and nothing before them
(`RepositorySpec`). `apikeys_neighbour` needs two keys with the same prefix and last
four characters; the neighbour's row may also make a good key `invalid_api_key`.

More disagreements show in the reading of the code and have no run. A
used key with another payload is answered with the earlier invoice, where
`docs/api.md:31` promises a 409, and invoice keys never expire, where
`docs/api.md:32` has 24 hours. The `INSERT` of an invoice has no column of
ARCA's answer, which `docs/database.md:128` says is stored. A late upsert of the
idempotency service sets a finished record back to processing, where
`docs/security.md:109` excludes transitions from succeeded and failed. An
expired record makes `Process` return an error, where `docs/contracts.md:306`
and `docs/security.md:111` say it counts as not found, so that the handler would run:
`RetryNeverExecutes` leaves expired records out and `IdempotencyContract` allows both. Two
calls of `Process` that both find no record both
run the handler, where `docs/contracts.md:313` says the upsert prevents duplicates, and
as the upsert overwrites the hash of a record and `Update` does not, a result may be
returned under the hash of another body, where `docs/contracts.md:178` has a conflict.
These four are about `Process` over a store that does what the SQL says, which no store
in `src/` is: `IdempotencyRepository` fails at every `Create` and every `Get` of a row.
`docs/database.md:125` has a unique index on the credentials of a CUIT and an
environment, which the schema lacks. The models do what the code does in all of
these. Outside the models: a failing key lookup is answered 401 by the
middleware, not 500; `UserRepository.GetByID` fails for every existing row
(`repositories.go:74-81`, `customer.go:67-68`), so the deployed server issues no invoice;
and the removal of expired keys that `docs/database.md:237` describes is in no code.

### Bounds

No counter is bounded in the models: a request sends at most one voucher, so
ARCA's numbers stay below the number of requests. The hazards are pairwise (two
requests in one book, under one key, at one index entry); three requests add a
retry after a race. One book and one key make every request of `interleaving` contend;
two registered customers with rows of two CUITs make two customers share a book and one
customer have two in `validation`, where the inputs with a defect carry no key. One and
two items reach "some items inserted". One connection makes the pool the contended resource, two the index.
Two slots let the two keys of `apikeys` share theirs or not. Three calls are a creation or
revocation, a call that overlaps it, and one after it. `Start` makes the restarts
of `server` unbounded; its requests are two, so a behaviour answers at most two.
Symmetry is used in `interleaving` (requests), `validation` (requests, registered
customers and CUITs), `idem_process` (calls, keys and bodies) and `apikeys` (calls, keys,
slots and customers), where no liveness is checked; `RowsOnlyAge` and the contracts are
about single steps and treat the members of each set alike, so symmetry leaves them
sound. Deadlock checking is off because a system whose requests are all
answered has nothing left to do.

### Fairness

Liveness is checked in `Server` only; a goroutine of the service or of `Process` by itself
waits for nobody. It assumes weak fairness of each goroutine's steps: Go's scheduler runs
every runnable goroutine and a call to the database or to ARCA comes back with an
answer or an error. The code sets no timeout on these calls, so the
assumption is on the drivers. Arrivals, ARCA's decisions, expiry and crashes are
not fair. A goroutine that waits for a connection or for
another transaction (`Blocked`) is given no fairness: it is shown that the others
release it, unless lookups that panicked have taken the whole pool, and then
requests do wait for ever. `Drained`, `DeadlineExceeded` and `PoolClosed` are fair:
`main` runs, and ten seconds pass. Signals, kills and starts are not.

## Proofs

`IssueInvoiceProofs` proves, for all values of the constants under
`ConstantsAssumption`, every safety property of the passing runs of `IssueInvoice`
as `Spec => []P`. None of them is inductive. `IndInv` adds

- `NumberInv`: exactly the approved requests have a number, it lies within its
  book and no two in a book are equal;
- `ControlInv`: what a goroutine's step says (before `CreateVoucher` nothing was
  sent; at `persist` the invoice is issued; an issued invoice is approved and
  carries ARCA's number; a goroutine that has not returned has saved nothing);
- `RetryInv`: what was stored stays stored, and past the lookup no earlier
  invoice of the key exists;
- `CheckInv`: the checks passed at each step;
- `UsableInv`: a request that has read a credential goes on in the name of a CUIT that is in
  `usable`, and before that every unexpired CUIT of its customer is;
- `AnswerInv`: a code about to be written is already true, in the sense of the
  contract.

One lemma per part shows that every action preserves it. `OperationKeepsContract`
then proves the refinement of `InvoiceContract`: a lemma per abstract action says which
steps of the operation map to it (`SendContract`, `DecideContract`, `SaveContract`,
`ReplyContract`, ...), the invariant gives the guard of the abstract action, and every
other step is a stutter (`QuietContract`).

`IdempotencyServiceProofs` does the same for `IdempotencyService`: a call past `Get`
was no retry or is none any more (`ControlInv`), records are never removed, and so a
call whose handler ran is not one (`EffectInv`). `AnswerInv` ties outcomes to
returns, and with it `ProcessKeepsContract` proves the refinement of
`IdempotencyContract`, one lemma per step of `Process`.

`PostgresInvoicesProofs` first proves the refinement: with `visible` for `stored`, each step
of the deployment is a step of `IssueInvoice` or leaves its variables alone
(`StepImplements`), from the one invariant that `saved` is a function on the requests.
So the theorems of `IssueInvoiceProofs` hold here, through the instance `SvcP` of that
module, and give the facts that the store's own invariant needs of the service
(`SavingInv`: a goroutine that is saving has an invoice to save and has saved nothing).
`StoreInv` adds what an open transaction holds (`TxInv`), that index entries of
committed rows and open transactions are distinct (`IndexInv`), and that the
goroutines in a transaction are finitely many and within the pool (`PoolInv`); the
set of requests may be infinite. The assumptions are `PostgresAssumption` and
`ServiceAssumption`. `ServiceIsKept` and `DeploymentKeepsContract` carry the service's
theorems and its contract to the deployment.

`NobodyWaitsInACircle` and `WorkIsBounded` are the safety half of
`EveryRequestAnswered`, for any number of requests, items and connections. The first:
a goroutine that waits for a row lock waits for one that has inserted its entry and
waits for nothing; one that waits for a connection, with `leaked < maxConns`, waits for
one inside a transaction, which waits for nothing or for a row lock. The second: every
step of a goroutine lowers `StepsLeft` and no other step raises it. With finitely many
requests and weak fairness of the goroutines that are not blocked, the sum of
`StepsLeft` falls until nobody runs; this last inference needs fairness and is
TLC's, in `server`.

`ServerProofs` proves the refinement of `PostgresInvoices` and `NothingLeftBehind`, by the
invariant that transactions belong to goroutines inside `Create`, and from it
that `pool.Close` waits only for connections that panics leaked (`CloseWaits`). Through
the refinement and the instance `PGP` of `PostgresInvoicesProofs` the store's properties
(`StoreSurvivesRestarts`), the service's (`ServiceSurvivesRestarts`) and the contract
(`ServerKeepsContract`) hold through any number of starts, stops and kills.
`ServerAssumption` is the conjunction of the two assumptions of `PostgresInvoices`. So
`InvoiceContract` is refined in three steps, each proved: by the operation, by its
deployment over PostgreSQL, and by the process that is stopped and started.

`APIKeysProofs` proves every safety property of the `apikeys` run for any number of
calls, keys, slots and customers, and its action property (`TableOnlyAges`). The strengthening says what a call that is past
a step has read, that rows are never removed, change their owner or go back from
revoked, and that keys never stop being expired.

`CUIT` proves that every ten digits have a check digit, and that one wrong digit in a
valid CUIT is noticed unless the check digit is the 9 that stands for two
remainders; the proof rests on each weight being prime to 11.

Only model-checked: the liveness properties of `Server`, `EveryRequestAnswered` and
`ShutdownEnds`, because fairness is beyond the prover. The properties of the
violation runs are false.

## Plan

1. Done: `IssueInvoice`, `PostgresInvoices`, `IdempotencyService`, `Server`, `APIKeys`, `CUIT`, their
   runs and their theorems.
2. `InvoiceTotals`: int64 wrapping of totals against a reference definition. What
   follows from a wrapped total (an insert that does not fit) is a content of
   `PostgresInvoices`.
3. `Customers`: registration with the unique CUIT, once an endpoint calls it.
4. The composition of `APIKeys` with the pool of `PostgresInvoices`: its queries hold a
   connection for an instant and never inside a transaction.

## Not modelled

Configuration, health endpoints, DTO formatting, request identifiers (no state to
get wrong); the stub ARCA client of `cmd/api`, a placeholder for the external
service the models describe; `MarkCancelled`, `InvoiceRepository.GetByID` and `Update`,
`ARCACredentialRepository.GetByID`, `DaysUntilExpiry`, `NewCustomer` and the writing and
CUIT lookup of `UserRepository`, which nothing in the server calls; names, scopes and
the masked form of API keys, which are copied.
