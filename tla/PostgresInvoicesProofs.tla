------------------------- MODULE PostgresInvoicesProofs -------------------------
(***************************************************************************)
(* The deployed operation implements the service, and the store keeps its  *)
(* promises, for every set of requests and keys, every content and every   *)
(* size of the pool.                                                       *)
(***************************************************************************)
EXTENDS PostgresInvoices, FiniteSetTheorems, TLAPS

\* What is proved of the service, over the rows that are visible here.
SvcP == INSTANCE IssueInvoiceProofs WITH stored <- visible

SavedDomain == saved = [r \in Request |-> saved[r]]

LEMMA SavedDomainStep ==
    ASSUME SavedDomain, [Next]_vars
    PROVE  SavedDomain'
<1> USE DEF SavedDomain, storeVars, Returned, EndTx, Publish
<1>1. ASSUME NEW r \in Request, Arrive(r) PROVE SavedDomain'
  BY <1>1 DEF Arrive
<1>2. ASSUME NEW r \in Request, Handle(r) PROVE SavedDomain'
  BY <1>2 DEF Handle, ServiceStep, GetByIdempotencyKey, Create, Begin, BeginFails,
              InsertInvoice, InsertItem, InsertFails, Commit
<1>3. CASE External
  BY <1>3 DEF External
<1>4. CASE Crash
  BY <1>4 DEF Crash
<1>5. CASE UNCHANGED vars
  BY <1>5 DEF vars
<1> QED
  BY <1>1, <1>2, <1>3, <1>4, <1>5 DEF Next, Serve

\* Returning from a Create that published r's row, or no row, is a step of the
\* service's Create, whatever error is reported.
LEMMA ReturnImplements ==
    ASSUME NEW r \in Request, NEW failed \in BOOLEAN,
           Persisting(r), Returned(r, failed),
           \/ visible' = visible /\ failed
           \/ visible' = [visible EXCEPT ![r] = inv[r].status]
    PROVE  Svc!Create(r) \/ Svc!CreateRejected(r)
<1>1. UNCHANGED <<input, inv, ref, voucherNumber, Svc!credVars, Svc!arcaVars, prior>>
  BY DEF Returned, serviceVars, Svc!credVars, Svc!arcaVars
<1>2. CASE pc[r] = "persist"
  BY <1>1, <1>2 DEF Returned, Svc!Create, Svc!Return
<1>3. CASE pc[r] = "persistRejected"
  BY <1>1, <1>3 DEF Returned, Svc!CreateRejected, Svc!Return
<1> QED
  BY <1>2, <1>3 DEF Persisting

\* Publishing makes one more row visible.
LEMMA PublishVisible ==
    ASSUME SavedDomain, NEW r \in Request, Publish(r)
    PROVE  visible' = [visible EXCEPT ![r] = inv[r].status]
BY DEF SavedDomain, Publish, visible

\* A step of the deployed operation is a step of the service or one that the
\* service does not see.
LEMMA StepImplements ==
    ASSUME SavedDomain, [Next]_vars
    PROVE  [Svc!Next]_(Svc!vars)
<1> USE DEF Svc!Next
<1>1. ASSUME NEW r \in Request, Arrive(r) PROVE Svc!Next
  BY <1>1 DEF Arrive
<1>2. ASSUME NEW r \in Request, Handle(r) PROVE [Svc!Next]_(Svc!vars)
  <2> USE DEF Svc!Handle
  <2>1. CASE ServiceStep(r)
    BY <2>1 DEF ServiceStep
  <2>2. CASE GetByIdempotencyKey(r)
    BY <2>2 DEF GetByIdempotencyKey
  <2>3. CASE Begin(r) \/ InsertInvoice(r) \/ InsertItem(r)
    <3>1. UNCHANGED <<pc, code, serviceVars, saved>>
      BY <2>3 DEF Begin, InsertInvoice, InsertItem
    <3> QED
      BY <3>1 DEF serviceVars, visible, Svc!vars, Svc!serverVars, Svc!credVars, Svc!arcaVars
  <2>4. CASE BeginFails(r) \/ InsertFails(r)
    <3>1. UNCHANGED visible
      BY <2>4 DEF BeginFails, InsertFails, storeVars, visible
    <3>2. Persisting(r) /\ Returned(r, TRUE)
      BY <2>4 DEF BeginFails, InsertFails
    <3> QED
      BY <3>1, <3>2, ReturnImplements
  <2>5. CASE Commit(r)
    <3>1. CASE Publish(r)
      <4>1. PICK failed \in BOOLEAN : Persisting(r) /\ Returned(r, failed)
        BY <2>5 DEF Commit
      <4> QED
        BY <3>1, <4>1, PublishVisible, ReturnImplements
    <3>2. CASE UNCHANGED saved /\ Returned(r, TRUE)
      <4>1. UNCHANGED visible
        BY <3>2 DEF visible
      <4> QED
        BY <2>5, <3>2, <4>1, ReturnImplements DEF Commit
    <3> QED
      BY <2>5, <3>1, <3>2 DEF Commit
  <2> QED
    BY <1>2, <2>1, <2>2, <2>3, <2>4, <2>5 DEF Handle, Create
<1>3. ASSUME External PROVE Svc!Next
  BY <1>3 DEF External
<1>4. ASSUME Crash PROVE Svc!Next
  BY <1>4 DEF Crash
<1>5. ASSUME UNCHANGED vars PROVE UNCHANGED Svc!vars
  BY <1>5 DEF vars, storeVars, visible, Svc!vars, Svc!serverVars, Svc!credVars, Svc!arcaVars
<1> QED
  BY <1>1, <1>2, <1>3, <1>4, <1>5 DEF Next, Serve

\* Initially there is no row to see.
LEMMA InitImplements == Init => Svc!Init /\ SavedDomain
BY DEF Init, EmptyStore, SavedDomain

\* The deployed operation implements the service: whatever holds of every
\* behaviour of IssueInvoice holds of the PostgreSQL deployment
\* (repositories.go:250-282, 339-392).
THEOREM PostgresImplementsService == Spec => ImplementsService
<1>1. Spec => []SavedDomain
  BY InitImplements, SavedDomainStep, PTL DEF Spec
<1> QED
  BY <1>1, InitImplements, StepImplements, PTL DEF Spec, ImplementsService, Svc!Spec

\* Svc and SvcP instantiate the same definitions in the same way.
LEMMA SameService == Svc!Spec => SvcP!Spec
<1> USE DEF Svc!Return, SvcP!Return, Svc!Goto, SvcP!Goto, Svc!BookOf, SvcP!BookOf,
            Svc!NoInvoice, SvcP!NoInvoice, Svc!serverVars, SvcP!serverVars,
            Svc!credVars, SvcP!credVars, Svc!arcaVars, SvcP!arcaVars
<1>1. Svc!Init => SvcP!Init
  BY DEF Svc!Init, SvcP!Init, Svc!Book, SvcP!Book, Svc!CredentialRow, SvcP!CredentialRow
<1>2. ASSUME NEW r \in Request PROVE Svc!Handle(r) <=> SvcP!Handle(r)
  <2>1. Svc!GetByIdempotencyKey(r) <=> SvcP!GetByIdempotencyKey(r)
    BY DEF Svc!GetByIdempotencyKey, SvcP!GetByIdempotencyKey, Svc!Matches, SvcP!Matches,
           Svc!SameKey, SvcP!SameKey, Svc!Stored, SvcP!Stored
  <2>2. Svc!LookupPanics(r) <=> SvcP!LookupPanics(r)
    BY DEF Svc!LookupPanics, SvcP!LookupPanics
  <2>3. Svc!ParseInvoiceType(r) <=> SvcP!ParseInvoiceType(r)
    BY DEF Svc!ParseInvoiceType, SvcP!ParseInvoiceType
  <2>4. Svc!GetByID(r) <=> SvcP!GetByID(r)
    BY DEF Svc!GetByID, SvcP!GetByID
  <2>5. Svc!GetByCustomerAndEnvironment(r) <=> SvcP!GetByCustomerAndEnvironment(r)
    BY DEF Svc!GetByCustomerAndEnvironment, SvcP!GetByCustomerAndEnvironment,
           Svc!Unexpired, SvcP!Unexpired
  <2>6. Svc!NewInvoice(r) <=> SvcP!NewInvoice(r)
    BY DEF Svc!NewInvoice, SvcP!NewInvoice
  <2>7. Svc!GetLastVoucher(r) <=> SvcP!GetLastVoucher(r)
    BY DEF Svc!GetLastVoucher, SvcP!GetLastVoucher
  <2>8. Svc!CreateVoucher(r) <=> SvcP!CreateVoucher(r)
    BY DEF Svc!CreateVoucher, SvcP!CreateVoucher
  <2>9. Svc!MarkIssued(r) <=> SvcP!MarkIssued(r)
    BY DEF Svc!MarkIssued, SvcP!MarkIssued
  <2>10. Svc!MarkRejected(r) <=> SvcP!MarkRejected(r)
    BY DEF Svc!MarkRejected, SvcP!MarkRejected
  <2>11. Svc!Create(r) <=> SvcP!Create(r)
    BY DEF Svc!Create, SvcP!Create
  <2>12. Svc!CreateRejected(r) <=> SvcP!CreateRejected(r)
    BY DEF Svc!CreateRejected, SvcP!CreateRejected
  <2>13. Svc!Reply(r) <=> SvcP!Reply(r)
    BY DEF Svc!Reply, SvcP!Reply
  <2> QED
    BY <2>1, <2>2, <2>3, <2>4, <2>5, <2>6, <2>7,
       <2>8, <2>9, <2>10, <2>11, <2>12, <2>13
       DEF Svc!Handle, SvcP!Handle
<1>3. ASSUME NEW r \in Request
      PROVE  /\ Svc!IssueInvoice(r) <=> SvcP!IssueInvoice(r)
             /\ Svc!ARCAAuthorises(r) <=> SvcP!ARCAAuthorises(r)
             /\ Svc!ARCARefuses(r) <=> SvcP!ARCARefuses(r)
  <2>1. Svc!IssueInvoice(r) <=> SvcP!IssueInvoice(r)
    BY DEF Svc!IssueInvoice, SvcP!IssueInvoice, Svc!Stored, SvcP!Stored,
           Svc!Unexpired, SvcP!Unexpired
  <2>2. Svc!ARCAAuthorises(r) <=> SvcP!ARCAAuthorises(r)
    BY DEF Svc!ARCAAuthorises, SvcP!ARCAAuthorises
  <2>3. Svc!ARCARefuses(r) <=> SvcP!ARCARefuses(r)
    BY DEF Svc!ARCARefuses, SvcP!ARCARefuses
  <2> QED
    BY <2>1, <2>2, <2>3
<1>4. ASSUME NEW c \in Customer
      PROVE  /\ Svc!CredentialExpires(c) <=> SvcP!CredentialExpires(c)
             /\ Svc!CredentialStored(c) <=> SvcP!CredentialStored(c)
  BY DEF Svc!CredentialExpires, SvcP!CredentialExpires, Svc!Unexpired, SvcP!Unexpired,
         Svc!CredentialStored, SvcP!CredentialStored, Svc!BeforeRead, SvcP!BeforeRead
<1>5. Svc!Crash <=> SvcP!Crash
  BY DEF Svc!Crash, SvcP!Crash, Svc!Running, SvcP!Running
<1>6. Svc!Next => SvcP!Next
  <2>1. ASSUME NEW r \in Request,
               Svc!IssueInvoice(r) \/ Svc!Handle(r) \/ Svc!ARCAAuthorises(r) \/ Svc!ARCARefuses(r)
        PROVE  SvcP!Next
    BY <1>2, <1>3, <2>1 DEF SvcP!Next
  <2>2. ASSUME NEW c \in Customer, Svc!CredentialExpires(c) \/ Svc!CredentialStored(c)
        PROVE  SvcP!Next
    BY <1>4, <2>2 DEF SvcP!Next
  <2>3. ASSUME Svc!Crash PROVE SvcP!Next
    BY <1>5, <2>3 DEF SvcP!Next
  <2> QED
    BY <2>1, <2>2, <2>3 DEF Svc!Next
<1>7. [Svc!Next]_(Svc!vars) => [SvcP!Next]_(SvcP!vars)
  BY <1>6 DEF Svc!vars, SvcP!vars
<1> QED
  BY <1>1, <1>7, PTL DEF Svc!Spec, SvcP!Spec

-----------------------------------------------------------------------------
(***************************************************************************)
(* The store's own promises.                                               *)
(***************************************************************************)

\* What the service's control says of a goroutine that is saving.
SavingInv ==
    \A r \in Request : Persisting(r) =>
        saved[r].status = "absent" /\ inv[r].status \in {"issued", "rejected"}

StoreTyped ==
    /\ maxConns \in PoolSize
    /\ content \in [Request -> Content]
    /\ saved \in [Request -> SavedRow]
    /\ tx \in [Request -> TxState]
    /\ txItems \in [Request -> Nat]
    /\ leaked \in Nat

\* A transaction is open only inside Create, and holds what fits.
TxInv ==
    \A r \in Request :
        /\ ~Persisting(r) => tx[r] = "none"
        /\ tx[r] # "inserted" => txItems[r] = 0
        /\ tx[r] = "inserted" =>
              /\ content[r].row
              /\ txItems[r] <= Len(content[r].items)
              /\ \A i \in 1 .. txItems[r] : content[r].items[i]

\* The unique index over committed rows and open transactions.
IndexInv ==
    \A r, s \in Request : r # s /\ SameEntry(r, s) /\ tx[r] = "inserted" =>
        tx[s] # "inserted" /\ saved[s].status = "absent"

PoolInv == IsFiniteSet(InTx) /\ Held <= maxConns

StoreInv ==
    StoreTyped /\ TxInv /\ IndexInv /\ SavedWhole /\ OneRowPerKey /\ PoolInv

\* The invariant of the service gives the facts about it that the store needs.
LEMMA ServiceFacts == SvcP!IndInv => Svc!TypeOK /\ SavingInv
<1>1. SvcP!TypeOK => Svc!TypeOK
  BY DEF SvcP!TypeOK, Svc!TypeOK, SvcP!Step, Svc!Step, SvcP!Outcome, Svc!Outcome,
         SvcP!CleanCode, Svc!CleanCode, SvcP!Invoice, Svc!Invoice, SvcP!Status, Svc!Status,
         SvcP!CredentialRow, Svc!CredentialRow, SvcP!VoucherState, Svc!VoucherState,
         SvcP!Book, Svc!Book, SvcP!Row, Svc!Row
<1>2. SvcP!ControlInv => SavingInv
  BY DEF SvcP!ControlInv, SavingInv, Persisting, visible
<1> QED
  BY <1>1, <1>2 DEF SvcP!IndInv

\* A step of the service that is no save leaves the store and the other
\* goroutines alone, and is not taken inside Create.
LEMMA Frame ==
    ASSUME Svc!TypeOK, NEW r \in Request,
           \/ Arrive(r)
           \/ ServiceStep(r)
           \/ GetByIdempotencyKey(r)
    PROVE  /\ ~Persisting(r)
           /\ UNCHANGED <<input, maxConns, content, saved, tx, txItems>>
           /\ \A q \in Request : q # r => pc'[q] = pc[q]
<1> USE DEF Persisting, Svc!TypeOK, Svc!Return, Svc!Goto, storeVars
<1>1. CASE Arrive(r)
  BY <1>1 DEF Arrive, Svc!IssueInvoice
<1>2. CASE ServiceStep(r)
  BY <1>2 DEF ServiceStep, Svc!ParseInvoiceType, Svc!GetByID, Svc!GetByCustomerAndEnvironment,
     Svc!NewInvoice, Svc!GetLastVoucher, Svc!CreateVoucher, Svc!MarkIssued, Svc!MarkRejected,
     Svc!Reply
<1>3. CASE GetByIdempotencyKey(r)
  BY <1>3 DEF GetByIdempotencyKey, Svc!LookupPanics
<1> QED
  BY <1>1, <1>2, <1>3


\* A step that leaves rows and transactions alone, and keeps the goroutines
\* with a transaction inside Create, preserves the invariant.
LEMMA QuietStep ==
    ASSUME StoreInv,
           UNCHANGED <<input, maxConns, content, saved, tx, txItems>>,
           \A q \in Request : tx[q] # "none" => Persisting(q)',
           leaked' \in Nat,
           leaked' = leaked \/ (leaked' = leaked + 1 /\ ConnFree) \/ leaked' = 0
    PROVE  StoreInv'
<1>1. StoreTyped'
  BY DEF StoreInv, StoreTyped
<1>2. TxInv'
  BY DEF StoreInv, TxInv
<1>3. IndexInv' /\ SavedWhole' /\ OneRowPerKey'
  BY DEF StoreInv, IndexInv, SavedWhole, OneRowPerKey, SameEntry
<1>4. PoolInv'
  <2>1. InTx' = InTx /\ IsFiniteSet(InTx)
    BY DEF StoreInv, PoolInv, InTx
  <2>2. Cardinality(InTx) \in Nat /\ Cardinality(InTx)' = Cardinality(InTx)
    BY <2>1, FS_CardinalityType
  <2>3. maxConns \in Nat /\ leaked \in Nat
    BY PostgresAssumption DEF StoreInv, StoreTyped
  <2> QED
    BY <2>1, <2>2, <2>3 DEF StoreInv, PoolInv, Held, ConnFree
<1> QED
  BY <1>1, <1>2, <1>3, <1>4 DEF StoreInv

\* Taking a connection for a transaction when one is free.
LEMMA BeginStep ==
    ASSUME StoreInv, NEW r \in Request, Begin(r)
    PROVE  StoreInv'
<1> USE DEF Begin, serviceVars
<1>1. StoreTyped'
  BY DEF StoreInv, StoreTyped, TxState
<1>2. TxInv'
  BY DEF StoreInv, StoreTyped, TxInv, Persisting
<1>3. IndexInv' /\ SavedWhole' /\ OneRowPerKey'
  BY DEF StoreInv, StoreTyped, IndexInv, SavedWhole, OneRowPerKey, SameEntry
<1>4. PoolInv'
  <2>1. r \notin InTx /\ InTx' = InTx \cup {r}
    BY DEF StoreInv, StoreTyped, InTx
  <2>2. IsFiniteSet(InTx') /\ Cardinality(InTx') = Cardinality(InTx) + 1
    BY <2>1, FS_AddElement DEF StoreInv, PoolInv
  <2>3. Cardinality(InTx) \in Nat /\ maxConns \in Nat /\ leaked \in Nat
    BY PostgresAssumption, FS_CardinalityType DEF StoreInv, StoreTyped, PoolInv
  <2> QED
    BY <2>2, <2>3 DEF PoolInv, Held, ConnFree
<1> QED
  BY <1>1, <1>2, <1>3, <1>4 DEF StoreInv

\* Inserting the invoice row enters the index, where nothing is in the way.
LEMMA InsertInvoiceStep ==
    ASSUME StoreInv, NEW r \in Request, InsertInvoice(r)
    PROVE  StoreInv'
<1> USE DEF InsertInvoice, serviceVars
<1>1. StoreTyped'
  BY DEF StoreInv, StoreTyped, TxState
<1>2. TxInv'
  <2>1. ASSUME NEW q \in Request, q # r
        PROVE  tx'[q] = tx[q] /\ (Persisting(q)' <=> Persisting(q))
    BY <2>1 DEF StoreInv, StoreTyped, Persisting
  <2>2. tx'[r] = "inserted" /\ txItems'[r] = 0 /\ content'[r].row /\ Persisting(r)'
    BY DEF StoreInv, StoreTyped, TxInv, Persisting
  <2>3. content'[r].items \in Seq(BOOLEAN)
    BY PostgresAssumption DEF StoreInv, StoreTyped, ContentType
  <2>4. 0 <= Len(content'[r].items) /\ 1 .. 0 = {}
    BY <2>3
  <2> QED
    BY <2>1, <2>2, <2>4 DEF StoreInv, TxInv
<1>3. IndexInv'
  BY DEF StoreInv, StoreTyped, IndexInv, SameEntry, LockedOut, Conflict
<1>4. SavedWhole' /\ OneRowPerKey'
  BY DEF StoreInv, SavedWhole, OneRowPerKey, SameEntry
<1>5. PoolInv'
  <2>1. InTx' = InTx
    BY DEF StoreInv, StoreTyped, InTx
  <2> QED
    BY <2>1 DEF StoreInv, PoolInv, Held
<1> QED
  BY <1>1, <1>2, <1>3, <1>4, <1>5 DEF StoreInv

\* Inserting an item row that fits.
LEMMA InsertItemStep ==
    ASSUME StoreInv, NEW r \in Request, InsertItem(r)
    PROVE  StoreInv'
<1> USE DEF InsertItem, serviceVars
<1>1. StoreTyped'
  BY DEF StoreInv, StoreTyped
<1>2. TxInv'
  <2>1. ASSUME NEW q \in Request, q # r
        PROVE  txItems'[q] = txItems[q] /\ (Persisting(q)' <=> Persisting(q))
    BY <2>1 DEF StoreInv, StoreTyped, Persisting
  <2>2. /\ txItems[r] \in Nat /\ txItems'[r] = txItems[r] + 1
        /\ tx[r] = "inserted" /\ Persisting(r)'
    BY DEF StoreInv, StoreTyped, Persisting
  <2>3. content[r].items \in Seq(BOOLEAN)
    BY PostgresAssumption DEF StoreInv, StoreTyped, ContentType
  <2>4. Len(content[r].items) \in Nat
    BY <2>3
  <2>5. \A i \in 1 .. txItems[r] + 1 : i \in 1 .. txItems[r] \/ i = txItems[r] + 1
    BY <2>2
  <2> QED
    BY <2>1, <2>2, <2>4, <2>5 DEF StoreInv, TxInv
<1>3. IndexInv' /\ SavedWhole' /\ OneRowPerKey'
  BY DEF StoreInv, IndexInv, SavedWhole, OneRowPerKey, SameEntry
<1>4. PoolInv'
  <2>1. InTx' = InTx
    BY DEF InTx
  <2> QED
    BY <2>1 DEF StoreInv, PoolInv, Held
<1> QED
  BY <1>1, <1>2, <1>3, <1>4 DEF StoreInv

\* Ending a transaction gives its connection back, whether r's rows were
\* published, all of them there, or not.
LEMMA EndStep ==
    ASSUME StoreInv, SavingInv, Svc!TypeOK, NEW r \in Request, NEW failed \in BOOLEAN,
           Persisting(r), tx[r] # "none", EndTx(r), Returned(r, failed),
           \/ UNCHANGED saved
           \/ /\ tx[r] = "inserted"
              /\ txItems[r] = Len(content[r].items)
              /\ Publish(r)
    PROVE  StoreInv'
<1> USE DEF EndTx, Returned, serviceVars
<1>1. StoreTyped'
  <2>1. tx' \in [Request -> TxState] /\ txItems' \in [Request -> Nat]
    BY DEF StoreInv, StoreTyped, TxState
  <2>2. saved' \in [Request -> SavedRow]
    BY DEF StoreInv, StoreTyped, SavingInv, Publish, SavedRow
  <2> QED
    BY <2>1, <2>2 DEF StoreInv, StoreTyped
<1>2. TxInv'
  <2>1. ASSUME NEW q \in Request, q # r
        PROVE  tx'[q] = tx[q] /\ txItems'[q] = txItems[q] /\ (Persisting(q)' <=> Persisting(q))
    BY <2>1 DEF StoreInv, StoreTyped, Persisting, Svc!TypeOK
  <2>2. tx'[r] = "none" /\ txItems'[r] = 0
    BY DEF StoreInv, StoreTyped
  <2> QED
    BY <2>1, <2>2 DEF StoreInv, TxInv
<1>3. \A q \in Request : saved'[q] = saved[q] \/ (q = r /\ Publish(r))
  BY DEF StoreInv, StoreTyped, Publish
<1>4. IndexInv'
  BY <1>3 DEF StoreInv, StoreTyped, IndexInv, SameEntry
<1>5. SavedWhole'
  <2>1. CASE UNCHANGED saved
    BY <2>1 DEF StoreInv, SavedWhole
  <2>2. CASE tx[r] = "inserted" /\ txItems[r] = Len(content[r].items) /\ Publish(r)
    <3>1. saved'[r].items = Len(content[r].items)
      BY <2>2 DEF StoreInv, StoreTyped, Publish
    <3> QED
      BY <1>3, <2>2, <3>1 DEF StoreInv, TxInv, SavedWhole
  <2> QED
    BY <2>1, <2>2
<1>6. OneRowPerKey'
  <2>1. CASE UNCHANGED saved
    BY <2>1 DEF StoreInv, OneRowPerKey, SameEntry
  <2>2. CASE tx[r] = "inserted"
    <3>1. \A s \in Request : s # r /\ SameEntry(r, s) => saved[s].status = "absent"
      BY <2>2 DEF StoreInv, IndexInv
    <3> QED
      BY <1>3, <3>1 DEF StoreInv, OneRowPerKey, SameEntry
  <2> QED
    BY <2>1, <2>2
<1>7. PoolInv'
  <2>1. r \in InTx /\ InTx' = InTx \ {r}
    BY DEF StoreInv, StoreTyped, InTx
  <2>2. IsFiniteSet(InTx') /\ Cardinality(InTx') = Cardinality(InTx) - 1
    BY <2>1, FS_RemoveElement DEF StoreInv, PoolInv
  <2>3. Cardinality(InTx) \in Nat /\ maxConns \in Nat /\ leaked \in Nat
    BY PostgresAssumption, FS_CardinalityType DEF StoreInv, StoreTyped, PoolInv
  <2> QED
    BY <2>2, <2>3 DEF StoreInv, PoolInv, Held
<1> QED
  BY <1>1, <1>2, <1>4, <1>5, <1>6, <1>7 DEF StoreInv

\* The invariant holds when the process starts on an empty table.
LEMMA StoreInit == Init => StoreInv
<1> SUFFICES ASSUME Init PROVE StoreInv
  OBVIOUS
<1> USE DEF Init, EmptyStore, NotSaved
<1>1. StoreTyped
  BY DEF StoreTyped, SavedRow, TxState
<1>2. TxInv /\ IndexInv /\ SavedWhole /\ OneRowPerKey
  BY DEF TxInv, IndexInv, SavedWhole, OneRowPerKey
<1>3. PoolInv
  <2>1. InTx = {}
    BY DEF InTx
  <2>2. maxConns \in Nat
    BY PostgresAssumption
  <2> QED
    BY <2>1, <2>2, FS_EmptySet DEF PoolInv, Held
<1> QED
  BY <1>1, <1>2, <1>3 DEF StoreInv

\* Every step preserves it, given what the service guarantees.
LEMMA StoreStep ==
    ASSUME StoreInv, SavingInv, Svc!TypeOK, [Next]_vars
    PROVE  StoreInv'
<1>0. leaked \in Nat /\ \A q \in Request : tx[q] # "none" => Persisting(q)
  BY DEF StoreInv, StoreTyped, TxInv
<1>1. ASSUME NEW r \in Request, Arrive(r) \/ ServiceStep(r) \/ GetByIdempotencyKey(r)
      PROVE  StoreInv'
  <2>1. /\ ~Persisting(r)
        /\ UNCHANGED <<input, maxConns, content, saved, tx, txItems>>
        /\ \A q \in Request : q # r => pc'[q] = pc[q]
    BY <1>1, Frame
  <2>2. leaked' = leaked \/ (leaked' = leaked + 1 /\ ConnFree)
    BY <1>1 DEF Arrive, ServiceStep, GetByIdempotencyKey, storeVars
  <2>3. \A q \in Request : tx[q] # "none" => Persisting(q)'
    BY <1>0, <2>1 DEF Persisting
  <2> QED
    BY <1>0, <2>1, <2>2, <2>3, QuietStep
<1>2. ASSUME NEW r \in Request, Create(r) PROVE StoreInv'
  <2>1. CASE Begin(r)
    BY <2>1, BeginStep
  <2>2. CASE BeginFails(r)
    <3>1. tx[r] = "none" /\ UNCHANGED <<input, storeVars>>
      BY <2>2 DEF BeginFails, Returned, serviceVars
    <3>2. \A q \in Request : q # r => pc'[q] = pc[q]
      BY <2>2 DEF BeginFails, Returned, Svc!TypeOK
    <3>3. \A q \in Request : tx[q] # "none" => Persisting(q)'
      BY <1>0, <3>1, <3>2 DEF Persisting
    <3> QED
      BY <1>0, <3>1, <3>3, QuietStep DEF storeVars
  <2>3. CASE InsertInvoice(r)
    BY <2>3, InsertInvoiceStep
  <2>4. CASE InsertItem(r)
    BY <2>4, InsertItemStep
  <2>5. CASE InsertFails(r)
    BY <2>5, EndStep DEF InsertFails
  <2>6. CASE Commit(r)
    <3>1. PICK failed \in BOOLEAN : Returned(r, failed)
      BY <2>6 DEF Commit
    <3>2. tx[r] # "none" /\ (UNCHANGED saved \/ Publish(r))
      BY <2>6 DEF Commit
    <3> QED
      BY <2>6, <3>1, <3>2, EndStep DEF Commit
  <2> QED
    BY <1>2, <2>1, <2>2, <2>3, <2>4, <2>5, <2>6 DEF Create
<1>3. ASSUME External PROVE StoreInv'
  <2>1. UNCHANGED <<pc, input, storeVars>>
    BY <1>3 DEF External, Svc!ARCAAuthorises, Svc!ARCARefuses, Svc!CredentialExpires,
                Svc!CredentialStored, Svc!serverVars
  <2>2. \A q \in Request : tx[q] # "none" => Persisting(q)'
    BY <1>0, <2>1 DEF Persisting
  <2> QED
    BY <1>0, <2>1, <2>2, QuietStep DEF storeVars
<1>4. ASSUME Crash PROVE StoreInv'
  <2>1. UNCHANGED <<input, maxConns, content, saved>>
    BY <1>4 DEF Crash, Svc!Crash
  <2>2. /\ tx' = [r \in Request |-> "none"]
        /\ txItems' = [r \in Request |-> 0]
        /\ leaked' = 0
    BY <1>4 DEF Crash
  <2>3. StoreTyped' /\ TxInv' /\ IndexInv'
    BY <2>1, <2>2 DEF StoreInv, StoreTyped, TxInv, IndexInv, TxState
  <2>4. SavedWhole' /\ OneRowPerKey'
    BY <2>1 DEF StoreInv, SavedWhole, OneRowPerKey, SameEntry
  <2>5. PoolInv'
    <3>1. InTx' = {}
      BY <2>2 DEF InTx
    <3>2. maxConns' \in Nat /\ 0 <= maxConns'
      BY <2>3, PostgresAssumption DEF StoreTyped
    <3> QED
      BY <2>2, <3>1, <3>2, FS_EmptySet DEF PoolInv, Held
  <2> QED
    BY <2>3, <2>4, <2>5 DEF StoreInv
<1>5. ASSUME UNCHANGED vars PROVE StoreInv'
  <2>1. \A q \in Request : tx[q] # "none" => Persisting(q)'
    BY <1>0, <1>5 DEF vars, Persisting
  <2> QED
    BY <1>0, <1>5, <2>1, QuietStep DEF vars, storeVars
<1> QED
  BY <1>1, <1>2, <1>3, <1>4, <1>5 DEF Next, Serve, Handle

\* The invariant of the service, through the refinement, holds here.
LEMMA ServiceInvariance == Spec => [](Svc!TypeOK /\ SavingInv)
<1>1. Spec => SvcP!Spec
  BY PostgresImplementsService, SameService DEF ImplementsService
<1>2. SvcP!Spec => []SvcP!IndInv
  BY SvcP!Invariance, ServiceAssumption DEF Svc!InputType, SvcP!InputType, Svc!Defect, SvcP!Defect
<1> QED
  BY <1>1, <1>2, ServiceFacts, PTL

\* The store's invariant holds throughout every behaviour of the deployment.
THEOREM StoreInvariance == Spec => []StoreInv
BY ServiceInvariance, StoreInit, StoreStep, PTL DEF Spec

\* Every reachable state of the deployment is well typed.
THEOREM TypeCorrect == Spec => []TypeOK
<1>1. Svc!TypeOK /\ StoreInv => TypeOK
  BY DEF StoreInv, StoreTyped, TypeOK
<1> QED
  BY <1>1, ServiceInvariance, StoreInvariance, PTL

\* Invoices are saved whole, for any number of items and any interleaving of
\* failures, crashes and other saves (repositories.go:250-282).
THEOREM SavesAreWhole == Spec => []SavedWhole
<1>1. StoreInv => SavedWhole
  BY DEF StoreInv
<1> QED
  BY <1>1, StoreInvariance, PTL

\* The unique index admits one invoice per customer and key, however many
\* transactions are open at once (001_initial_schema.sql:81).
THEOREM OneRowForEachKey == Spec => []OneRowPerKey
<1>1. StoreInv => OneRowPerKey
  BY DEF StoreInv
<1> QED
  BY <1>1, StoreInvariance, PTL

\* The pool never lends more than it has, for every size of it, and Create
\* gives back what it borrows (repositories.go:255).
THEOREM ConnectionsComeBack == Spec => []ConnectionsReturned
<1>1. StoreInv => ConnectionsReturned
  BY DEF StoreInv, PoolInv, TxInv, ConnectionsReturned
<1> QED
  BY <1>1, StoreInvariance, PTL

\* The answers and the vouchers of the deployed operation are as promised for
\* the operation over any repository, although a save is many steps here and
\* may be cut between any two of them (issue_invoice.go:76-161).
ServiceKept ==
    /\ Svc!IssuedMeansAuthorised
    /\ Svc!CreatedMeansStored
    /\ Svc!CleanFailure
    /\ Svc!NumbersDistinct
    /\ Svc!RetryNeverReissues
    /\ Svc!OnlyValidInputReachesARCA

THEOREM ServiceIsKept == Spec => []ServiceKept
<1>1. Spec => SvcP!Spec
  BY PostgresImplementsService, SameService DEF ImplementsService
<1>2. SvcP!Spec => /\ []SvcP!IssuedMeansAuthorised
                   /\ []SvcP!CreatedMeansStored
                   /\ []SvcP!CleanFailure
                   /\ []SvcP!NumbersDistinct
                   /\ []SvcP!RetryNeverReissues
                   /\ []SvcP!OnlyValidInputReachesARCA
  BY SvcP!IssuedIsAuthorised, SvcP!CreatedIsStored, SvcP!FailureIsClean,
     SvcP!NumbersAreDistinct, SvcP!RetryIsNeverReissued, SvcP!OnlyValidReachesARCA,
     ServiceAssumption DEF Svc!InputType, SvcP!InputType, Svc!Defect, SvcP!Defect
<1>3. /\ SvcP!IssuedMeansAuthorised
      /\ SvcP!CreatedMeansStored
      /\ SvcP!CleanFailure
      /\ SvcP!NumbersDistinct
      /\ SvcP!RetryNeverReissues
      /\ SvcP!OnlyValidInputReachesARCA
      => ServiceKept
  BY DEF ServiceKept, SvcP!IssuedMeansAuthorised, Svc!IssuedMeansAuthorised,
     SvcP!CreatedMeansStored, Svc!CreatedMeansStored, SvcP!CleanFailure, Svc!CleanFailure,
     SvcP!NumbersDistinct, Svc!NumbersDistinct, SvcP!RetryNeverReissues,
     Svc!RetryNeverReissues, SvcP!OnlyValidInputReachesARCA, Svc!OnlyValidInputReachesARCA,
     SvcP!SameKey, Svc!SameKey, SvcP!Stored, Svc!Stored, SvcP!BookOf, Svc!BookOf,
     SvcP!CleanCode, Svc!CleanCode
<1> QED
  BY <1>1, <1>2, <1>3, PTL

\* The deployed operation keeps the contract of module InvoiceContract with the
\* client, ARCA and the table, where an invoice is in the table when its
\* transaction is committed (repositories.go:250-282).
THEOREM DeploymentKeepsContract == Spec => SvcP!KeepsContract
<1>1. SvcP!Spec => SvcP!KeepsContract
  BY SvcP!OperationKeepsContract, ServiceAssumption
     DEF Svc!InputType, SvcP!InputType, Svc!Defect, SvcP!Defect
<1> QED
  BY <1>1, PostgresImplementsService, SameService DEF ImplementsService

-----------------------------------------------------------------------------
(***************************************************************************)
(* Nobody waits in a circle, and all work is bounded.                      *)
(***************************************************************************)

\* Whoever waits for a row waits for a goroutine that waits for nobody.
LEMMA LockHolderMoves ==
    ASSUME StoreInv, NEW r \in Request, LockedOut(r)
    PROVE  \E s \in Request :
              s # r /\ tx[s] = "inserted" /\ Svc!Running(s) /\ ~Blocked(s)
<1>1. PICK s \in Request : s # r /\ tx[s] = "inserted"
  BY DEF LockedOut
<1>2. Persisting(s)
  BY <1>1 DEF StoreInv, TxInv
<1> QED
  BY <1>1, <1>2 DEF Svc!Running, Blocked, Persisting

\* Whoever has a connection that panics did not take runs, and waits for nobody
\* or for a row.
LEMMA PoolHolderMoves ==
    ASSUME StoreInv, leaked < maxConns, ~ConnFree
    PROVE  \E s \in Request : tx[s] # "none" /\ Persisting(s)
<1>1. Cardinality(InTx) \in Nat /\ maxConns \in Nat /\ leaked \in Nat
  BY PostgresAssumption, FS_CardinalityType DEF StoreInv, StoreTyped, PoolInv
<1>2. Cardinality(InTx) # 0
  BY <1>1 DEF ConnFree, Held
<1>3. InTx # {}
  BY <1>2, FS_EmptySet
<1> QED
  BY <1>3 DEF InTx, StoreInv, TxInv

\* For any number of requests and every size of the pool, waiting for rows and
\* for connections is never circular (pool.go:18, repositories.go:250-282).
THEOREM NobodyWaitsInACircle == Spec => []NoCircularWait
<1>1. StoreInv => NoCircularWait
  <2> SUFFICES ASSUME StoreInv, leaked < maxConns, NEW r \in Request, Blocked(r)
               PROVE  \E s \in Request : s # r /\ Svc!Running(s) /\ ~Blocked(s)
    BY DEF NoCircularWait
  <2>1. CASE Persisting(r) /\ tx[r] = "begun" /\ content[r].row /\ LockedOut(r)
    BY <2>1, LockHolderMoves
  <2>2. CASE tx[r] = "none" /\ ~ConnFree
    <3>1. PICK s \in Request : tx[s] # "none" /\ Persisting(s)
      BY <2>2, PoolHolderMoves
    <3>2. CASE Blocked(s)
      BY <2>2, <3>1, <3>2, LockHolderMoves DEF Blocked, Persisting
    <3>3. CASE ~Blocked(s)
      BY <2>2, <3>1, <3>3 DEF Svc!Running, Persisting
    <3> QED
      BY <3>2, <3>3
  <2>3. ~Persisting(r) => tx[r] = "none"
    BY DEF StoreInv, TxInv
  <2> QED
    BY <2>1, <2>2, <2>3 DEF Blocked, Persisting
<1> QED
  BY <1>1, StoreInvariance, PTL

LEMMA StepsFromIs ==
    /\ StepsFrom["idle"] = 13 /\ StepsFrom["lookup"] = 12 /\ StepsFrom["type"] = 11
    /\ StepsFrom["user"] = 10 /\ StepsFrom["credential"] = 9 /\ StepsFrom["build"] = 8
    /\ StepsFrom["last"] = 7 /\ StepsFrom["voucher"] = 6 /\ StepsFrom["await"] = 5
    /\ StepsFrom["persist"] = 4 /\ StepsFrom["persistRejected"] = 4
    /\ StepsFrom["reply"] = 1 /\ StepsFrom["done"] = 0
BY DEF StepsFrom

\* What the bound is at each step.
StepsBoundOf(r) ==
    /\ StepsLeft(r) \in Int
    /\ Len(content[r].items) \in Nat
    /\ pc[r] = "done" => StepsLeft(r) = 0
    /\ pc[r] = "reply" => StepsLeft(r) = 1
    /\ pc[r] \notin {"reply", "done"} =>
          StepsLeft(r) = StepsFrom[pc[r]] + Len(content[r].items) - InTxDone(r)
    /\ tx[r] = "none" => InTxDone(r) = 0
    /\ tx[r] = "begun" => InTxDone(r) = 1
    /\ tx[r] = "inserted" => InTxDone(r) = 2 + txItems[r]
    /\ InTxDone(r) \in 0 .. 2 + Len(content[r].items)

StepsBound == \A r \in Request : StepsBoundOf(r)

LEMMA StepsLeftIs ==
    ASSUME StoreInv, Svc!TypeOK
    PROVE  StepsBound
<1> SUFFICES ASSUME NEW r \in Request PROVE StepsBoundOf(r)
  BY DEF StepsBound
<1>1. content[r].items \in Seq(BOOLEAN) /\ tx[r] \in TxState /\ txItems[r] \in Nat
  BY PostgresAssumption DEF StoreInv, StoreTyped, ContentType
<1>2. Len(content[r].items) \in Nat
  BY <1>1
<1>3. /\ tx[r] = "none" => InTxDone(r) = 0
      /\ tx[r] = "begun" => InTxDone(r) = 1
      /\ tx[r] = "inserted" => InTxDone(r) = 2 + txItems[r]
  BY DEF InTxDone
<1>4. InTxDone(r) \in 0 .. 2 + Len(content[r].items)
  BY <1>1, <1>2, <1>3 DEF TxState, StoreInv, TxInv
<1>5. /\ pc[r] = "done" => StepsLeft(r) = 0
      /\ pc[r] = "reply" => StepsLeft(r) = 1
  BY DEF StepsLeft, StepsFrom
<1>6. pc[r] \notin {"reply", "done"} =>
          StepsLeft(r) = StepsFrom[pc[r]] + Len(content[r].items) - InTxDone(r)
  <2>1. StepsFrom[pc[r]] \in Nat
    BY DEF StepsFrom, Svc!TypeOK, Svc!Step
  <2> QED
    BY <1>2, <1>4, <2>1 DEF StepsLeft
<1>7. StepsLeft(r) \in Int
  <2>1. StepsFrom[pc[r]] \in Nat
    BY DEF StepsFrom, Svc!TypeOK, Svc!Step
  <2> QED
    BY <1>2, <1>4, <1>5, <1>6, <2>1
<1> QED
  BY <1>2, <1>3, <1>4, <1>5, <1>6, <1>7 DEF StepsBoundOf

\* A goroutine that stays where it is has as much left to do.
LEMMA SameWork ==
    ASSUME NEW r \in Request, pc'[r] = pc[r], tx'[r] = tx[r],
           txItems'[r] = txItems[r], content' = content
    PROVE  StepsLeft(r)' = StepsLeft(r)
BY DEF StepsLeft, InTxDone

\* A step of the service that is no save leads forward, and there is no
\* transaction before or after it.
LEMMA ServiceAdvances ==
    ASSUME Svc!TypeOK, NEW r \in Request, ServiceStep(r) \/ GetByIdempotencyKey(r)
    PROVE  \/ pc[r] = "reply" /\ pc'[r] = "done"
           \/ /\ pc[r] \in {"lookup", "type", "user", "credential", "build", "last",
                            "voucher", "await"}
              /\ \/ pc'[r] \in {"reply", "done"}
                 \/ /\ pc'[r] \notin {"reply", "done"}
                    /\ StepsFrom[pc'[r]] \in Nat
                    /\ StepsFrom[pc'[r]] < StepsFrom[pc[r]]
<1> USE DEF Svc!TypeOK, Svc!Return, Svc!Goto, StepsFrom
<1>1. CASE Svc!ParseInvoiceType(r) \/ Svc!GetByID(r) \/ Svc!GetByCustomerAndEnvironment(r)
  BY <1>1 DEF Svc!ParseInvoiceType, Svc!GetByID, Svc!GetByCustomerAndEnvironment
<1>2. CASE Svc!NewInvoice(r) \/ Svc!GetLastVoucher(r) \/ Svc!CreateVoucher(r)
  BY <1>2 DEF Svc!NewInvoice, Svc!GetLastVoucher, Svc!CreateVoucher
<1>3. CASE Svc!MarkIssued(r) \/ Svc!MarkRejected(r) \/ Svc!Reply(r)
  BY <1>3 DEF Svc!MarkIssued, Svc!MarkRejected, Svc!Reply
<1>4. CASE GetByIdempotencyKey(r)
  BY <1>4 DEF GetByIdempotencyKey, Svc!LookupPanics
<1> QED
  BY <1>1, <1>2, <1>3, <1>4 DEF ServiceStep

\* A step of Create does more of its transaction, or ends it and answers.
LEMMA CreateAdvances ==
    ASSUME StoreInv, Svc!TypeOK, NEW r \in Request, Create(r)
    PROVE  /\ Persisting(r)
           /\ content' = content
           /\ \/ pc'[r] = "reply"
              \/ /\ pc'[r] = pc[r]
                 /\ \/ tx[r] = "none" /\ tx'[r] = "begun"
                    \/ tx[r] = "begun" /\ tx'[r] = "inserted" /\ txItems'[r] = txItems[r]
                    \/ tx[r] = "inserted" /\ tx'[r] = tx[r] /\ txItems'[r] = txItems[r] + 1
<1>1. CASE Begin(r) \/ InsertInvoice(r) \/ InsertItem(r)
  BY <1>1 DEF Begin, InsertInvoice, InsertItem, StoreInv, StoreTyped
<1>2. CASE BeginFails(r) \/ InsertFails(r) \/ Commit(r)
  BY <1>2 DEF BeginFails, InsertFails, Commit, Returned, EndTx, storeVars, Svc!TypeOK
<1> QED
  BY <1>1, <1>2 DEF Create

\* A step of r's goroutine leaves it with less to do.
LEMMA HandleAdvances ==
    ASSUME StoreInv, Svc!TypeOK, StepsBound, StepsBound', NEW r \in Request, Handle(r)
    PROVE  StepsLeft(r)' < StepsLeft(r)
<1>0. StepsBoundOf(r) /\ StepsBoundOf(r)'
  BY DEF StepsBound
<1>1. CASE ServiceStep(r) \/ GetByIdempotencyKey(r)
  <2>1. ~Persisting(r) /\ tx'[r] = tx[r] /\ content' = content
    BY <1>1, Frame
  <2>2. tx[r] = "none"
    BY <2>1 DEF StoreInv, TxInv
  <2>3. InTxDone(r) = 0 /\ InTxDone(r)' = 0
    BY <1>0, <2>1, <2>2 DEF StepsBoundOf
  <2>4. CASE pc[r] = "reply" /\ pc'[r] = "done"
    BY <1>0, <2>4 DEF StepsBoundOf
  <2>5. CASE pc[r] \in {"lookup", "type", "user", "credential", "build", "last",
                        "voucher", "await"}
    <3>1. StepsFrom[pc[r]] \in Nat /\ StepsFrom[pc[r]] > 1
      BY <2>5, StepsFromIs
    <3>2. /\ Len(content[r].items) \in Nat
          /\ StepsLeft(r) = StepsFrom[pc[r]] + Len(content[r].items)
      BY <1>0, <2>3, <2>5, <3>1 DEF StepsBoundOf
    <3>3. CASE pc'[r] \in {"reply", "done"}
      BY <1>0, <3>1, <3>2, <3>3 DEF StepsBoundOf
    <3>4. CASE /\ pc'[r] \notin {"reply", "done"}
               /\ StepsFrom[pc'[r]] \in Nat
               /\ StepsFrom[pc'[r]] < StepsFrom[pc[r]]
      <4>1. StepsLeft(r)' = StepsFrom[pc'[r]] + Len(content[r].items) - 0
        BY <1>0, <2>1, <2>3, <3>4, StepsFromIs DEF StepsBoundOf
      <4> QED
        BY <3>1, <3>2, <3>4, <4>1
    <3> QED
      BY <1>1, <2>5, <3>3, <3>4, ServiceAdvances
  <2> QED
    BY <1>1, <2>4, <2>5, ServiceAdvances
<1>2. CASE Create(r)
  <2>1. /\ Persisting(r)
        /\ content' = content
        /\ Len(content[r].items) \in Nat
        /\ StepsLeft(r) = 4 + Len(content[r].items) - InTxDone(r)
        /\ InTxDone(r) \in 0 .. 2 + Len(content[r].items)
    <3>1. Persisting(r) /\ content' = content
      BY <1>2, CreateAdvances
    <3>2. StepsFrom[pc[r]] = 4 /\ pc[r] \notin {"reply", "done"}
      BY <3>1, StepsFromIs DEF Persisting
    <3> QED
      BY <1>0, <3>1, <3>2 DEF StepsBoundOf
  <2>2. CASE pc'[r] = "reply"
    <3>1. StepsLeft(r)' = 1
      BY <1>0, <2>2 DEF StepsBoundOf
    <3> QED
      BY <2>1, <3>1
  <2>3. CASE /\ pc'[r] = pc[r]
             /\ InTxDone(r)' = InTxDone(r) + 1
    <3>1. StepsLeft(r)' = 4 + Len(content[r].items) - InTxDone(r)'
      <4>1. pc'[r] \in {"persist", "persistRejected"}
        BY <2>1, <2>3 DEF Persisting
      <4>2. StepsFrom[pc'[r]] = 4
        BY <4>1, StepsFromIs
      <4>3. StepsLeft(r)' = StepsFrom[pc'[r]] + Len(content'[r].items) - InTxDone(r)'
        BY <1>0, <4>1 DEF StepsBoundOf
      <4> QED
        BY <2>1, <4>2, <4>3
    <3> QED
      BY <2>1, <2>3, <3>1
  <2>4. ASSUME pc'[r] # "reply" PROVE pc'[r] = pc[r] /\ InTxDone(r)' = InTxDone(r) + 1
    <3>1. txItems[r] \in Nat
      BY DEF StoreInv, StoreTyped
    <3>2. CASE tx[r] = "none" /\ tx'[r] = "begun"
      BY <1>0, <1>2, <2>4, <3>2, CreateAdvances DEF StepsBoundOf
    <3>3. CASE tx[r] = "begun" /\ tx'[r] = "inserted" /\ txItems'[r] = txItems[r]
      <4>1. txItems[r] = 0
        BY <3>3 DEF StoreInv, TxInv
      <4> QED
        BY <1>0, <1>2, <2>4, <3>3, <4>1, CreateAdvances DEF StepsBoundOf
    <3>4. CASE tx[r] = "inserted" /\ tx'[r] = tx[r] /\ txItems'[r] = txItems[r] + 1
      BY <1>0, <1>2, <2>4, <3>1, <3>4, CreateAdvances DEF StepsBoundOf
    <3> QED
      BY <1>2, <2>4, <3>2, <3>3, <3>4, CreateAdvances
  <2> QED
    BY <2>2, <2>3, <2>4
<1> QED
  BY <1>1, <1>2 DEF Handle

\* No other step takes r further from its answer.
LEMMA OthersDoNotDelay ==
    ASSUME StoreInv, Svc!TypeOK, StepsBound, StepsBound',
           [Next]_vars, NEW r \in Request, ~Handle(r)
    PROVE  StepsLeft(r)' <= StepsLeft(r)
<1>0. StepsBoundOf(r) /\ StepsBoundOf(r)'
  BY DEF StepsBound
<1>1. ASSUME NEW q \in Request, q # r, Arrive(q) \/ ServiceStep(q) \/ GetByIdempotencyKey(q)
      PROVE  StepsLeft(r)' = StepsLeft(r)
  BY <1>1, Frame, SameWork
<1>2. ASSUME NEW q \in Request, q # r, Create(q)
      PROVE  StepsLeft(r)' = StepsLeft(r)
  <2>1. /\ pc'[r] = pc[r] /\ tx'[r] = tx[r]
        /\ txItems'[r] = txItems[r] /\ content' = content
    BY <1>2 DEF Create, Begin, BeginFails, InsertInvoice, InsertItem, InsertFails, Commit,
                Returned, EndTx, storeVars, Svc!TypeOK, StoreInv, StoreTyped
  <2> QED
    BY <2>1, SameWork
<1>3. ASSUME Arrive(r) PROVE StepsLeft(r)' <= StepsLeft(r)
  <2>1. ~Persisting(r) /\ tx'[r] = tx[r] /\ content' = content
    BY <1>3, Frame
  <2>2. InTxDone(r) = 0 /\ InTxDone(r)' = 0
    BY <1>0, <2>1 DEF StepsBoundOf, StoreInv, TxInv
  <2>3. pc[r] = "idle" /\ pc'[r] \in {"reply", "type", "lookup"}
    BY <1>3 DEF Arrive, Svc!IssueInvoice, Svc!Return, Svc!Goto, Svc!TypeOK
  <2>4. Len(content[r].items) \in Nat /\ StepsLeft(r) = 13 + Len(content[r].items)
    BY <1>0, <2>2, <2>3, StepsFromIs DEF StepsBoundOf
  <2>5. StepsLeft(r)' \in {1, 11 + Len(content[r].items), 12 + Len(content[r].items)}
    <3>1. CASE pc'[r] = "reply"
      BY <1>0, <3>1 DEF StepsBoundOf
    <3>2. CASE pc'[r] \in {"type", "lookup"}
      <4>1. StepsFrom[pc'[r]] \in {11, 12}
        BY <3>2, StepsFromIs
      <4>2. StepsLeft(r)' = StepsFrom[pc'[r]] + Len(content[r].items) - 0
        BY <1>0, <2>1, <2>2, <3>2 DEF StepsBoundOf
      <4> QED
        BY <2>4, <4>1, <4>2
    <3> QED
      BY <2>3, <3>1, <3>2
  <2> QED
    BY <2>4, <2>5
<1>4. ASSUME External PROVE StepsLeft(r)' = StepsLeft(r)
  <2>1. UNCHANGED <<pc, storeVars>>
    BY <1>4 DEF External, Svc!ARCAAuthorises, Svc!ARCARefuses, Svc!CredentialExpires,
                Svc!CredentialStored, Svc!serverVars
  <2> QED
    BY <2>1, SameWork DEF storeVars
<1>5. ASSUME Crash PROVE StepsLeft(r)' <= StepsLeft(r)
  <2>1. CASE Svc!Running(r)
    <3>1. StepsLeft(r)' = 0
      BY <1>0, <1>5, <2>1 DEF Crash, Svc!Crash, StepsBoundOf
    <3>2. StepsLeft(r) >= 0
      <4>1. StepsFrom[pc[r]] \in Nat /\ (pc[r] \notin {"reply", "done"} => StepsFrom[pc[r]] > 3)
        BY StepsFromIs DEF Svc!TypeOK, Svc!Step
      <4>2. /\ StepsLeft(r) \in Int
            /\ Len(content[r].items) \in Nat
            /\ InTxDone(r) \in 0 .. 2 + Len(content[r].items)
        BY <1>0 DEF StepsBoundOf
      <4>3. CASE pc[r] \in {"reply", "done"}
        BY <1>0, <4>3 DEF StepsBoundOf
      <4>4. CASE pc[r] \notin {"reply", "done"}
        <5>1. StepsLeft(r) = StepsFrom[pc[r]] + Len(content[r].items) - InTxDone(r)
          BY <1>0, <4>4 DEF StepsBoundOf
        <5> QED
          BY <4>1, <4>2, <4>4, <5>1
      <4> QED
        BY <4>3, <4>4
    <3> QED
      BY <3>1, <3>2
  <2>2. CASE ~Svc!Running(r)
    <3>1. tx[r] = "none" /\ txItems[r] = 0
      BY <2>2 DEF StoreInv, TxInv, Persisting, Svc!Running
    <3>2. pc'[r] = pc[r] /\ tx'[r] = "none" /\ txItems'[r] = 0 /\ content' = content
      BY <1>5, <2>2 DEF Crash, Svc!Crash
    <3> QED
      BY <1>0, <3>1, <3>2, SameWork DEF StepsBoundOf
  <2> QED
    BY <2>1, <2>2
<1>6. ASSUME UNCHANGED vars PROVE StepsLeft(r)' = StepsLeft(r)
  BY <1>6, SameWork DEF vars, storeVars
<1> QED
  BY <1>0, <1>1, <1>2, <1>3, <1>4, <1>5, <1>6 DEF Next, Serve, Handle, StepsBoundOf

\* Every request is a bounded amount of work: no step repeats what was done or
\* undoes it, for any number of items, whatever fails (issue_invoice.go:75-161).
THEOREM WorkIsBounded == Spec => BoundedWork
<1>1. StoreInv /\ Svc!TypeOK => StepsBound
  BY StepsLeftIs
<1>2. /\ StoreInv /\ Svc!TypeOK /\ StepsBound /\ StepsBound'
      /\ [Next]_vars
      => [\A r \in Request :
             /\ StepsLeft(r)' <= StepsLeft(r)
             /\ Handle(r) => StepsLeft(r)' < StepsLeft(r)]_vars
  <2> SUFFICES ASSUME StoreInv, Svc!TypeOK, StepsBound, StepsBound', [Next]_vars,
                      NEW r \in Request
               PROVE  /\ StepsLeft(r)' <= StepsLeft(r)
                      /\ Handle(r) => StepsLeft(r)' < StepsLeft(r)
    OBVIOUS
  <2>1. CASE Handle(r)
    <3>1. StepsLeft(r)' < StepsLeft(r)
      BY <2>1, HandleAdvances
    <3>2. StepsLeft(r) \in Int /\ StepsLeft(r)' \in Int
      BY DEF StepsBound, StepsBoundOf
    <3> QED
      BY <3>1, <3>2
  <2>2. CASE ~Handle(r)
    BY <2>2, OthersDoNotDelay
  <2> QED
    BY <2>1, <2>2
<1> QED
  BY <1>1, <1>2, ServiceInvariance, StoreInvariance, PTL DEF Spec, BoundedWork

=============================================================================
