------------------------------ MODULE ServerProofs ------------------------------
(***************************************************************************)
(* What holds across starts and stops of the process, for every set of     *)
(* requests and every size of the pool.                                    *)
(***************************************************************************)
EXTENDS Server, FiniteSetTheorems, TLAPS

\* Every step of the process is a step that PostgresInvoices knows, or one it
\* does not see.
LEMMA StepImplements == [Next]_vars => [PG!Next]_(PG!vars)
<1> SUFFICES ASSUME [Next]_vars PROVE [PG!Next]_(PG!vars)
  OBVIOUS
<1> USE DEF PG!Next, PG!Serve
<1>1. ASSUME NEW r \in Request, Arrive(r) \/ Handle(r) PROVE PG!Next
  BY <1>1 DEF Arrive, Handle
<1>2. ASSUME External PROVE PG!Next
  BY <1>2 DEF External
<1>3. ASSUME DeadlineExceeded \/ Killed PROVE PG!Next
  BY <1>3 DEF DeadlineExceeded, Killed
<1>4. ASSUME \/ Start \/ Signal \/ Drained \/ PoolClosed
             \/ UNCHANGED vars
      PROVE  UNCHANGED PG!vars
  BY <1>4 DEF Start, Signal, Drained, PoolClosed, vars, pgVars, PG!vars, PG!storeVars
<1> QED
  BY <1>1, <1>2, <1>3, <1>4 DEF Next

\* A process that is started, drained, closed, cut off and started again is,
\* to the invoices and the store, one that serves or dies (main.go:69-90).
THEOREM ServerImplementsPostgres == Spec => ImplementsPostgres
<1>1. Init => PG!Init
  BY DEF Init
<1> QED
  BY <1>1, StepImplements, PTL DEF Spec, ImplementsPostgres, PG!Spec

-----------------------------------------------------------------------------
\* Transactions belong to goroutines inside Create.
TxInCreate ==
    /\ pc = [r \in Request |-> pc[r]]
    /\ tx = [r \in Request |-> tx[r]]
    /\ \A r \in Request : tx[r] # "none" => PG!Persisting(r)

\* A goroutine runs when it takes a step, and moves no other.
LEMMA Frame ==
    ASSUME TxInCreate, NEW r \in Request, PG!Handle(r)
    PROVE  TxInCreate' /\ Running(r) /\ \A q \in Request : q # r => pc'[q] = pc[q]
<1> USE DEF TxInCreate, Running, PG!Persisting
<1>1. CASE PG!ServiceStep(r)
  BY <1>1 DEF PG!ServiceStep, PG!storeVars, PG!Svc!ParseInvoiceType, PG!Svc!Goto, PG!Svc!Return,
     PG!Svc!GetByID, PG!Svc!GetByCustomerAndEnvironment, PG!Svc!NewInvoice, PG!Svc!GetLastVoucher,
     PG!Svc!CreateVoucher, PG!Svc!MarkIssued, PG!Svc!MarkRejected, PG!Svc!Reply
<1>2. CASE PG!GetByIdempotencyKey(r)
  BY <1>2 DEF PG!GetByIdempotencyKey, PG!Svc!LookupPanics
<1>3. CASE PG!Create(r)
  BY <1>3 DEF PG!Create, PG!Begin, PG!BeginFails, PG!InsertInvoice, PG!InsertItem,
     PG!InsertFails, PG!Commit, PG!Returned, PG!EndTx, PG!storeVars
<1> QED
  BY <1>1, <1>2, <1>3 DEF PG!Handle

\* Every step keeps transactions inside Create, and the process idle when it
\* should be.
LEMMA IdleStep ==
    ASSUME TxInCreate, NothingLeftBehind, [Next]_vars
    PROVE  (TxInCreate /\ NothingLeftBehind)'
<1> USE DEF TxInCreate, NothingLeftBehind, Running
<1>1. ASSUME NEW r \in Request, Arrive(r) PROVE (TxInCreate /\ NothingLeftBehind)'
  BY <1>1 DEF Arrive, PG!Arrive, PG!storeVars, PG!Svc!IssueInvoice, PG!Svc!Goto,
              PG!Svc!Return, PG!Persisting
<1>2. ASSUME NEW r \in Request, Handle(r) PROVE (TxInCreate /\ NothingLeftBehind)'
  <2>1. TxInCreate' /\ Running(r) /\ phase' = phase
    BY <1>2, Frame DEF Handle
  <2>2. phase' \notin {"closing", "down"}
    BY <2>1
  <2> QED
    BY <2>1, <2>2
<1>3. ASSUME External PROVE (TxInCreate /\ NothingLeftBehind)'
  <2>1. UNCHANGED <<pc, tx, phase>>
    BY <1>3 DEF External, PG!External, PG!storeVars, PG!Svc!ARCAAuthorises, PG!Svc!ARCARefuses,
       PG!Svc!CredentialExpires, PG!Svc!CredentialStored, PG!Svc!serverVars
  <2> QED
    BY <2>1 DEF PG!Persisting
<1>4. ASSUME DeadlineExceeded \/ Killed PROVE (TxInCreate /\ NothingLeftBehind)'
  <2>1. PG!Crash
    BY <1>4 DEF DeadlineExceeded, Killed
  <2> QED
    BY <2>1 DEF PG!Crash, PG!Svc!Crash, PG!Svc!Running, PG!Persisting
<1>5. ASSUME Drained PROVE (TxInCreate /\ NothingLeftBehind)'
  BY <1>5 DEF Drained, Idle, pgVars, PG!Persisting
<1>6. ASSUME Start \/ Signal \/ PoolClosed \/ UNCHANGED vars
      PROVE  (TxInCreate /\ NothingLeftBehind)'
  BY <1>6 DEF Start, Signal, PoolClosed, vars, pgVars, PG!Persisting
<1> QED
  BY <1>1, <1>2, <1>3, <1>4, <1>5, <1>6 DEF Next

\* When Shutdown has returned, and when the process is gone, no goroutine of a
\* request runs and no transaction is open, for any number of requests and
\* however the deadline, signals and kills fall (main.go:86-90).
THEOREM NothingIsLeftBehind == Spec => []NothingLeftBehind
<1>1. Init => TxInCreate /\ NothingLeftBehind
  BY DEF Init, PG!Init, PG!EmptyStore, PG!Svc!Init, TxInCreate, NothingLeftBehind, Running
<1> QED
  BY <1>1, IdleStep, PTL DEF Spec

-----------------------------------------------------------------------------
(***************************************************************************)
(* What is proved of PostgresInvoices, across restarts.                    *)
(***************************************************************************)

PGP == INSTANCE PostgresInvoicesProofs

\* PG and PGP instantiate the same definitions in the same way: the pool.
LEMMA SameHeld == PG!Held = PGP!Held
BY DEF PG!Held, PGP!Held, PG!InTx, PGP!InTx, PG!Cardinality, PGP!Cardinality

LEMMA SameConnFree == PG!ConnFree <=> PGP!ConnFree
BY SameHeld DEF PG!ConnFree, PGP!ConnFree

\* What a handler does outside Create.
LEMMA SameServiceStep ==
    ASSUME NEW r \in Request
    PROVE  PG!ServiceStep(r) <=> PGP!ServiceStep(r)
<1> USE DEF PG!Svc!Return, PGP!Svc!Return, PG!Svc!Goto, PGP!Svc!Goto,
            PG!Svc!BookOf, PGP!Svc!BookOf,
            PG!Svc!credVars, PGP!Svc!credVars, PG!Svc!arcaVars, PGP!Svc!arcaVars
<1>1. PG!Svc!ParseInvoiceType(r) <=> PGP!Svc!ParseInvoiceType(r)
  BY DEF PG!Svc!ParseInvoiceType, PGP!Svc!ParseInvoiceType, PG!visible, PGP!visible
<1>2. PG!Svc!GetByID(r) <=> PGP!Svc!GetByID(r)
  BY DEF PG!Svc!GetByID, PGP!Svc!GetByID, PG!visible, PGP!visible
<1>3. PG!Svc!GetByCustomerAndEnvironment(r) <=> PGP!Svc!GetByCustomerAndEnvironment(r)
  BY DEF PG!Svc!GetByCustomerAndEnvironment, PGP!Svc!GetByCustomerAndEnvironment, PG!visible, PGP!visible,
         PG!Svc!Unexpired, PGP!Svc!Unexpired
<1>4. PG!Svc!NewInvoice(r) <=> PGP!Svc!NewInvoice(r)
  BY DEF PG!Svc!NewInvoice, PGP!Svc!NewInvoice, PG!visible, PGP!visible
<1>5. PG!Svc!GetLastVoucher(r) <=> PGP!Svc!GetLastVoucher(r)
  BY DEF PG!Svc!GetLastVoucher, PGP!Svc!GetLastVoucher, PG!visible, PGP!visible
<1>6. PG!Svc!CreateVoucher(r) <=> PGP!Svc!CreateVoucher(r)
  BY DEF PG!Svc!CreateVoucher, PGP!Svc!CreateVoucher, PG!visible, PGP!visible
<1>7. PG!Svc!MarkIssued(r) <=> PGP!Svc!MarkIssued(r)
  BY DEF PG!Svc!MarkIssued, PGP!Svc!MarkIssued, PG!visible, PGP!visible
<1>8. PG!Svc!MarkRejected(r) <=> PGP!Svc!MarkRejected(r)
  BY DEF PG!Svc!MarkRejected, PGP!Svc!MarkRejected, PG!visible, PGP!visible
<1>9. PG!Svc!Reply(r) <=> PGP!Svc!Reply(r)
  BY DEF PG!Svc!Reply, PGP!Svc!Reply, PG!visible, PGP!visible
<1>10. PG!Queried(r) <=> PGP!Queried(r)
  BY SameConnFree DEF PG!Queried, PGP!Queried
<1> QED
  BY <1>1, <1>2, <1>3, <1>4, <1>5, <1>6, <1>7, <1>8, <1>9, <1>10
     DEF PG!ServiceStep, PGP!ServiceStep, PG!storeVars, PGP!storeVars

\* The same for the steps of Create.
LEMMA SameCreate ==
    ASSUME NEW r \in Request
    PROVE  PG!Create(r) <=> PGP!Create(r)
<1> USE DEF PG!serviceVars, PGP!serviceVars, PG!storeVars, PGP!storeVars,
            PG!Persisting, PGP!Persisting, PG!Returned, PGP!Returned, PG!EndTx, PGP!EndTx
<1>1. PG!Begin(r) <=> PGP!Begin(r)
  BY SameConnFree DEF PG!Begin, PGP!Begin
<1>2. PG!BeginFails(r) <=> PGP!BeginFails(r)
  BY DEF PG!BeginFails, PGP!BeginFails
<1>3. PG!InsertInvoice(r) <=> PGP!InsertInvoice(r)
  BY DEF PG!InsertInvoice, PGP!InsertInvoice, PG!LockedOut, PGP!LockedOut,
         PG!Conflict, PGP!Conflict, PG!SameEntry, PGP!SameEntry
<1>4. PG!InsertItem(r) <=> PGP!InsertItem(r)
  BY DEF PG!InsertItem, PGP!InsertItem
<1>5. PG!InsertFails(r) <=> PGP!InsertFails(r)
  BY DEF PG!InsertFails, PGP!InsertFails
<1>6. PG!Commit(r) <=> PGP!Commit(r)
  BY DEF PG!Commit, PGP!Commit, PG!Publish, PGP!Publish
<1> QED
  BY <1>1, <1>2, <1>3, <1>4, <1>5, <1>6 DEF PG!Create, PGP!Create

\* And for the whole specification.
LEMMA SamePostgres == PG!Spec => PGP!Spec
<1>1. PG!Init => PGP!Init
  BY DEF PG!Init, PGP!Init, PG!EmptyStore, PGP!EmptyStore, PG!NotSaved, PGP!NotSaved, PG!Svc!Init, PGP!Svc!Init,
         PG!Svc!NoInvoice, PGP!Svc!NoInvoice, PG!Svc!Book, PGP!Svc!Book,
         PG!Svc!CredentialRow, PGP!Svc!CredentialRow, PG!visible, PGP!visible
<1>2. ASSUME NEW r \in Request PROVE PG!Handle(r) <=> PGP!Handle(r)
  <2>1. PG!GetByIdempotencyKey(r) <=> PGP!GetByIdempotencyKey(r)
    BY SameConnFree DEF PG!GetByIdempotencyKey, PGP!GetByIdempotencyKey,
           PG!Svc!LookupPanics, PGP!Svc!LookupPanics,
           PG!Svc!credVars, PGP!Svc!credVars, PG!Svc!arcaVars, PGP!Svc!arcaVars,
           PG!visible, PGP!visible
  <2> QED
    BY <2>1, SameServiceStep, SameCreate DEF PG!Handle, PGP!Handle
<1>3. ASSUME NEW r \in Request PROVE PG!Arrive(r) <=> PGP!Arrive(r)
  BY DEF PG!Arrive, PGP!Arrive, PG!storeVars, PGP!storeVars,
         PG!Svc!IssueInvoice, PGP!Svc!IssueInvoice, PG!Svc!Stored, PGP!Svc!Stored,
         PG!Svc!Unexpired, PGP!Svc!Unexpired,
         PG!Svc!Return, PGP!Svc!Return, PG!Svc!Goto, PGP!Svc!Goto,
         PG!Svc!credVars, PGP!Svc!credVars, PG!Svc!arcaVars, PGP!Svc!arcaVars,
         PG!visible, PGP!visible
<1>4. PG!External <=> PGP!External
  <2> USE DEF PG!Svc!serverVars, PGP!Svc!serverVars, PG!Svc!arcaVars, PGP!Svc!arcaVars,
              PG!Svc!credVars, PGP!Svc!credVars, PG!visible, PGP!visible
  <2>1. ASSUME NEW r \in Request
        PROVE  /\ PG!Svc!ARCAAuthorises(r) <=> PGP!Svc!ARCAAuthorises(r)
               /\ PG!Svc!ARCARefuses(r) <=> PGP!Svc!ARCARefuses(r)
    BY DEF PG!Svc!ARCAAuthorises, PGP!Svc!ARCAAuthorises, PG!Svc!ARCARefuses,
           PGP!Svc!ARCARefuses, PG!Svc!BookOf, PGP!Svc!BookOf
  <2>2. ASSUME NEW c \in Customer
        PROVE  /\ PG!Svc!CredentialExpires(c) <=> PGP!Svc!CredentialExpires(c)
               /\ PG!Svc!CredentialStored(c) <=> PGP!Svc!CredentialStored(c)
    BY DEF PG!Svc!CredentialExpires, PGP!Svc!CredentialExpires,
           PG!Svc!Unexpired, PGP!Svc!Unexpired, PG!Svc!CredentialStored,
           PGP!Svc!CredentialStored, PG!Svc!BeforeRead, PGP!Svc!BeforeRead
  <2> QED
    BY <2>1, <2>2 DEF PG!External, PGP!External, PG!storeVars, PGP!storeVars
<1>5. PG!Crash <=> PGP!Crash
  BY DEF PG!Crash, PGP!Crash, PG!Svc!Crash, PGP!Svc!Crash, PG!Svc!Running, PGP!Svc!Running,
         PG!Svc!NoInvoice, PGP!Svc!NoInvoice, PG!Svc!credVars, PGP!Svc!credVars,
         PG!Svc!arcaVars, PGP!Svc!arcaVars, PG!visible, PGP!visible
<1>6. [PG!Next]_(PG!vars) => [PGP!Next]_(PGP!vars)
  BY <1>2, <1>3, <1>4, <1>5 DEF PG!Next, PGP!Next, PG!Serve, PGP!Serve,
     PG!vars, PGP!vars, PG!storeVars, PGP!storeVars
<1> QED
  BY <1>1, <1>6, PTL DEF PG!Spec, PGP!Spec

\* A behaviour of the process is one that the theorems of PostgresInvoices are
\* about, in an instance whose constants are as they assume.
LEMMA ServerIsPostgres == Spec => PGP!Spec
BY ServerImplementsPostgres, SamePostgres DEF ImplementsPostgres

\* Every reachable state of the process is well typed, down, serving, draining
\* or closing.
THEOREM TypeCorrect == Spec => []TypeOK
<1>1. PGP!Spec => []PGP!TypeOK
  BY PGP!TypeCorrect, ServerAssumption
     DEF PG!PostgresAssumption, PG!ServiceAssumption, PG!ContentType, PGP!ContentType,
         PG!Svc!InputType, PGP!Svc!InputType, PG!Svc!Defect, PGP!Svc!Defect
<1>2. PGP!TypeOK => PG!TypeOK
  BY DEF PGP!TypeOK, PG!TypeOK, PGP!SavedRow, PG!SavedRow, PGP!TxState, PG!TxState,
     PGP!Svc!TypeOK, PG!Svc!TypeOK, PGP!Svc!Step, PG!Svc!Step, PGP!Svc!Outcome,
     PG!Svc!Outcome, PGP!Svc!CleanCode, PG!Svc!CleanCode, PGP!Svc!Invoice, PG!Svc!Invoice,
     PGP!Svc!Status, PG!Svc!Status, PGP!Svc!CredentialRow, PG!Svc!CredentialRow,
     PGP!Svc!VoucherState, PG!Svc!VoucherState, PGP!Svc!Book, PG!Svc!Book,
     PGP!Svc!Row, PG!Svc!Row, PGP!visible, PG!visible
<1>3. Spec => [](phase \in Phase)
  <2>1. Init => phase \in Phase
    BY DEF Init, Phase
  <2>2. phase \in Phase /\ [Next]_vars => (phase \in Phase)'
    BY DEF Phase, Next, vars, Arrive, Handle, External, Start, Signal, Drained,
                DeadlineExceeded, PoolClosed, Killed
  <2> QED
    BY <2>1, <2>2, PTL DEF Spec
<1>4. PG!TypeOK /\ phase \in Phase => TypeOK
  BY DEF TypeOK
<1> QED
  BY <1>1, <1>2, <1>3, <1>4, ServerIsPostgres, PTL

\* The promises of the store survive every stop and restart of the process, for
\* every size of the pool of each (main.go:69-90, repositories.go:250-282).
StoreKept ==
    PG!SavedWhole /\ PG!OneRowPerKey /\ PG!ConnectionsReturned /\ PG!NoCircularWait

THEOREM StoreSurvivesRestarts == Spec => []StoreKept
<1>1. PGP!Spec => /\ []PGP!SavedWhole
                  /\ []PGP!OneRowPerKey
                  /\ []PGP!ConnectionsReturned
                  /\ []PGP!NoCircularWait
  BY PGP!SavesAreWhole, PGP!OneRowForEachKey, PGP!ConnectionsComeBack,
     PGP!NobodyWaitsInACircle, ServerAssumption
     DEF PG!PostgresAssumption, PG!ServiceAssumption, PG!ContentType, PGP!ContentType,
         PG!Svc!InputType, PGP!Svc!InputType, PG!Svc!Defect, PGP!Svc!Defect
<1>2. PGP!SavedWhole /\ PGP!OneRowPerKey => PG!SavedWhole /\ PG!OneRowPerKey
  BY DEF PGP!SavedWhole, PG!SavedWhole, PGP!OneRowPerKey, PG!OneRowPerKey,
         PGP!SameEntry, PG!SameEntry
<1>3. PGP!ConnectionsReturned => PG!ConnectionsReturned
  BY SameHeld DEF PGP!ConnectionsReturned, PG!ConnectionsReturned,
                  PGP!Persisting, PG!Persisting
<1>4. PGP!NoCircularWait => PG!NoCircularWait
  <2>1. ASSUME NEW r \in Request PROVE PGP!Blocked(r) <=> PG!Blocked(r)
    BY SameConnFree DEF PGP!Blocked, PG!Blocked, PGP!Persisting, PG!Persisting,
                        PGP!LockedOut, PG!LockedOut, PGP!SameEntry, PG!SameEntry
  <2> QED
    BY <2>1 DEF PGP!NoCircularWait, PG!NoCircularWait, PGP!Svc!Running, PG!Svc!Running
<1>5. PG!SavedWhole /\ PG!OneRowPerKey /\ PG!ConnectionsReturned /\ PG!NoCircularWait
      => StoreKept
  BY DEF StoreKept
<1> QED
  BY <1>1, <1>2, <1>3, <1>4, <1>5, ServerIsPostgres, PTL

\* Nothing but connections that a panic leaked keeps pool.Close waiting: main
\* returns at once from a clean shutdown (main.go:31, 86-90).
CloseWaitsForLeaksOnly == phase = "closing" => PG!Held = leaked

THEOREM CloseWaits == Spec => []CloseWaitsForLeaksOnly
<1>1. NothingLeftBehind /\ TypeOK => CloseWaitsForLeaksOnly
  <2> SUFFICES ASSUME NothingLeftBehind, TypeOK, phase = "closing" PROVE PG!Held = leaked
    BY DEF CloseWaitsForLeaksOnly
  <2>1. PG!InTx = {}
    BY DEF NothingLeftBehind, PG!InTx
  <2>2. leaked \in Nat
    BY DEF TypeOK, PG!TypeOK
  <2>3. Cardinality({}) = 0
    BY FS_EmptySet
  <2>4. PG!Cardinality({}) = Cardinality({})
    BY DEF PG!Cardinality, Cardinality
  <2> QED
    BY <2>1, <2>2, <2>3, <2>4 DEF PG!Held
<1> QED
  BY <1>1, NothingIsLeftBehind, TypeCorrect, PTL

\* So do the promises about answers and vouchers: a 201 that a process gave
\* before it was stopped stands for a saved invoice under every process after
\* it, and no retry that one of them serves is issued again (main.go:69-90,
\* issue_invoice.go:76-161).
THEOREM ServiceSurvivesRestarts == Spec => []PGP!ServiceKept
<1>1. PGP!Spec => []PGP!ServiceKept
  BY PGP!ServiceIsKept, ServerAssumption
     DEF PG!PostgresAssumption, PG!ServiceAssumption, PG!ContentType, PGP!ContentType,
         PG!Svc!InputType, PGP!Svc!InputType, PG!Svc!Defect, PGP!Svc!Defect
<1> QED
  BY <1>1, ServerIsPostgres, PTL

\* Through all its starts and stops the server keeps one contract with the
\* clients, ARCA and the table: a stop is nothing but requests that are cut off.
THEOREM ServerKeepsContract == Spec => PGP!SvcP!KeepsContract
<1>1. PGP!Spec => PGP!SvcP!KeepsContract
  BY PGP!DeploymentKeepsContract, ServerAssumption
     DEF PG!PostgresAssumption, PG!ServiceAssumption, PG!ContentType, PGP!ContentType,
         PG!Svc!InputType, PGP!Svc!InputType, PG!Svc!Defect, PGP!Svc!Defect
<1> QED
  BY <1>1, ServerIsPostgres

=============================================================================
