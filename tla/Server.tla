--------------------------------- MODULE Server ---------------------------------
(***************************************************************************)
(* The life of the process (cmd/api/main.go): it starts, serves, is told   *)
(* to stop by a signal, drains, closes the pool and exits; or it is cut    *)
(* off, by the deadline of Shutdown or by a kill, at any moment.  Requests *)
(* and the store are those of module PostgresInvoices, whose variables     *)
(* this module shares: a step of the process is a step of that module, or  *)
(* one it does not see.                                                    *)
(***************************************************************************)
EXTENDS Integers, Sequences

CONSTANTS Request, Customer, Key, NoKey, Series, Input, Registered, Cuit, NoCuit,
          Content, PoolSize   \* as in PostgresInvoices

VARIABLES input, pc, code, inv, ref, voucherNumber, credential, issuer, usable,
          arca, number, last, prior, maxConns, content, saved, tx, txItems,
          leaked     \* as in PostgresInvoices

VARIABLE phase       \* what main is at

PG == INSTANCE PostgresInvoices

ASSUME ServerAssumption == PG!PostgresAssumption /\ PG!ServiceAssumption

pgVars == <<input, pc, code, inv, ref, voucherNumber, credential, issuer, usable,
            arca, number, last, prior, maxConns, content, saved, tx, txItems, leaked>>
vars == <<pgVars, phase>>

\* "draining" is inside Shutdown, "closing" inside the deferred pool.Close.
Phase == {"down", "serving", "draining", "closing"}

TypeOK == PG!TypeOK /\ phase \in Phase

Init == PG!Init /\ phase = "down"

Running(r) == pc[r] \notin {"idle", "done"}
Idle == \A r \in Request : ~Running(r)

-----------------------------------------------------------------------------
(***************************************************************************)
(* Plausible mistakes in the actions below, kept to show that the          *)
(* properties notice them.  No specification uses these definitions.       *)
(***************************************************************************)

\* Shutdown is called and not waited for.
DrainedWithoutWaiting ==
    /\ phase = "draining"
    /\ phase' = "closing"
    /\ UNCHANGED pgVars

\* Shutdown is given no deadline.
DeadlineMissing == FALSE /\ UNCHANGED vars

\* Exiting leaves the rows that were inserted, as if no transaction were open.
DeadlineCommits ==
    /\ phase = "draining"
    /\ ~Idle
    /\ phase' = "down"
    /\ saved' = [r \in Request |->
          IF tx[r] = "inserted"
          THEN [status |-> inv[r].status, items |-> txItems[r]] ELSE saved[r]]
    /\ tx' = [r \in Request |-> "none"]
    /\ txItems' = [r \in Request |-> 0]
    /\ leaked' = 0
    /\ pc' = [r \in Request |-> IF Running(r) THEN "done" ELSE pc[r]]
    /\ code' = [r \in Request |-> IF Running(r) THEN "aborted" ELSE code[r]]
    /\ inv' = [r \in Request |-> IF Running(r) THEN PG!Svc!NoInvoice ELSE inv[r]]
    /\ UNCHANGED <<input, ref, voucherNumber, credential, issuer, usable, arca,
                   number, last, prior, maxConns, content>>

-----------------------------------------------------------------------------
\* NewPool has pinged the database and ListenAndServe listens.  An error of
\* either ends the process, which is then where it was.
Start ==
    /\ phase = "down"
    /\ phase' = "serving"
    /\ UNCHANGED pgVars

\* SIGINT or SIGTERM.
Signal ==
    /\ phase = "serving"
    /\ phase' = "draining"
    /\ UNCHANGED pgVars

\* Shutdown returns nil: every connection is closed, and no request runs.
Drained ==
    /\ phase = "draining"
    /\ Idle
    /\ phase' = "closing"
    /\ UNCHANGED pgVars

\* Shutdown returns the error of its context after ten seconds: log.Fatalf
\* exits at once, without the deferred calls.
DeadlineExceeded ==
    /\ phase = "draining"
    /\ ~Idle
    /\ phase' = "down"
    /\ PG!Crash

\* pool.Close returns when every connection has come back to the pool, and main
\* with it.
PoolClosed ==
    /\ phase = "closing"
    /\ PG!Held = 0
    /\ phase' = "down"
    /\ UNCHANGED pgVars

\* SIGKILL, a second signal of the supervisor, or the machine.
Killed ==
    /\ phase # "down"
    /\ phase' = "down"
    /\ PG!Crash

\* New requests come while the listener is open, and until Shutdown has closed
\* the last connection that was accepted before.
Arrive(r) ==
    /\ phase \in {"serving", "draining"}
    /\ PG!Arrive(r)
    /\ UNCHANGED phase

\* The goroutines of requests live until the process ends.
Handle(r) ==
    /\ phase # "down"
    /\ PG!Handle(r)
    /\ UNCHANGED phase

External == PG!External /\ UNCHANGED phase

Next ==
    \/ \E r \in Request : Arrive(r) \/ Handle(r)
    \/ External
    \/ Start \/ Signal \/ Drained \/ DeadlineExceeded \/ PoolClosed \/ Killed

Spec == Init /\ [][Next]_vars

\* Go runs every goroutine that waits for no other, main among them, and a query
\* that waits for none comes back; the ten seconds of Shutdown pass.  Nothing
\* makes a client, a signal or a restart come.
FairSpec ==
    /\ Spec
    /\ \A r \in Request : WF_vars(~PG!Blocked(r) /\ Handle(r))
    /\ WF_vars(Drained)
    /\ WF_vars(DeadlineExceeded)
    /\ WF_vars(PoolClosed)

-----------------------------------------------------------------------------
(***************************************************************************)
(* Properties.                                                             *)
(***************************************************************************)

\* Whatever the process is at when it is stopped, the invoices and the store
\* only see a process that serves or dies: all that is shown of
\* PostgresInvoices holds across restarts.
ImplementsPostgres == PG!Spec

\* When Shutdown has returned, and when the process is gone, no request is left
\* in the middle and no transaction is open (main.go:86-90).
NothingLeftBehind ==
    phase \in {"closing", "down"} =>
        \A r \in Request : ~Running(r) /\ tx[r] = "none"

\* Requests that wait for a connection or for the transaction of another are
\* never in each other's way for ever: every request is answered or cut off,
\* unless the panics of the lookup have used up the pool.
EveryRequestAnswered ==
    \A r \in Request : Running(r) ~> (~Running(r) \/ leaked = maxConns)

\* A signal ends the process, by itself and in bounded time: nothing that a
\* request waits for keeps Shutdown waiting, and no transaction keeps pool.Close
\* waiting; a connection that a panic of the lookup leaked does
\* (main.go:31, 83-88).
ShutdownEnds ==
    /\ phase = "draining" ~> phase \in {"closing", "down"}
    /\ phase = "closing" ~> (phase = "down" \/ leaked > 0)

=============================================================================
