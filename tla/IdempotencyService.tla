--------------------------- MODULE IdempotencyService ---------------------------
(***************************************************************************)
(* The idempotency service (internal/application/idempotency/service.go)   *)
(* with its record (internal/domain/idempotency/idempotency.go) over the   *)
(* IdempotencyStore interface.  Process wraps a handler, which has an      *)
(* effect outside (issuing an invoice): it looks the key up, creates a     *)
(* record, runs the handler and updates the record, with no lock around    *)
(* the four.  Calls run concurrently, and one action is one call of the    *)
(* store or of the handler with the code up to the next.                   *)
(*                                                                         *)
(* The store does what the SQL of IdempotencyRepository says: Create is an *)
(* INSERT ... ON CONFLICT (key) DO UPDATE, which overwrites the request    *)
(* hash, the status and the expiry of a record that is there, and Update   *)
(* overwrites the status and the response and leaves the hash.  The Go     *)
(* code around that SQL passes Create one argument too few and lets Get    *)
(* scan eight of nine columns, so that over this store Process never gets  *)
(* past them: behaviours the model has too, since every call of the store  *)
(* may fail.  It is the model of Process over a store that does what the   *)
(* SQL says.  cmd/api wires neither.                                       *)
(***************************************************************************)
EXTENDS Integers

CONSTANTS
    Call,     \* the calls of Process
    Key,      \* non-empty idempotency keys
    NoKey,    \* the empty key
    Body,     \* non-empty request bodies, identified with their SHA-256
    NoBody,   \* the empty body
    NoCall    \* no call: the response of a record that has none

ASSUME ConstantsAssumption ==
    /\ NoKey \notin Key
    /\ NoBody \notin Body
    /\ NoCall \notin Call

VARIABLES
    request,   \* [Call -> Request]
    pc,        \* [Call -> Step]: where its goroutine is
    outcome,   \* [Call -> Outcome]: what Process returned
    result,    \* [Call -> Call \cup {NoCall}]: the call whose result it returned
    store,     \* [Key -> Record]: the idempotency_keys table
    executed,  \* the calls whose handler was run
    succeeded, \* the calls whose handler returned a result
    existed    \* history: the calls that arrived when their key had an unexpired
               \* record, which has not expired while they looked it up

vars == <<request, pc, outcome, result, store, executed, succeeded, existed>>

Request == [key : Key \cup {NoKey}, body : Body \cup {NoBody}]

Step == {"idle", "get", "create", "handle", "handled", "complete", "fail", "done"}

\* The codes of Process; the error of a failed handler is one of its own, and
\* a call that a crash cut off has none.
Outcome ==
    {"none", "ok", "handler_error", "database_error", "internal_error",
     "invalid_request", "validation_failed", "idempotency_not_found",
     "idempotency_conflict", "idempotency_processing", "aborted"}

RecordStatus == {"absent", "processing", "succeeded", "failed"}
Record ==
    [status : RecordStatus, body : Body \cup {NoBody},
     response : Call \cup {NoCall}, expired : BOOLEAN]
NoRecord ==
    [status |-> "absent", body |-> NoBody, response |-> NoCall, expired |-> FALSE]

KeyOf(c) == request[c].key
Exists(k) == store[k].status # "absent"
Live(k) == Exists(k) /\ ~store[k].expired

TypeOK ==
    /\ request \in [Call -> Request]
    /\ pc \in [Call -> Step]
    /\ outcome \in [Call -> Outcome]
    /\ result \in [Call -> Call \cup {NoCall}]
    /\ store \in [Key -> Record]
    /\ executed \subseteq Call
    /\ succeeded \subseteq executed
    /\ existed \subseteq Call

Init ==
    /\ request \in [Call -> Request]
    /\ pc = [c \in Call |-> "idle"]
    /\ outcome = [c \in Call |-> "none"]
    /\ result = [c \in Call |-> NoCall]
    /\ store = [k \in Key |-> NoRecord]
    /\ executed = {}
    /\ succeeded = {}
    /\ existed = {}

-----------------------------------------------------------------------------
\* Process goes on to step s.
Goto(c, s) ==
    /\ pc' = [pc EXCEPT ![c] = s]
    /\ UNCHANGED <<outcome, result>>

\* Process returns an error of code o.
Return(c, o) ==
    /\ pc' = [pc EXCEPT ![c] = "done"]
    /\ outcome' = [outcome EXCEPT ![c] = o]
    /\ UNCHANGED result

\* Process returns the result of call d.
ReturnResult(c, d) ==
    /\ pc' = [pc EXCEPT ![c] = "done"]
    /\ outcome' = [outcome EXCEPT ![c] = "ok"]
    /\ result' = [result EXCEPT ![c] = d]

\* What Create writes over the record of c's key.
Upserted(c) ==
    [store EXCEPT ![KeyOf(c)] =
        [status |-> "processing", body |-> request[c].body,
         response |-> @.response, expired |-> FALSE]]

\* What Update writes: status s and the response of c, or none.
Updated(c, s, d) ==
    [store EXCEPT ![KeyOf(c)] =
        [status |-> s, body |-> @.body, response |-> d, expired |-> @.expired]]

-----------------------------------------------------------------------------
(***************************************************************************)
(* Plausible mistakes in the actions below, kept to show that the          *)
(* properties notice them.  No specification uses these definitions.       *)
(***************************************************************************)

\* A record that is still processing is taken for one whose call has died.
FoundTakesOver(c) ==
    /\ pc[c] = "get" /\ Exists(KeyOf(c))
    /\ ~store[KeyOf(c)].expired /\ store[KeyOf(c)].status = "processing"
    /\ Goto(c, "create")
    /\ UNCHANGED <<request, store, executed, succeeded, existed>>

\* The handler is run whether the record was created or not.
CreateIgnoringErrors(c) ==
    /\ pc[c] = "create"
    /\ store' \in {store, Upserted(c)}
    /\ Goto(c, "handle")
    /\ UNCHANGED <<request, executed, succeeded, existed>>

\* A failed handler is recorded like a successful one.
FailAsSucceeded(c) ==
    /\ pc[c] = "fail"
    /\ store' \in {store, Updated(c, "succeeded", c)}
    /\ Return(c, "handler_error")
    /\ UNCHANGED <<request, executed, succeeded, existed>>

\* A success is recorded under a status that is none of the three.
CompleteMisnamed(c) ==
    /\ pc[c] = "complete"
    /\ store' = Updated(c, "completed", c)
    /\ ReturnResult(c, c)
    /\ UNCHANGED <<request, executed, succeeded, existed>>

\* A handler that returned an error is run again.
HandlerRetried(c) ==
    /\ pc[c] = "handled"
    /\ \/ c \notin succeeded /\ Goto(c, "handle")
       \/ c \in succeeded /\ Goto(c, "complete")
    /\ UNCHANGED <<request, store, executed, succeeded, existed>>

-----------------------------------------------------------------------------
(***************************************************************************)
(* Process.                                                                *)
(***************************************************************************)

Process(c) ==
    /\ pc[c] = "idle"
    /\ \/ KeyOf(c) = NoKey /\ Return(c, "invalid_request") /\ UNCHANGED existed
       \/ /\ KeyOf(c) # NoKey
          /\ Goto(c, "get")
          /\ existed' = existed \cup {d \in {c} : Live(KeyOf(d))}
    /\ UNCHANGED <<request, store, executed, succeeded>>

\* Get finds nothing; NewIdempotencyRecord refuses an empty body.
NotFound(c) ==
    /\ pc[c] = "get" /\ ~Exists(KeyOf(c))
    /\ IF request[c].body = NoBody
       THEN Return(c, "validation_failed")
       ELSE Goto(c, "create")
    /\ UNCHANGED <<request, store, executed, succeeded, existed>>

\* Get finds a record: IsExpired, then CheckConflict, then its status.  A result
\* that was kept is unmarshalled, which may fail; an error that was kept is
\* given the code of that failure.
Found(c) ==
    /\ pc[c] = "get" /\ Exists(KeyOf(c))
    /\ LET record == store[KeyOf(c)] IN
       \/ record.expired /\ Return(c, "idempotency_not_found")
       \/ /\ ~record.expired /\ record.body # request[c].body
          /\ Return(c, "idempotency_conflict")
       \/ /\ ~record.expired /\ record.body = request[c].body
          /\ \/ record.status = "processing" /\ Return(c, "idempotency_processing")
             \/ record.status = "succeeded" /\ ReturnResult(c, record.response)
             \/ record.status # "processing" /\ Return(c, "internal_error")
    /\ UNCHANGED <<request, store, executed, succeeded, existed>>

GetFails(c) ==
    /\ pc[c] = "get"
    /\ Return(c, "database_error")
    /\ UNCHANGED <<request, store, executed, succeeded, existed>>

\* The upsert.  An error may come before or after it took effect.
Create(c) ==
    /\ pc[c] = "create"
    /\ \/ store' = Upserted(c) /\ Goto(c, "handle")
       \/ store' \in {store, Upserted(c)} /\ Return(c, "database_error")
    /\ UNCHANGED <<request, executed, succeeded, existed>>

\* The handler has its effect, and gets a result for it or an error.
Handler(c) ==
    /\ pc[c] = "handle"
    /\ executed' = executed \cup {c}
    /\ succeeded' \in {succeeded, succeeded \cup {c}}
    /\ Goto(c, "handled")
    /\ UNCHANGED <<request, store, existed>>

\* handler() returns; its result is marshalled.  A result that cannot be is
\* an error, and the record is left as it is.
HandlerReturns(c) ==
    /\ pc[c] = "handled"
    /\ \/ c \notin succeeded /\ Goto(c, "fail")
       \/ c \in succeeded /\ Goto(c, "complete")
       \/ c \in succeeded /\ Return(c, "internal_error")
    /\ UNCHANGED <<request, store, executed, succeeded, existed>>

\* Complete and Update.
Complete(c) ==
    /\ pc[c] = "complete"
    /\ \/ store' = Updated(c, "succeeded", c) /\ ReturnResult(c, c)
       \/ /\ store' \in {store, Updated(c, "succeeded", c)}
          /\ Return(c, "database_error")
    /\ UNCHANGED <<request, executed, succeeded, existed>>

\* Fail and Update, whose error is dropped.
Fail(c) ==
    /\ pc[c] = "fail"
    /\ store' \in {store, Updated(c, "failed", NoCall)}
    /\ Return(c, "handler_error")
    /\ UNCHANGED <<request, executed, succeeded, existed>>

-----------------------------------------------------------------------------
(***************************************************************************)
(* The environment.                                                        *)
(***************************************************************************)

Running(c) == pc[c] \notin {"idle", "done"}

Crash ==
    /\ \E c \in Call : Running(c)
    /\ pc' = [c \in Call |-> IF Running(c) THEN "done" ELSE pc[c]]
    /\ outcome' = [c \in Call |-> IF Running(c) THEN "aborted" ELSE outcome[c]]
    /\ UNCHANGED <<request, result, store, executed, succeeded, existed>>

\* Time passes the record's ExpiresAt.
Expire(k) ==
    /\ Live(k)
    /\ store' = [store EXCEPT ![k].expired = TRUE]
    /\ existed' = {c \in existed : KeyOf(c) = k => pc[c] = "done"}
    /\ UNCHANGED <<request, pc, outcome, result, executed, succeeded>>

Work(c) ==
    \/ NotFound(c)
    \/ Found(c)
    \/ GetFails(c)
    \/ Create(c)
    \/ Handler(c)
    \/ HandlerReturns(c)
    \/ Complete(c)
    \/ Fail(c)

Next ==
    \/ \E c \in Call : Process(c) \/ Work(c)
    \/ \E k \in Key : Expire(k)
    \/ Crash

Spec == Init /\ [][Next]_vars

-----------------------------------------------------------------------------
(***************************************************************************)
(* Properties.                                                             *)
(***************************************************************************)

\* A retry never has the effect again: a call that arrives when its key has a
\* record, be it of a running, finished, failed or crashed call, does not run
\* the handler, unless the record expires before it is looked up
\* (service.go:36-49, 69-91).  Of expired records nothing is said.
RetryNeverExecutes == existed \cap executed = {}

\* The record is there before the effect: whatever fails between the handler
\* and Update, a later call of the key finds a record (service.go:47-51).
ExecutedIsRecorded == \A c \in executed : Exists(KeyOf(c))

\* A result that is returned, and one that is kept for later calls, is one a
\* handler run under the same key returned (service.go:62-66, 81-86).
ResultIsGenuine ==
    /\ \A c \in Call : outcome[c] = "ok" =>
          result[c] \in succeeded /\ KeyOf(result[c]) = KeyOf(c)
    /\ \A k \in Key : store[k].status = "succeeded" =>
          store[k].response \in succeeded /\ KeyOf(store[k].response) = k

\* Process seen from outside: the calls that were made, the keys that have a
\* record and those whose record has not expired, and the results that are kept.
Made == {c \in Call : pc[c] # "idle"}
RecordedKeys == {k \in Key : Exists(k)}
LiveKeys == {k \in Key : Live(k)}
Kept ==
    [k \in Key |-> IF store[k].status = "succeeded" THEN store[k].response ELSE NoCall]

Contract == INSTANCE IdempotencyContract
    WITH arrived <- Made, recorded <- RecordedKeys, live <- LiveKeys, kept <- Kept

\* Process keeps its contract: the handler runs at most once for a call, never
\* for a retry and never before its key has a record; a call returns once, its
\* own result, the one an unexpired record keeps at that moment, or a refusal
\* with its reason in the record; and a call that has returned does nothing
\* more (service.go:31-92).
KeepsContract == Contract!Spec

=============================================================================
