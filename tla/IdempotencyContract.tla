--------------------------- MODULE IdempotencyContract ---------------------------
(***************************************************************************)
(* What Service.Process promises the callers of it, the owner of the       *)
(* handler and the readers of the idempotency_keys table, with nothing of  *)
(* the order in which it calls the store.  Of a record three things are    *)
(* seen: that it is there, whether it has expired, and whose result it     *)
(* keeps for later calls.  A call whose key has an expired record may be   *)
(* refused, which the code does, or served like a first one, which the     *)
(* documents say.                                                          *)
(* Module IdempotencyService is shown to implement this one.               *)
(***************************************************************************)
CONSTANTS
    Call,     \* the calls of Process
    Key,      \* non-empty idempotency keys
    NoKey,    \* the empty key
    NoCall    \* no call's result

VARIABLES
    request,   \* what each call carries: its key and body
    arrived,   \* the calls that were made
    existed,   \* the retries: made when their key had an unexpired record, which
               \* has not expired while they were open
    recorded,  \* the keys that have a record
    live,      \* those whose record has not expired
    kept,      \* [Key -> Call \cup {NoCall}]: the result that the record keeps
    executed,  \* the calls whose handler was run
    succeeded, \* the calls whose handler returned a result
    outcome,   \* [Call -> code]: what Process returned, "none" so far
    result     \* [Call -> Call \cup {NoCall}]: whose result it returned

records == <<recorded, live, kept>>
vars == <<request, arrived, existed, records, executed, succeeded, outcome, result>>

KeyOf(c) == request[c].key

\* c was made and has not returned.
Open(c) == c \in arrived /\ outcome[c] = "none"

\* c is no retry and has done nothing yet.
Fresh(c) == Open(c) /\ c \notin existed \cup executed

Init ==
    /\ arrived = {} /\ existed = {} /\ recorded = {} /\ live = {}
    /\ kept = [k \in Key |-> NoCall]
    /\ executed = {} /\ succeeded = {}
    /\ outcome = [c \in Call |-> "none"]
    /\ result = [c \in Call |-> NoCall]

Return(c, code) ==
    /\ outcome' = [outcome EXCEPT ![c] = code]
    /\ UNCHANGED result

ReturnResult(c, d) ==
    /\ outcome' = [outcome EXCEPT ![c] = "ok"]
    /\ result' = [result EXCEPT ![c] = d]

\* A call without a key is refused at once.
Arrive(c) ==
    /\ c \notin arrived
    /\ arrived' = arrived \cup {c}
    /\ IF KeyOf(c) = NoKey
       THEN Return(c, "invalid_request") /\ UNCHANGED existed
       ELSE /\ existed' = existed \cup {d \in {c} : KeyOf(d) \in live}
            /\ UNCHANGED <<outcome, result>>
    /\ UNCHANGED <<request, records, executed, succeeded>>

\* A record is made for a call that is no retry, and takes the place of what a
\* concurrent call has kept.  The caller may be told that it failed.
Record(c) ==
    /\ Fresh(c)
    /\ recorded' = recorded \cup {KeyOf(c)}
    /\ live' = live \cup {KeyOf(c)}
    /\ kept' = [kept EXCEPT ![KeyOf(c)] = NoCall]
    /\ Return(c, "database_error") \/ UNCHANGED <<outcome, result>>
    /\ UNCHANGED <<request, arrived, existed, executed, succeeded>>

\* The handler runs once for a call, never for a retry, and not before the key
\* has a record.
Execute(c) ==
    /\ Fresh(c) /\ KeyOf(c) \in recorded
    /\ executed' = executed \cup {c}
    /\ succeeded' \in {succeeded, succeeded \cup {c}}
    /\ UNCHANGED <<request, arrived, existed, records, outcome, result>>

\* A call whose handler ran returns its result, which is then kept, or the
\* handler's error; or an error of its own, and the result may be kept or not.
Finish(c) ==
    /\ Open(c) /\ c \in executed
    /\ \/ /\ c \in succeeded
          /\ ReturnResult(c, c) /\ kept' = [kept EXCEPT ![KeyOf(c)] = c]
       \/ /\ c \in succeeded
          /\ \/ Return(c, "internal_error") /\ UNCHANGED kept
             \/ /\ Return(c, "database_error")
                /\ kept' \in {kept, [kept EXCEPT ![KeyOf(c)] = c]}
       \/ /\ c \notin succeeded
          /\ Return(c, "handler_error")
          /\ kept' \in {kept, [kept EXCEPT ![KeyOf(c)] = NoCall]}
    /\ UNCHANGED <<request, arrived, existed, recorded, live, executed, succeeded>>

\* A call that ran no handler returns the result that an unexpired record keeps.
Replay(c) ==
    /\ Open(c) /\ c \notin executed
    /\ KeyOf(c) \in live /\ kept[KeyOf(c)] # NoCall
    /\ ReturnResult(c, kept[KeyOf(c)])
    /\ UNCHANGED <<request, arrived, existed, records, executed, succeeded>>

\* A call that ran no handler is refused for its body, for the record that is
\* there, expired or not, or because the store failed.
Refuse(c) ==
    /\ Open(c) /\ c \notin executed
    /\ \/ c \notin existed /\ Return(c, "validation_failed")
       \/ KeyOf(c) \in recorded \ live /\ Return(c, "idempotency_not_found")
       \/ /\ KeyOf(c) \in live
          /\ \E code \in {"idempotency_conflict", "idempotency_processing",
                          "internal_error"} : Return(c, code)
       \/ Return(c, "database_error")
    /\ UNCHANGED <<request, arrived, existed, records, executed, succeeded>>

\* A record expires; the retries that are open are no retries any more.
Lapse(k) ==
    /\ k \in live
    /\ live' = live \ {k}
    /\ existed' = {c \in existed : KeyOf(c) = k => outcome[c] # "none"}
    /\ UNCHANGED <<request, arrived, recorded, kept, executed, succeeded, outcome, result>>

\* The process ends, and the calls that are open with it.
CutOff ==
    /\ outcome' = [c \in Call |-> IF Open(c) THEN "aborted" ELSE outcome[c]]
    /\ UNCHANGED <<request, arrived, existed, records, executed, succeeded, result>>

Next ==
    \/ \E c \in Call :
          Arrive(c) \/ Record(c) \/ Execute(c) \/ Finish(c) \/ Replay(c) \/ Refuse(c)
    \/ \E k \in Key : Lapse(k)
    \/ CutOff

Spec == Init /\ [][Next]_vars

=============================================================================
