------------------------ MODULE IdempotencyServiceProofs ------------------------
(***************************************************************************)
(* The safety properties of IdempotencyService, for every set of calls,    *)
(* keys and bodies.                                                        *)
(***************************************************************************)
EXTENDS IdempotencyService, TLAPS

BeforeEffect == {"idle", "get", "create", "handle"}
Recorded     == {"handle", "handled", "complete", "fail"}

\* What the position of a goroutine says of what it has done.
ControlInv ==
    \A c \in Call :
        /\ pc[c] # "done" => outcome[c] = "none"
        /\ pc[c] \notin {"idle", "done"} => KeyOf(c) \in Key
        /\ pc[c] \in BeforeEffect => c \notin executed
        /\ pc[c] \in {"idle", "create"} \cup Recorded => c \notin existed
        /\ pc[c] \in Recorded => Exists(KeyOf(c))
        /\ pc[c] = "complete" => c \in succeeded
        /\ c \in existed => KeyOf(c) \in Key /\ Exists(KeyOf(c))

\* A call whose handler ran found no record when it arrived and has left one.
EffectInv ==
    \A c \in executed : KeyOf(c) \in Key /\ Exists(KeyOf(c)) /\ c \notin existed

\* A call has an outcome when it has returned, and its handler ran where the
\* code after it is.
AnswerInv ==
    \A c \in Call :
        /\ pc[c] = "done" => outcome[c] # "none"
        /\ pc[c] \in {"handled", "complete", "fail"} => c \in executed
        /\ pc[c] = "fail" => c \notin succeeded

IndInv ==
    /\ TypeOK
    /\ ControlInv
    /\ EffectInv
    /\ ResultIsGenuine
    /\ AnswerInv

-----------------------------------------------------------------------------
\* The records that the two writes of the store make are records.
LEMMA WritesTyped ==
    ASSUME TypeOK, ControlInv, NEW c \in Call, pc[c] \notin {"idle", "done"}
    PROVE  /\ Upserted(c) \in [Key -> Record]
           /\ \A s \in RecordStatus, d \in Call \cup {NoCall} :
                 Updated(c, s, d) \in [Key -> Record]
<1>1. KeyOf(c) \in Key /\ request[c].body \in Body \cup {NoBody}
  BY DEF TypeOK, ControlInv, Request
<1>2. store[KeyOf(c)] \in Record
  BY <1>1 DEF TypeOK
<1>3. Upserted(c) \in [Key -> Record]
  BY <1>1, <1>2 DEF Upserted, Record, RecordStatus, TypeOK
<1>4. ASSUME NEW s \in RecordStatus, NEW d \in Call \cup {NoCall}
      PROVE  Updated(c, s, d) \in [Key -> Record]
  BY <1>1, <1>2, <1>4 DEF Updated, Record, TypeOK
<1> QED
  BY <1>3, <1>4

\* The state variables keep their types.
LEMMA TypeStep ==
    ASSUME TypeOK, ControlInv, [Next]_vars
    PROVE  TypeOK'
<1> USE DEF TypeOK, Step, Outcome
<1>1. ASSUME NEW c \in Call, Process(c) PROVE TypeOK'
  BY <1>1 DEF Process, Goto, Return, Live
<1>2. ASSUME NEW c \in Call, Work(c) PROVE TypeOK'
  <2> USE DEF Goto, Return, ReturnResult
  <2>1. CASE NotFound(c)
    BY <2>1 DEF NotFound
  <2>2. CASE Found(c)
    BY <2>2 DEF Found, Record, ControlInv
  <2>3. CASE GetFails(c)
    BY <2>3 DEF GetFails
  <2>4. CASE Create(c)
    BY <2>4, WritesTyped DEF Create, RecordStatus
  <2>5. CASE Handler(c)
    BY <2>5 DEF Handler
  <2>6. CASE HandlerReturns(c)
    BY <2>6 DEF HandlerReturns
  <2>7. CASE Complete(c)
    <3>1. Updated(c, "succeeded", c) \in [Key -> Record]
      BY <2>7, WritesTyped DEF Complete, RecordStatus
    <3>2. store' \in [Key -> Record]
      BY <2>7, <3>1 DEF Complete
    <3> QED
      BY <2>7, <3>2 DEF Complete
  <2>8. CASE Fail(c)
    BY <2>8, WritesTyped DEF Fail, RecordStatus
  <2> QED
    BY <1>2, <2>1, <2>2, <2>3, <2>4, <2>5, <2>6, <2>7, <2>8 DEF Work
<1>3. ASSUME NEW k \in Key, Expire(k) PROVE TypeOK'
  <2>1. [store[k] EXCEPT !.expired = TRUE] \in Record
    BY <1>3 DEF Record
  <2> QED
    BY <1>3, <2>1 DEF Expire
<1>4. CASE Crash
  BY <1>4 DEF Crash, Running
<1>5. CASE UNCHANGED vars
  BY <1>5 DEF vars
<1> QED
  BY <1>1, <1>2, <1>3, <1>4, <1>5 DEF Next

\* Each step leaves its goroutine where ControlInv describes; a record that
\* is there stays there.
LEMMA ControlStep ==
    ASSUME TypeOK, ControlInv, [Next]_vars
    PROVE  ControlInv'
<1> USE DEF TypeOK, ControlInv, BeforeEffect, Recorded, KeyOf, Exists, Request
<1>1. ASSUME NEW c \in Call, Process(c) PROVE ControlInv'
  BY <1>1 DEF Process, Goto, Return, Live
<1>2. ASSUME NEW c \in Call, Work(c) PROVE ControlInv'
  <2> USE DEF Goto, Return, ReturnResult, Upserted, Updated
  <2>1. CASE NotFound(c)
    BY <2>1 DEF NotFound
  <2>2. CASE Found(c)
    BY <2>2 DEF Found
  <2>3. CASE GetFails(c)
    BY <2>3 DEF GetFails
  <2>4. CASE Create(c)
    BY <2>4 DEF Create
  <2>5. CASE Handler(c)
    BY <2>5 DEF Handler
  <2>6. CASE HandlerReturns(c)
    BY <2>6 DEF HandlerReturns
  <2>7. CASE Complete(c)
    BY <2>7 DEF Complete
  <2>8. CASE Fail(c)
    <3>1. KeyOf(c) \in Key /\ Exists(KeyOf(c))
      BY <2>8 DEF Fail
    <3>2. \A k \in Key : Exists(k) => Exists(k)'
      BY <2>8, <3>1 DEF Fail
    <3>3. pc' = [pc EXCEPT ![c] = "done"] /\ UNCHANGED <<request, executed, succeeded, existed>>
      BY <2>8 DEF Fail
    <3>4. outcome' = [outcome EXCEPT ![c] = "handler_error"]
      BY <2>8 DEF Fail
    <3> HIDE DEF Exists, Goto, Return, ReturnResult, Upserted, Updated
    <3> QED
      BY <3>2, <3>3, <3>4
  <2> QED
    BY <1>2, <2>1, <2>2, <2>3, <2>4, <2>5, <2>6, <2>7, <2>8 DEF Work
<1>3. ASSUME NEW k \in Key, Expire(k) PROVE ControlInv'
  BY <1>3 DEF Expire, Live
<1>4. CASE Crash
  BY <1>4 DEF Crash, Running
<1>5. CASE UNCHANGED vars
  BY <1>5 DEF vars
<1> QED
  BY <1>1, <1>2, <1>3, <1>4, <1>5 DEF Next

\* Only a call that is past a lookup without a record runs its handler.
LEMMA EffectStep ==
    ASSUME TypeOK, ControlInv, EffectInv, [Next]_vars
    PROVE  EffectInv'
<1> USE DEF TypeOK, ControlInv, EffectInv, BeforeEffect, Recorded, KeyOf, Exists
<1>1. ASSUME NEW c \in Call, Process(c) PROVE EffectInv'
  BY <1>1 DEF Process, Goto, Return, Live
<1>2. ASSUME NEW c \in Call, Work(c) PROVE EffectInv'
  <2> USE DEF Goto, Return, ReturnResult, Upserted, Updated
  <2>1. CASE NotFound(c)
    BY <2>1 DEF NotFound
  <2>2. CASE Found(c)
    BY <2>2 DEF Found
  <2>3. CASE GetFails(c)
    BY <2>3 DEF GetFails
  <2>4. CASE Create(c)
    BY <2>4 DEF Create
  <2>5. CASE Handler(c)
    BY <2>5 DEF Handler
  <2>6. CASE HandlerReturns(c)
    BY <2>6 DEF HandlerReturns
  <2>7. CASE Complete(c)
    BY <2>7 DEF Complete
  <2>8. CASE Fail(c)
    BY <2>8 DEF Fail
  <2> QED
    BY <1>2, <2>1, <2>2, <2>3, <2>4, <2>5, <2>6, <2>7, <2>8 DEF Work
<1>3. ASSUME NEW k \in Key, Expire(k) PROVE EffectInv'
  BY <1>3 DEF Expire, Live
<1>4. CASE Crash
  BY <1>4 DEF Crash, Running
<1>5. CASE UNCHANGED vars
  BY <1>5 DEF vars
<1> QED
  BY <1>1, <1>2, <1>3, <1>4, <1>5 DEF Next

\* The results that are kept and returned come from handlers of the key.
LEMMA ResultStep ==
    ASSUME TypeOK, ControlInv, ResultIsGenuine, [Next]_vars
    PROVE  ResultIsGenuine'
<1> USE DEF TypeOK, ControlInv, ResultIsGenuine, BeforeEffect, Recorded, KeyOf, Exists
<1>1. ASSUME NEW c \in Call, Process(c) PROVE ResultIsGenuine'
  BY <1>1 DEF Process, Goto, Return, Live
<1>2. ASSUME NEW c \in Call, Work(c) PROVE ResultIsGenuine'
  <2> USE DEF Goto, Return, ReturnResult, Upserted, Updated
  <2>1. CASE NotFound(c)
    BY <2>1 DEF NotFound
  <2>2. CASE Found(c)
    BY <2>2 DEF Found
  <2>3. CASE GetFails(c)
    BY <2>3 DEF GetFails
  <2>4. CASE Create(c)
    BY <2>4 DEF Create
  <2>5. CASE Handler(c)
    BY <2>5 DEF Handler
  <2>6. CASE HandlerReturns(c)
    BY <2>6 DEF HandlerReturns
  <2>7. CASE Complete(c)
    BY <2>7 DEF Complete
  <2>8. CASE Fail(c)
    BY <2>8 DEF Fail
  <2> QED
    BY <1>2, <2>1, <2>2, <2>3, <2>4, <2>5, <2>6, <2>7, <2>8 DEF Work
<1>3. ASSUME NEW k \in Key, Expire(k) PROVE ResultIsGenuine'
  BY <1>3 DEF Expire, Live
<1>4. CASE Crash
  BY <1>4 DEF Crash, Running
<1>5. CASE UNCHANGED vars
  BY <1>5 DEF vars
<1> QED
  BY <1>1, <1>2, <1>3, <1>4, <1>5 DEF Next

\* A goroutine returns with an outcome, and only past the handler with an effect.
LEMMA AnswerStep ==
    ASSUME TypeOK, ControlInv, AnswerInv, [Next]_vars
    PROVE  AnswerInv'
<1> USE DEF TypeOK, AnswerInv
<1>1. ASSUME NEW c \in Call, Process(c) PROVE AnswerInv'
  BY <1>1 DEF Process, Goto, Return, Live
<1>2. ASSUME NEW c \in Call, Work(c) PROVE AnswerInv'
  <2> USE DEF Goto, Return, ReturnResult
  <2>1. CASE NotFound(c)
    BY <2>1 DEF NotFound
  <2>2. CASE Found(c)
    BY <2>2 DEF Found
  <2>3. CASE GetFails(c)
    BY <2>3 DEF GetFails
  <2>4. CASE Create(c)
    BY <2>4 DEF Create
  <2>5. CASE Handler(c)
    BY <2>5 DEF Handler
  <2>6. CASE HandlerReturns(c)
    BY <2>6 DEF HandlerReturns
  <2>7. CASE Complete(c)
    BY <2>7 DEF Complete
  <2>8. CASE Fail(c)
    BY <2>8 DEF Fail
  <2> QED
    BY <1>2, <2>1, <2>2, <2>3, <2>4, <2>5, <2>6, <2>7, <2>8 DEF Work
<1>3. ASSUME NEW k \in Key, Expire(k) PROVE AnswerInv'
  BY <1>3 DEF Expire, Live
<1>4. CASE Crash
  BY <1>4 DEF Crash, Running
<1>5. CASE UNCHANGED vars
  BY <1>5 DEF vars
<1> QED
  BY <1>1, <1>2, <1>3, <1>4, <1>5 DEF Next

-----------------------------------------------------------------------------
LEMMA IndInvInit == Init => IndInv
<1> SUFFICES ASSUME Init PROVE IndInv
  OBVIOUS
<1> USE DEF Init, NoRecord
<1>1. TypeOK
  BY DEF TypeOK, Step, Outcome, Record, RecordStatus
<1>2. ControlInv /\ EffectInv
  BY DEF ControlInv, EffectInv, Recorded
<1>3. ResultIsGenuine
  BY DEF ResultIsGenuine
<1>4. AnswerInv
  BY DEF AnswerInv
<1> QED
  BY <1>1, <1>2, <1>3, <1>4 DEF IndInv

LEMMA IndInvStep == IndInv /\ [Next]_vars => IndInv'
<1> SUFFICES ASSUME IndInv, [Next]_vars PROVE IndInv'
  OBVIOUS
<1> USE DEF IndInv
<1>1. TypeOK'
  BY TypeStep
<1>2. ControlInv'
  BY ControlStep
<1>3. EffectInv'
  BY EffectStep
<1>4. ResultIsGenuine'
  BY ResultStep
<1>5. AnswerInv'
  BY AnswerStep
<1> QED
  BY <1>1, <1>2, <1>3, <1>4, <1>5

\* The inductive invariant holds throughout every behaviour of the service.
THEOREM Invariance == Spec => []IndInv
BY IndInvInit, IndInvStep, PTL DEF Spec

\* Every reachable state is well typed: a record only ever has the statuses of
\* the schema, and only handlers that ran have succeeded.
THEOREM TypeCorrect == Spec => []TypeOK
<1>1. IndInv => TypeOK
  BY DEF IndInv
<1> QED
  BY <1>1, Invariance, PTL

\* A call that arrives when its key has a record never runs the handler,
\* whatever became of the call that made the record, as long as the record does
\* not expire before it is looked up (service.go:36-49, 69-91).
THEOREM RetryIsNeverExecuted == Spec => []RetryNeverExecutes
<1>1. IndInv => RetryNeverExecutes
  BY DEF IndInv, EffectInv, RetryNeverExecutes
<1> QED
  BY <1>1, Invariance, PTL

\* Whatever fails after the handler ran, its key has a record
\* (service.go:47-51).
THEOREM ExecutedStaysRecorded == Spec => []ExecutedIsRecorded
<1>1. IndInv => ExecutedIsRecorded
  BY DEF IndInv, EffectInv, ExecutedIsRecorded
<1> QED
  BY <1>1, Invariance, PTL

\* Process never makes a result up: what it returns, and keeps, a handler run
\* under the key has returned (service.go:62-66, 81-86).
THEOREM ResultsAreGenuine == Spec => []ResultIsGenuine
<1>1. IndInv => ResultIsGenuine
  BY DEF IndInv
<1> QED
  BY <1>1, Invariance, PTL

-----------------------------------------------------------------------------
(***************************************************************************)
(* Process implements its contract.                                        *)
(***************************************************************************)

\* What a write of the store does to the keys recorded, to the live ones and to
\* the results kept.
LEMMA UpsertSeen ==
    ASSUME TypeOK, NEW c \in Call, KeyOf(c) \in Key, store' = Upserted(c)
    PROVE  /\ RecordedKeys' = RecordedKeys \cup {KeyOf(c)}
           /\ LiveKeys' = LiveKeys \cup {KeyOf(c)}
           /\ Kept' = [Kept EXCEPT ![KeyOf(c)] = NoCall]
<1>1. /\ store'[KeyOf(c)].status = "processing"
      /\ ~store'[KeyOf(c)].expired
  BY DEF TypeOK, Upserted
<1>2. \A k \in Key : k # KeyOf(c) => store'[k] = store[k]
  BY DEF TypeOK, Upserted
<1>3. RecordedKeys' = RecordedKeys \cup {KeyOf(c)}
  BY <1>1, <1>2 DEF RecordedKeys, Exists
<1>4. LiveKeys' = LiveKeys \cup {KeyOf(c)}
  BY <1>1, <1>2 DEF LiveKeys, Live, Exists
<1>5. Kept' = [Kept EXCEPT ![KeyOf(c)] = NoCall]
  BY <1>1, <1>2 DEF Kept
<1> QED
  BY <1>3, <1>4, <1>5

LEMMA UpdateSeen ==
    ASSUME TypeOK, NEW c \in Call, KeyOf(c) \in Key, Exists(KeyOf(c)),
           NEW s \in {"succeeded", "failed"}, NEW d \in Call \cup {NoCall},
           store' = Updated(c, s, d)
    PROVE  /\ RecordedKeys' = RecordedKeys
           /\ LiveKeys' = LiveKeys
           /\ Kept' = [Kept EXCEPT ![KeyOf(c)] = IF s = "succeeded" THEN d ELSE NoCall]
<1>1. /\ store'[KeyOf(c)].status = s
      /\ store'[KeyOf(c)].response = d
      /\ store'[KeyOf(c)].expired = store[KeyOf(c)].expired
  BY DEF TypeOK, Updated
<1>2. \A k \in Key : k # KeyOf(c) => store'[k] = store[k]
  BY DEF TypeOK, Updated
<1>3. RecordedKeys' = RecordedKeys
  BY <1>1, <1>2 DEF RecordedKeys, Exists
<1>4. LiveKeys' = LiveKeys
  BY <1>1, <1>2 DEF LiveKeys, Live, Exists
<1>5. Kept' = [Kept EXCEPT ![KeyOf(c)] = IF s = "succeeded" THEN d ELSE NoCall]
  BY <1>1, <1>2 DEF Kept
<1> QED
  BY <1>3, <1>4, <1>5

\* Nothing is seen of a step that leaves the table alone.
LEMMA StoreUnseen ==
    ASSUME store' = store
    PROVE  RecordedKeys' = RecordedKeys /\ LiveKeys' = LiveKeys /\ Kept' = Kept
BY DEF RecordedKeys, LiveKeys, Live, Kept, Exists

\* Once a call runs it stays made.
LEMMA MadeStays ==
    ASSUME TypeOK, NEW c \in Call, pc[c] # "idle", NEW s, s # "idle",
           pc' = [pc EXCEPT ![c] = s]
    PROVE  Made' = Made
BY DEF TypeOK, Made

\* A call is open to the contract while its goroutine runs.
LEMMA OpenIsRunning ==
    ASSUME ControlInv, AnswerInv, NEW c \in Call
    PROVE  Contract!Open(c) <=> Running(c)
BY DEF ControlInv, AnswerInv, Contract!Open, Running, Made

LEMMA ArriveContract ==
    ASSUME IndInv, NEW c \in Call, Process(c)
    PROVE  Contract!Arrive(c)
<1>1. pc[c] = "idle" /\ store' = store /\ UNCHANGED <<request, executed, succeeded>>
  BY DEF Process
<1>2. RecordedKeys' = RecordedKeys /\ LiveKeys' = LiveKeys /\ Kept' = Kept
  BY <1>1, StoreUnseen
<1>3. c \notin Made /\ Made' = Made \cup {c}
  BY <1>1 DEF Process, Goto, Return, Made, IndInv, TypeOK
<1>4. KeyOf(c) \in Key \cup {NoKey}
  BY DEF IndInv, TypeOK, Request, KeyOf
<1>5. CASE KeyOf(c) = NoKey
  BY <1>1, <1>2, <1>3, <1>5
     DEF Process, Return, KeyOf, Contract!Arrive, Contract!KeyOf, Contract!Return,
         Contract!records
<1>6. CASE KeyOf(c) # NoKey
  <2>1. existed' = existed \cup {d \in {c} : KeyOf(d) \in LiveKeys}
    BY <1>4, <1>6 DEF Process, LiveKeys
  <2> QED
    BY <1>1, <1>2, <1>3, <1>6, <2>1
       DEF Process, Goto, KeyOf, Contract!Arrive, Contract!KeyOf, Contract!records
<1> QED
  BY <1>5, <1>6

\* Create is what the contract calls making a record.
LEMMA CreateContract ==
    ASSUME IndInv, NEW c \in Call, Create(c)
    PROVE  Contract!Record(c) \/ Contract!Refuse(c)
<1>1. /\ pc[c] = "create"
      /\ KeyOf(c) \in Key
      /\ c \notin existed /\ c \notin executed
      /\ UNCHANGED <<request, executed, succeeded, existed>>
  BY DEF Create, IndInv, ControlInv, BeforeEffect
<1>2. Contract!Open(c)
  BY <1>1, OpenIsRunning DEF IndInv, Running
<1>3. Made' = Made
  BY <1>1, MadeStays DEF Create, Goto, Return, IndInv
<1>4. Contract!KeyOf(c) = KeyOf(c)
  BY DEF KeyOf, Contract!KeyOf
<1>5. CASE store' = Upserted(c)
  <2>1. /\ RecordedKeys' = RecordedKeys \cup {KeyOf(c)}
        /\ LiveKeys' = LiveKeys \cup {KeyOf(c)}
        /\ Kept' = [Kept EXCEPT ![KeyOf(c)] = NoCall]
    BY <1>1, <1>5, UpsertSeen DEF IndInv
  <2>2. Contract!Return(c, "database_error") \/ UNCHANGED <<outcome, result>>
    BY DEF Create, Goto, Return, Contract!Return
  <2> QED
    BY <1>1, <1>2, <1>3, <1>4, <2>1, <2>2 DEF Contract!Record, Contract!Fresh
<1>6. CASE store' # Upserted(c)
  <2>1. store' = store /\ Return(c, "database_error")
    BY <1>6 DEF Create
  <2> QED
    BY <1>1, <1>2, <1>3, <2>1, StoreUnseen
       DEF Return, Contract!Refuse, Contract!Return, Contract!records
<1> QED
  BY <1>5, <1>6

LEMMA HandlerContract ==
    ASSUME IndInv, NEW c \in Call, Handler(c)
    PROVE  Contract!Execute(c)
<1>1. /\ pc[c] = "handle"
      /\ KeyOf(c) \in Key /\ Exists(KeyOf(c))
      /\ c \notin existed /\ c \notin executed
      /\ UNCHANGED <<request, store, outcome, result, existed>>
  BY DEF Handler, Goto, IndInv, ControlInv, BeforeEffect, Recorded
<1>2. Contract!Open(c)
  BY <1>1, OpenIsRunning DEF IndInv, Running
<1>3. Made' = Made
  BY <1>1, MadeStays DEF Handler, Goto, IndInv
<1>4. Contract!KeyOf(c) \in RecordedKeys
  BY <1>1 DEF KeyOf, Contract!KeyOf, RecordedKeys
<1> QED
  BY <1>1, <1>2, <1>3, <1>4, StoreUnseen
     DEF Handler, Contract!Execute, Contract!Fresh, Contract!records

\* What a call returns after its handler ran.
LEMMA FinishContract ==
    ASSUME IndInv, NEW c \in Call, HandlerReturns(c) \/ Complete(c) \/ Fail(c)
    PROVE  Contract!Finish(c) \/ UNCHANGED Contract!vars
<1>1. /\ pc[c] \in {"handled", "complete", "fail"}
      /\ KeyOf(c) \in Key /\ Exists(KeyOf(c)) /\ c \in executed
      /\ UNCHANGED <<request, executed, succeeded, existed>>
  BY DEF HandlerReturns, Complete, Fail, IndInv, ControlInv, AnswerInv, Recorded
<1>2. Contract!Open(c)
  BY <1>1, OpenIsRunning DEF IndInv, Running
<1>3. Made' = Made
  BY <1>1, MadeStays DEF HandlerReturns, Complete, Fail, Goto, Return, ReturnResult, IndInv
<1>4. Contract!KeyOf(c) = KeyOf(c)
  BY DEF KeyOf, Contract!KeyOf
<1> USE DEF Contract!Finish, Contract!Return, Contract!ReturnResult, Return, ReturnResult
<1>5. CASE HandlerReturns(c)
  <2>1. store' = store
    BY <1>5 DEF HandlerReturns
  <2>2. CASE Goto(c, "fail") \/ Goto(c, "complete")
    BY <1>1, <1>3, <2>1, <2>2, StoreUnseen
       DEF Goto, Contract!vars, Contract!records
  <2>3. CASE c \in succeeded /\ Return(c, "internal_error")
    BY <1>1, <1>2, <1>3, <2>1, <2>3, StoreUnseen
  <2> QED
    BY <1>5, <2>2, <2>3 DEF HandlerReturns
<1>6. CASE Complete(c)
  <2>1. c \in succeeded
    BY <1>6 DEF Complete, IndInv, ControlInv
  <2>2. CASE store' = Updated(c, "succeeded", c)
    <3>1. /\ RecordedKeys' = RecordedKeys /\ LiveKeys' = LiveKeys
          /\ Kept' = [Kept EXCEPT ![KeyOf(c)] = c]
      BY <1>1, <2>2, UpdateSeen DEF IndInv
    <3> QED
      BY <1>1, <1>2, <1>3, <1>4, <1>6, <2>1, <3>1 DEF Complete
  <2>3. CASE store' # Updated(c, "succeeded", c)
    <3>1. store' = store /\ Return(c, "database_error")
      BY <1>6, <2>3 DEF Complete
    <3> QED
      BY <1>1, <1>2, <1>3, <2>1, <3>1, StoreUnseen
  <2> QED
    BY <2>2, <2>3
<1>7. CASE Fail(c)
  <2>1. c \notin succeeded
    BY <1>7 DEF Fail, IndInv, AnswerInv
  <2>2. CASE store' = Updated(c, "failed", NoCall)
    <3>1. /\ RecordedKeys' = RecordedKeys /\ LiveKeys' = LiveKeys
          /\ Kept' = [Kept EXCEPT ![KeyOf(c)] = NoCall]
      BY <1>1, <2>2, UpdateSeen DEF IndInv
    <3> QED
      BY <1>1, <1>2, <1>3, <1>4, <1>7, <2>1, <3>1 DEF Fail
  <2>3. CASE store' = store
    BY <1>1, <1>2, <1>3, <1>7, <2>1, <2>3, StoreUnseen DEF Fail
  <2> QED
    BY <1>7, <2>2, <2>3 DEF Fail
<1> QED
  BY <1>5, <1>6, <1>7

\* What Get makes a call return.
LEMMA LookupContract ==
    ASSUME IndInv, NEW c \in Call, NotFound(c) \/ Found(c) \/ GetFails(c)
    PROVE  Contract!Refuse(c) \/ Contract!Replay(c) \/ UNCHANGED Contract!vars
<1>1. /\ pc[c] = "get" /\ KeyOf(c) \in Key /\ c \notin executed
      /\ UNCHANGED <<request, store, executed, succeeded, existed>>
  BY DEF NotFound, Found, GetFails, IndInv, ControlInv, BeforeEffect
<1>2. Contract!Open(c)
  BY <1>1, OpenIsRunning DEF IndInv, Running
<1>3. Made' = Made
  BY <1>1, MadeStays DEF NotFound, Found, GetFails, Goto, Return, ReturnResult, IndInv
<1>4. RecordedKeys' = RecordedKeys /\ LiveKeys' = LiveKeys /\ Kept' = Kept
  BY <1>1, StoreUnseen
<1>5. Contract!KeyOf(c) = KeyOf(c)
  BY DEF KeyOf, Contract!KeyOf
<1> USE DEF Contract!Refuse, Contract!Return, Contract!records, Return
<1>6. CASE NotFound(c)
  <2>1. c \notin existed
    BY <1>6 DEF NotFound, IndInv, ControlInv
  <2>2. CASE Return(c, "validation_failed")
    BY <1>1, <1>2, <1>3, <1>4, <2>1, <2>2
  <2>3. CASE Goto(c, "create")
    BY <1>1, <1>3, <1>4, <2>3 DEF Goto, Contract!vars
  <2> QED
    BY <1>6, <2>2, <2>3 DEF NotFound
<1>7. CASE Found(c)
  <2>1. CASE store[KeyOf(c)].expired /\ Return(c, "idempotency_not_found")
    <3>1. KeyOf(c) \in RecordedKeys \ LiveKeys
      BY <1>1, <1>7, <2>1 DEF Found, RecordedKeys, LiveKeys, Live
    <3> QED
      BY <1>1, <1>2, <1>3, <1>4, <1>5, <2>1, <3>1
  <2>2. ASSUME NEW o \in {"idempotency_conflict", "idempotency_processing",
                          "internal_error"},
               ~store[KeyOf(c)].expired, Return(c, o)
        PROVE  Contract!Refuse(c)
    <3>1. KeyOf(c) \in LiveKeys
      BY <1>1, <1>7, <2>2 DEF Found, LiveKeys, Live
    <3> QED
      BY <1>1, <1>2, <1>3, <1>4, <1>5, <2>2, <3>1
  <2>3. CASE /\ ~store[KeyOf(c)].expired
             /\ store[KeyOf(c)].status = "succeeded"
             /\ ReturnResult(c, store[KeyOf(c)].response)
    <3>0. KeyOf(c) \in LiveKeys
      BY <1>1, <1>7, <2>3 DEF Found, LiveKeys, Live
    <3>1. Kept[KeyOf(c)] = store[KeyOf(c)].response
      BY <1>1, <2>3 DEF Kept
    <3>2. store[KeyOf(c)].response \in succeeded
      BY <1>1, <2>3 DEF IndInv, ResultIsGenuine
    <3>3. store[KeyOf(c)].response # NoCall
      BY <3>2, ConstantsAssumption DEF IndInv, TypeOK
    <3> QED
      BY <1>1, <1>2, <1>3, <1>4, <1>5, <2>3, <3>0, <3>1, <3>3
         DEF ReturnResult, Contract!Replay, Contract!ReturnResult
  <2> QED
    BY <1>7, <2>1, <2>2, <2>3 DEF Found
<1>8. CASE GetFails(c)
  BY <1>1, <1>2, <1>3, <1>4, <1>8 DEF GetFails
<1> QED
  BY <1>6, <1>7, <1>8

LEMMA CutOffContract ==
    ASSUME IndInv, Crash
    PROVE  Contract!CutOff
<1>1. Made' = Made
  BY DEF Crash, Running, Made
<1>2. \A c \in Call : Contract!Open(c) <=> Running(c)
  BY OpenIsRunning DEF IndInv
<1>3. outcome' = [c \in Call |-> IF Contract!Open(c) THEN "aborted" ELSE outcome[c]]
  BY <1>2 DEF Crash
<1> QED
  BY <1>1, <1>3, StoreUnseen DEF Crash, Contract!CutOff, Contract!records

\* A record that expires is one that lapses, for the calls that look it up too.
LEMMA ExpireContract ==
    ASSUME IndInv, NEW k \in Key, Expire(k)
    PROVE  Contract!Lapse(k)
<1> USE DEF IndInv
<1>1. /\ store'[k].status = store[k].status /\ store'[k].response = store[k].response
      /\ store'[k].expired
      /\ \A q \in Key : q # k => store'[q] = store[q]
  BY DEF Expire, TypeOK, Record
<1>2. RecordedKeys' = RecordedKeys /\ Kept' = Kept
  BY <1>1 DEF RecordedKeys, Exists, Kept
<1>3. k \in LiveKeys /\ LiveKeys' = LiveKeys \ {k}
  BY <1>1 DEF Expire, LiveKeys, Live, Exists
<1>4. \A c \in existed : pc[c] = "done" <=> outcome[c] # "none"
  BY DEF ControlInv, AnswerInv, TypeOK
<1>5. existed' = {c \in existed : KeyOf(c) = k => outcome[c] # "none"}
  BY <1>4 DEF Expire
<1>6. Made' = Made
  BY DEF Expire, Made
<1> QED
  BY <1>2, <1>3, <1>5, <1>6 DEF Expire, KeyOf, Contract!Lapse, Contract!KeyOf

\* Every step is one that the contract allows, or is not seen.
LEMMA ContractStep == IndInv /\ [Next]_vars => [Contract!Next]_(Contract!vars)
<1> SUFFICES ASSUME IndInv, [Next]_vars PROVE [Contract!Next]_(Contract!vars)
  OBVIOUS
<1>1. ASSUME NEW c \in Call, Process(c) PROVE Contract!Next
  BY <1>1, ArriveContract DEF Contract!Next
<1>2. ASSUME NEW c \in Call, Work(c) PROVE [Contract!Next]_(Contract!vars)
  BY <1>2, LookupContract, CreateContract, HandlerContract, FinishContract
     DEF Work, Contract!Next
<1>3. ASSUME NEW k \in Key, Expire(k) PROVE Contract!Next
  BY <1>3, ExpireContract DEF Contract!Next
<1>4. CASE Crash
  BY <1>4, CutOffContract DEF Contract!Next
<1>5. CASE UNCHANGED vars
  BY <1>5, StoreUnseen DEF vars, Made, Contract!vars, Contract!records
<1> QED
  BY <1>1, <1>2, <1>3, <1>4, <1>5 DEF Next

\* For every set of calls, keys and bodies Process keeps its contract, whatever
\* fails and however calls overlap (service.go:31-92).
THEOREM ProcessKeepsContract == Spec => KeepsContract
<1>1. Init => Contract!Init
  BY DEF Init, Contract!Init, Made, RecordedKeys, LiveKeys, Live, Kept, Exists,
     NoRecord
<1> QED
  BY <1>1, ContractStep, Invariance, PTL DEF Spec, KeepsContract, Contract!Spec

=============================================================================
