------------------------------ MODULE APIKeysProofs ------------------------------
(***************************************************************************)
(* The safety properties of APIKeys, for every set of calls, keys, slots   *)
(* and customers, and however many keys share a slot.                      *)
(***************************************************************************)
EXTENDS APIKeys, TLAPS

BeforeHandler == {"idle", "lookup", "validate"}

\* A goroutine has a code only when it has ended, and a user only once the
\* middleware is through; a history speaks of what was over.
ControlInv ==
    \A c \in Call :
        /\ code[c] # "none" => pc[c] = "done"
        /\ pc[c] \notin {"idle", "done"} => presented[c] \in Key
        /\ pc[c] \in BeforeHandler => user[c] = NoCustomer
        /\ pc[c] \in {"create", "list"} => user[c] # NoCustomer
        /\ pc[c] \in {"get", "update"} => subject[c] \in Key
        /\ pc[c] = "update" => InTable(subject[c])
        /\ \A d \in prior[c] : pc[d] = "done"
        /\ \A k \in outdated[c] : expired[k]

\* What ValidateAPIKey read is a row of the slot.  A revocation that it saw is
\* in the table, and one that was confirmed before the call arrived it saw.
FoundInv ==
    \A c \in Call :
        /\ pc[c] \in {"idle", "lookup"} => found[c].key = NoKey
        /\ pc[c] = "validate" => found[c].key \in Candidates(c)
        /\ pc[c] = "validate" /\ found[c].revoked => row[found[c].key] = "revoked"
        /\ \A d \in prior[c] :
              code[d] = "revoked" /\ subject[d] = presented[c]
                  /\ found[c].key = presented[c]
              => found[c].revoked

\* What was answered is in the table.
TableInv ==
    \A c \in Call :
        /\ code[c] = "created" => subject[c] \in Key /\ InTable(subject[c])
        /\ code[c] = "revoked" => subject[c] \in Key /\ row[subject[c]] = "revoked"
        /\ \A k \in Key : shown[c][k] # "absent" => InTable(k)

IndInv ==
    /\ TypeOK
    /\ ControlInv
    /\ FoundInv
    /\ TableInv
    /\ RevocationHolds
    /\ ExpiredIsRefused
    /\ ActsForOwner
    /\ ListShowsWhatWasAnswered

-----------------------------------------------------------------------------
(***************************************************************************)
(* What no step does.                                                      *)
(***************************************************************************)

\* A call keeps the key and the history it arrived with, and all it has when it
\* has ended.
CallStays(c) ==
    /\ pc[c] # "idle" =>
          /\ pc'[c] # "idle"
          /\ presented'[c] = presented[c]
          /\ prior'[c] = prior[c]
          /\ outdated'[c] = outdated[c]
    /\ pc[c] = "done" =>
          /\ pc'[c] = "done"
          /\ code'[c] = code[c]
          /\ user'[c] = user[c]
          /\ subject'[c] = subject[c]
          /\ shown'[c] = shown[c]
          /\ found'[c] = found[c]

\* The statements of the repository neither delete a row nor change its
\* user_id, and write revoked_at with a time only (repositories.go:95-178).
LEMMA RowsPersist ==
    ASSUME TypeOK, ControlInv, [Next]_vars
    PROVE  RowsStay
<1> USE DEF TypeOK, RowsStay, InTable, tableVars
<1>1. ASSUME NEW c \in Call, CreateAPIKey(c) PROVE RowsStay
  BY <1>1 DEF CreateAPIKey, Inserted, Fresh
<1>2. ASSUME NEW c \in Call, Update(c) PROVE RowsStay
  BY <1>2 DEF Update, Revoked, ControlInv
<1>3. ASSUME NEW k \in Key, Expire(k) PROVE RowsStay
  BY <1>3 DEF Expire
<1>4. ASSUME NEW c \in Call,
             ParseAPIKey(c) \/ GetByPrefixAndSuffix(c) \/ Validate(c)
                 \/ ListAPIKeys(c) \/ GetByID(c)
      PROVE  RowsStay
  BY <1>4 DEF ParseAPIKey, GetByPrefixAndSuffix, Validate, HashMatches,
     ListAPIKeys, OwnRows, GetByID
<1>5. Crash \/ UNCHANGED vars => RowsStay
  BY DEF Crash, vars
<1> QED
  BY <1>1, <1>2, <1>3, <1>4, <1>5 DEF Next

\* No action works for c: it is left alone, or killed by a crash.
Passive(c) ==
    /\ presented'[c] = presented[c]
    /\ found'[c] = found[c]
    /\ user'[c] = user[c]
    /\ subject'[c] = subject[c]
    /\ shown'[c] = shown[c]
    /\ prior'[c] = prior[c]
    /\ outdated'[c] = outdated[c]
    /\ \/ pc'[c] = pc[c] /\ code'[c] = code[c]
       \/ pc[c] \notin {"idle", "done"} /\ pc'[c] = "done" /\ code'[c] = "aborted"

Active(c) ==
    \/ ParseAPIKey(c) \/ GetByPrefixAndSuffix(c) \/ Validate(c)
    \/ CreateAPIKey(c) \/ ListAPIKeys(c) \/ GetByID(c) \/ Update(c)

\* Every action works for one goroutine.
LEMMA OneActs ==
    ASSUME TypeOK, [Next]_vars, NEW c \in Call
    PROVE  Active(c) \/ Passive(c)
<1> USE DEF TypeOK, Passive, callVars, history, Goto, Answer
<1>1. ASSUME NEW d \in Call, ParseAPIKey(d), d # c PROVE Passive(c)
  BY <1>1 DEF ParseAPIKey
<1>2. ASSUME NEW d \in Call, GetByPrefixAndSuffix(d), d # c PROVE Passive(c)
  BY <1>2 DEF GetByPrefixAndSuffix
<1>3. ASSUME NEW d \in Call, Validate(d), d # c PROVE Passive(c)
  BY <1>3 DEF Validate, HashMatches
<1>4. ASSUME NEW d \in Call, CreateAPIKey(d), d # c PROVE Passive(c)
  BY <1>4 DEF CreateAPIKey, Inserted
<1>5. ASSUME NEW d \in Call, ListAPIKeys(d), d # c PROVE Passive(c)
  BY <1>5 DEF ListAPIKeys, OwnRows
<1>6. ASSUME NEW d \in Call, GetByID(d) \/ Update(d), d # c PROVE Passive(c)
  BY <1>6 DEF GetByID, Update, Revoked
<1>7. ASSUME NEW k \in Key, Expire(k) PROVE Passive(c)
  BY <1>7 DEF Expire
<1>8. Crash \/ UNCHANGED vars => Passive(c)
  BY DEF Crash, vars
<1> QED
  BY <1>1, <1>2, <1>3, <1>4, <1>5, <1>6, <1>7, <1>8 DEF Next, Active

\* A goroutine that has ended does nothing any more.
LEMMA CallsPersist ==
    ASSUME TypeOK, [Next]_vars, NEW c \in Call
    PROVE  CallStays(c)
<1>1. CASE Passive(c)
  BY <1>1 DEF Passive, CallStays
<1>2. CASE Active(c)
  BY <1>2 DEF Active, CallStays, TypeOK, callVars, history, Goto, Answer,
     ParseAPIKey, GetByPrefixAndSuffix, Validate, HashMatches, CreateAPIKey,
     Inserted, ListAPIKeys, OwnRows, GetByID, Update, Revoked
<1> QED
  BY <1>1, <1>2, OneActs

-----------------------------------------------------------------------------
(***************************************************************************)
(* Each part of the invariant is preserved.                                *)
(***************************************************************************)

\* Init establishes the invariant.
LEMMA IndInvInit == Init => IndInv
<1> SUFFICES ASSUME Init PROVE IndInv
  OBVIOUS
<1> USE DEF Init
<1>1. TypeOK
  BY DEF TypeOK, Step, Outcome, Presentable, Found, Nothing, Row
<1>2. ControlInv /\ FoundInv /\ TableInv
  BY DEF ControlInv, FoundInv, TableInv, Nothing
<1>3. RevocationHolds /\ ExpiredIsRefused /\ ActsForOwner
  BY DEF RevocationHolds, ExpiredIsRefused, ActsForOwner
<1>4. ListShowsWhatWasAnswered
  BY DEF ListShowsWhatWasAnswered
<1> QED
  BY <1>1, <1>2, <1>3, <1>4 DEF IndInv

\* The state variables keep their types.
LEMMA TypeStep ==
    ASSUME TypeOK, ControlInv, FoundInv, [Next]_vars
    PROVE  TypeOK'
<1> USE DEF TypeOK, callVars, tableVars, history
<1>1. ASSUME NEW c \in Call,
             \/ \E s \in Step : Goto(c, s)
             \/ \E a \in Outcome : Answer(c, a)
      PROVE  pc' \in [Call -> Step] /\ code' \in [Call -> Outcome]
  <2>1. ASSUME NEW s \in Step, Goto(c, s)
        PROVE  pc' \in [Call -> Step] /\ code' \in [Call -> Outcome]
    BY <2>1 DEF Goto
  <2>2. ASSUME NEW a \in Outcome, Answer(c, a)
        PROVE  pc' \in [Call -> Step] /\ code' \in [Call -> Outcome]
    BY <2>2 DEF Answer, Step
  <2> QED
    BY <1>1, <2>1, <2>2
<1>2. ASSUME NEW c \in Call, ParseAPIKey(c) PROVE TypeOK'
  <2>1. pc' \in [Call -> Step] /\ code' \in [Call -> Outcome]
    BY <1>1, <1>2 DEF ParseAPIKey, Step, Outcome
  <2>2. presented' \in [Call -> Presentable]
    BY <1>2 DEF ParseAPIKey
  <2>3. prior' \in [Call -> SUBSET Call] /\ outdated' \in [Call -> SUBSET Key]
    BY <1>2 DEF ParseAPIKey
  <2> QED
    BY <1>2, <2>1, <2>2, <2>3 DEF ParseAPIKey
<1>3. ASSUME NEW c \in Call, GetByPrefixAndSuffix(c) PROVE TypeOK'
  <2>1. pc' \in [Call -> Step] /\ code' \in [Call -> Outcome]
    BY <1>1, <1>3 DEF GetByPrefixAndSuffix, Step, Outcome
  <2> QED
    <3>1. found' \in [Call -> Found]
      <4>1. ASSUME NEW k \in Key
            PROVE  [key |-> k, revoked |-> row[k] = "revoked"] \in Found
        BY DEF Found
      <4> QED
        BY <1>3, <4>1 DEF GetByPrefixAndSuffix, Candidates
    <3> QED
      BY <1>3, <2>1, <3>1 DEF GetByPrefixAndSuffix
<1>4. ASSUME NEW c \in Call, Validate(c) PROVE TypeOK'
  <2>1. pc' \in [Call -> Step] /\ code' \in [Call -> Outcome]
    BY <1>1, <1>4 DEF Validate, HashMatches, Step, Outcome
  <2>2. found[c].key \in Key
    BY <1>4 DEF Validate, HashMatches, FoundInv, Candidates
  <2>3. user' \in [Call -> Customer \cup {NoCustomer}]
    BY <1>4, <2>2 DEF Validate, HashMatches
  <2>4. subject' \in [Call -> Key \cup {NoKey}]
    BY <1>4 DEF Validate, HashMatches
  <2> QED
    BY <1>4, <2>1, <2>3, <2>4 DEF Validate, HashMatches
<1>5. ASSUME NEW c \in Call, CreateAPIKey(c) PROVE TypeOK'
  <2>1. pc' \in [Call -> Step] /\ code' \in [Call -> Outcome]
    BY <1>1, <1>5 DEF CreateAPIKey, Inserted, Step, Outcome
  <2>2. user[c] \in Customer
    BY <1>5 DEF CreateAPIKey, Inserted, ControlInv
  <2>3. row' \in [Key -> Row] /\ owner' \in [Key -> Customer]
    <3>1. \/ UNCHANGED <<row, owner>>
          \/ \E k \in Key : /\ row' = [row EXCEPT ![k] = "active"]
                            /\ owner' = [owner EXCEPT ![k] = user[c]]
      BY <1>5 DEF CreateAPIKey, Inserted
    <3> QED
      BY <2>2, <3>1 DEF Row
  <2>4. expired' \in [Key -> BOOLEAN]
    BY <1>5 DEF CreateAPIKey, Inserted
  <2>5. subject' \in [Call -> Key \cup {NoKey}]
    BY <1>5 DEF CreateAPIKey, Inserted
  <2> QED
    BY <1>5, <2>1, <2>3, <2>4, <2>5 DEF CreateAPIKey, Inserted
<1>6. ASSUME NEW c \in Call, ListAPIKeys(c) PROVE TypeOK'
  <2>1. pc' \in [Call -> Step] /\ code' \in [Call -> Outcome]
    BY <1>1, <1>6 DEF ListAPIKeys, OwnRows, Step, Outcome
  <2>2. shown' \in [Call -> [Key -> Row]]
    <3>1. [k \in Key |-> IF owner[k] = user[c] THEN row[k] ELSE "absent"]
              \in [Key -> Row]
      BY DEF Row
    <3> QED
      BY <1>6, <3>1 DEF ListAPIKeys, OwnRows
  <2> QED
    BY <1>6, <2>1, <2>2 DEF ListAPIKeys, OwnRows
<1>7. ASSUME NEW c \in Call, GetByID(c) PROVE TypeOK'
  <2>1. pc' \in [Call -> Step] /\ code' \in [Call -> Outcome]
    BY <1>1, <1>7 DEF GetByID, Step, Outcome
  <2> QED
    BY <1>7, <2>1 DEF GetByID
<1>8. ASSUME NEW c \in Call, Update(c) PROVE TypeOK'
  <2>1. pc' \in [Call -> Step] /\ code' \in [Call -> Outcome]
    BY <1>1, <1>8 DEF Update, Revoked, Step, Outcome
  <2> QED
    BY <1>8, <2>1 DEF Update, Revoked, ControlInv, Row
<1>9. ASSUME NEW k \in Key, Expire(k) PROVE TypeOK'
  BY <1>9 DEF Expire
<1>10. CASE Crash
  BY <1>10 DEF Crash, Step, Outcome
<1>11. CASE UNCHANGED vars
  BY <1>11 DEF vars
<1> QED
  BY <1>2, <1>3, <1>4, <1>5, <1>6, <1>7, <1>8, <1>9, <1>10, <1>11 DEF Next

\* A goroutine reaches a step only along the way to it, and ends once.
LEMMA ControlStep ==
    ASSUME TypeOK, ControlInv, FoundInv, ActsForOwner, [Next]_vars
    PROVE  ControlInv'
<1> USE DEF TypeOK, ControlInv, BeforeHandler, InTable, callVars, tableVars,
   history,
            Goto, Answer
<1>1. ASSUME NEW c \in Call, ParseAPIKey(c) PROVE ControlInv'
  <2>1. /\ pc[c] = "idle" /\ pc'[c] \in {"lookup", "done"}
        /\ code'[c] # "none" => pc'[c] = "done"
        /\ pc'[c] = "lookup" => presented'[c] \in Key
        /\ \A d \in Call : d # c => /\ pc'[d] = pc[d] /\ code'[d] = code[d]
                                   /\ presented'[d] = presented[d]
                                   /\ prior'[d] = prior[d]
                                   /\ outdated'[d] = outdated[d]
        /\ UNCHANGED <<user, subject, row, expired>>
    BY <1>1, KeysAssumption DEF ParseAPIKey
  <2>2. \A d \in prior'[c] : d \in Call /\ pc[d] = "done"
    BY <1>1 DEF ParseAPIKey, Confirmed
  <2>3. \A k \in outdated'[c] : expired[k]
    BY <1>1 DEF ParseAPIKey
  <2>4. \A d \in Call : pc[d] = "done" => pc'[d] = "done"
    BY <2>1
  <2>5. /\ \A e \in prior'[c] : pc'[e] = "done"
        /\ \A k \in outdated'[c] : expired'[k]
    BY <2>1, <2>2, <2>3, <2>4
  <2>6. ASSUME NEW d \in Call, d # c
        PROVE  /\ \A e \in prior'[d] : pc'[e] = "done"
               /\ \A k \in outdated'[d] : expired'[k]
    BY <2>1, <2>4, <2>6
  <2>7. ASSUME NEW d \in Call
        PROVE  /\ code'[d] # "none" => pc'[d] = "done"
               /\ pc'[d] \notin {"idle", "done"} => presented'[d] \in Key
               /\ pc'[d] \in BeforeHandler => user'[d] = NoCustomer
               /\ pc'[d] \in {"create", "list"} => user'[d] # NoCustomer
               /\ pc'[d] \in {"get", "update"} => subject'[d] \in Key
               /\ pc'[d] = "update" => row'[subject'[d]] # "absent"
    <3>1. CASE d = c
      BY <2>1, <3>1
    <3>2. CASE d # c
      BY <2>1, <3>2
    <3> QED
      BY <3>1, <3>2
  <2>8. ASSUME NEW d \in Call
        PROVE  /\ \A e \in prior'[d] : pc'[e] = "done"
               /\ \A k \in outdated'[d] : expired'[k]
    <3>1. CASE d = c
      BY <2>5, <3>1
    <3>2. CASE d # c
      BY <2>6, <3>2
    <3> QED
      BY <3>1, <3>2
  <2> QED
    BY <2>7, <2>8
<1>2. ASSUME NEW c \in Call, GetByPrefixAndSuffix(c) PROVE ControlInv'
  BY <1>2 DEF GetByPrefixAndSuffix
<1>3. ASSUME NEW c \in Call, Validate(c) PROVE ControlInv'
  <2>1. found[c].key \in Key
    BY <1>3 DEF Validate, HashMatches, FoundInv, Candidates
  <2>2. owner[found[c].key] # NoCustomer
    BY <2>1, KeysAssumption
  <2>3. /\ pc[c] = "validate"
        /\ \A d \in Call : d # c => pc'[d] = pc[d] /\ code'[d] = code[d]
                                   /\ user'[d] = user[d] /\ subject'[d] = subject[d]
        /\ UNCHANGED <<presented, row, expired, prior, outdated>>
    BY <1>3 DEF Validate, HashMatches
  <2>4. /\ pc'[c] \in {"create", "list", "get", "done"}
        /\ code'[c] # "none" => pc'[c] = "done"
        /\ pc'[c] \in {"create", "list"} => user'[c] # NoCustomer
        /\ pc'[c] = "get" => subject'[c] \in Key
    BY <1>3, <2>2 DEF Validate, HashMatches
  <2>5. ASSUME NEW d \in Call
        PROVE  /\ \A e \in prior'[d] : pc'[e] = "done"
               /\ \A k \in outdated'[d] : expired'[k]
    BY <2>3
  <2>6. ASSUME NEW d \in Call
        PROVE  /\ code'[d] # "none" => pc'[d] = "done"
               /\ pc'[d] \notin {"idle", "done"} => presented'[d] \in Key
               /\ pc'[d] \in BeforeHandler => user'[d] = NoCustomer
               /\ pc'[d] \in {"create", "list"} => user'[d] # NoCustomer
               /\ pc'[d] \in {"get", "update"} => subject'[d] \in Key
               /\ pc'[d] = "update" => row'[subject'[d]] # "absent"
    <3>1. CASE d = c
      BY <2>3, <2>4, <3>1
    <3>2. CASE d # c
      BY <2>3, <3>2
    <3> QED
      BY <3>1, <3>2
  <2> QED
    BY <2>5, <2>6
<1>4. ASSUME NEW c \in Call, CreateAPIKey(c) PROVE ControlInv'
  <2>1. RowsStay
    BY RowsPersist
  <2>2. pc' = [pc EXCEPT ![c] = "done"] /\ pc[c] = "create"
    BY <1>4 DEF CreateAPIKey, Inserted
  <2>3. \A d \in Call : d # c => code'[d] = code[d] /\ subject'[d] = subject[d]
    BY <1>4 DEF CreateAPIKey, Inserted
  <2>4. UNCHANGED <<presented, user, prior, outdated>>
    BY <1>4 DEF CreateAPIKey, Inserted
  <2> QED
    BY <2>1, <2>2, <2>3, <2>4 DEF RowsStay
<1>5. ASSUME NEW c \in Call, ListAPIKeys(c) PROVE ControlInv'
  BY <1>5 DEF ListAPIKeys, OwnRows
<1>6. ASSUME NEW c \in Call, GetByID(c) PROVE ControlInv'
  BY <1>6 DEF GetByID
<1>7. ASSUME NEW c \in Call, Update(c) PROVE ControlInv'
  <2>1. /\ pc' = [pc EXCEPT ![c] = "done"] /\ pc[c] = "update"
        /\ \A d \in Call : d # c => code'[d] = code[d]
        /\ UNCHANGED <<presented, user, subject, prior, outdated, expired>>
    BY <1>7 DEF Update
  <2>2. RowsStay
    BY RowsPersist
  <2> QED
    BY <2>1, <2>2 DEF RowsStay
<1>8. ASSUME NEW k \in Key, Expire(k) PROVE ControlInv'
  BY <1>8 DEF Expire
<1>9. CASE Crash
  BY <1>9 DEF Crash
<1>10. CASE UNCHANGED vars
  BY <1>10 DEF vars
<1> QED
  BY <1>1, <1>2, <1>3, <1>4, <1>5, <1>6, <1>7, <1>8, <1>9, <1>10 DEF Next

\* The row that is read is one of the slot, and is read after the call arrived.
LEMMA FoundStep ==
    ASSUME TypeOK, ControlInv, FoundInv, TableInv, [Next]_vars
    PROVE  FoundInv'
<1> SUFFICES ASSUME NEW c \in Call
             PROVE  /\ pc'[c] \in {"idle", "lookup"} => found'[c].key = NoKey
                    /\ pc'[c] = "validate" => found'[c].key \in Candidates(c)'
                    /\ pc'[c] = "validate" /\ found'[c].revoked =>
                          row'[found'[c].key] = "revoked"
                    /\ \A d \in prior'[c] :
                          code'[d] = "revoked" /\ subject'[d] = presented'[c]
                              /\ found'[c].key = presented'[c]
                          => found'[c].revoked
  BY DEF FoundInv
<1> USE DEF TypeOK, callVars, tableVars, history, Goto, Answer
<1>1. RowsStay /\ CallStays(c)
  BY RowsPersist, CallsPersist
<1>2. \A d \in prior[c] : code'[d] = code[d] /\ subject'[d] = subject[d]
  BY CallsPersist DEF CallStays, ControlInv
<1>3. \A d \in prior[c] :
          code[d] = "revoked" => subject[d] \in Key /\ row[subject[d]] = "revoked"
  BY DEF TableInv
<1>4. CASE Passive(c)
  BY <1>1, <1>2, <1>4 DEF FoundInv, RowsStay, Passive, Candidates, InTable
<1>5. CASE ParseAPIKey(c)
  <2>1. found'[c].key = NoKey
    BY <1>5 DEF ParseAPIKey, FoundInv
  <2>2. \A d \in Call : code'[d] = "revoked" => subject'[d] \in Key
    BY <1>5 DEF ParseAPIKey, TableInv
  <2> QED
    BY <1>5, <2>1, <2>2, KeysAssumption DEF ParseAPIKey
<1>6. CASE GetByPrefixAndSuffix(c)
  <2>1. CASE found' = found /\ pc'[c] = "done"
    BY <1>1, <1>2, <1>6, <2>1 DEF FoundInv, CallStays, GetByPrefixAndSuffix
  <2>2. CASE \E k \in Candidates(c) :
                found' = [found EXCEPT ![c] =
                             [key |-> k, revoked |-> row[k] = "revoked"]]
    <3>1. PICK k \in Candidates(c) :
                found' = [found EXCEPT ![c] =
                             [key |-> k, revoked |-> row[k] = "revoked"]]
      BY <2>2
    <3>2. /\ found'[c].key = k
          /\ found'[c].revoked <=> row[k] = "revoked"
      BY <3>1
    <3>3. Candidates(c)' = Candidates(c) /\ row' = row
      BY <1>6 DEF GetByPrefixAndSuffix, Candidates, InTable
    <3>4. pc'[c] # "idle" /\ pc'[c] # "lookup"
      BY <1>6 DEF GetByPrefixAndSuffix
    <3>5. prior'[c] = prior[c] /\ presented'[c] = presented[c]
      BY <1>6 DEF GetByPrefixAndSuffix
    <3> QED
      BY <1>2, <1>3, <3>2, <3>3, <3>4, <3>5
  <2> QED
    BY <1>6, <2>1, <2>2 DEF GetByPrefixAndSuffix
<1>7. CASE Validate(c) \/ CreateAPIKey(c) \/ ListAPIKeys(c) \/ GetByID(c) \/ Update(c)
  <2>1. /\ found'[c] = found[c]
        /\ pc'[c] \notin {"idle", "lookup", "validate"}
        /\ pc[c] # "idle"
    BY <1>7 DEF Validate, HashMatches, CreateAPIKey, Inserted, ListAPIKeys,
       OwnRows, GetByID, Update, Revoked
  <2> QED
    BY <1>1, <1>2, <2>1 DEF FoundInv, CallStays
<1> QED
  BY <1>4, <1>5, <1>6, <1>7, OneActs DEF Active

\* An answer speaks of a row that is there when it is given.
LEMMA TableStep ==
    ASSUME TypeOK, ControlInv, TableInv, [Next]_vars
    PROVE  TableInv'
<1> SUFFICES ASSUME NEW c \in Call
             PROVE  /\ code'[c] = "created" => subject'[c] \in Key /\ InTable(subject[c])'
                    /\ code'[c] = "revoked" =>
                          subject'[c] \in Key /\ row'[subject'[c]] = "revoked"
                    /\ \A k \in Key : shown'[c][k] # "absent" => InTable(k)'
  BY DEF TableInv
<1> USE DEF TypeOK, InTable, callVars, tableVars, history, Goto, Answer
<1>1. RowsStay
  BY RowsPersist
<1>2. CASE Passive(c)
  BY <1>1, <1>2 DEF TableInv, RowsStay, Passive
<1>3. CASE ParseAPIKey(c) \/ GetByPrefixAndSuffix(c) \/ Validate(c) \/ GetByID(c)
  <2>1. shown' = shown /\ code'[c] # "created" /\ code'[c] # "revoked"
    BY <1>3 DEF ParseAPIKey, GetByPrefixAndSuffix, Validate, HashMatches,
       GetByID, ControlInv
  <2> QED
    BY <1>1, <2>1 DEF TableInv, RowsStay
<1>4. CASE CreateAPIKey(c)
  BY <1>1, <1>4 DEF CreateAPIKey, Inserted, TableInv, RowsStay
<1>5. CASE ListAPIKeys(c)
  BY <1>5 DEF ListAPIKeys, OwnRows, TableInv, ControlInv
<1>6. CASE Update(c)
  BY <1>1, <1>6 DEF Update, Revoked, TableInv, RowsStay, ControlInv
<1> QED
  BY <1>2, <1>3, <1>4, <1>5, <1>6, OneActs DEF Active

\* A call that arrives after the answer to a revocation reads a revoked row or
\* another key's.
LEMMA RevocationStep ==
    ASSUME TypeOK, ControlInv, FoundInv, TableInv, RevocationHolds, [Next]_vars
    PROVE  RevocationHolds'
<1> SUFFICES ASSUME NEW c \in Call, NEW d \in prior'[c],
                    code'[d] = "revoked", subject'[d] = presented'[c]
             PROVE  user'[c] = NoCustomer
  BY DEF RevocationHolds
<1> USE DEF TypeOK, callVars, tableVars, history, Goto, Answer
<1>1. CASE pc[c] = "idle"
  <2>1. CASE ParseAPIKey(c)
    BY <1>1, <2>1 DEF ParseAPIKey, ControlInv, BeforeHandler
  <2>2. CASE Passive(c)
    BY <1>1, <2>2 DEF Passive, ControlInv, BeforeHandler
  <2> QED
    BY <1>1, <2>1, <2>2, OneActs DEF Active, GetByPrefixAndSuffix, Validate,
       HashMatches,
       CreateAPIKey, ListAPIKeys, GetByID, Update
<1>2. CASE pc[c] # "idle"
  <2>1. /\ d \in prior[c] /\ code[d] = "revoked" /\ subject[d] = presented[c]
    BY <1>2, CallsPersist DEF CallStays, ControlInv
  <2>2. user[c] = NoCustomer
    BY <2>1 DEF RevocationHolds
  <2>3. found[c].key = presented[c] => found[c].revoked
    BY <2>1 DEF FoundInv
  <2>4. CASE Validate(c)
    BY <2>2, <2>3, <2>4 DEF Validate, HashMatches
  <2>5. CASE ~Validate(c)
    <3>1. user'[c] = user[c]
      BY <2>5, OneActs DEF Active, Passive, ParseAPIKey, GetByPrefixAndSuffix,
         CreateAPIKey, ListAPIKeys, GetByID, Update
    <3> QED
      BY <2>2, <3>1
  <2> QED
    BY <2>4, <2>5
<1> QED
  BY <1>1, <1>2

\* A key that has expired stays expired, whatever row is read.
LEMMA ExpiryStep ==
    ASSUME TypeOK, ControlInv, ExpiredIsRefused, [Next]_vars
    PROVE  ExpiredIsRefused'
<1> SUFFICES ASSUME NEW c \in Call, presented'[c] \in outdated'[c]
             PROVE  user'[c] = NoCustomer
  BY DEF ExpiredIsRefused
<1> USE DEF TypeOK, callVars, tableVars, history, Goto, Answer
<1>1. CASE Validate(c)
  <2>1. presented[c] \in outdated[c]
    BY <1>1 DEF Validate, HashMatches
  <2>2. expired[presented[c]]
    BY <2>1 DEF ControlInv
  <2> QED
    BY <1>1, <2>1, <2>2 DEF Validate, HashMatches, ExpiredIsRefused
<1>2. CASE ParseAPIKey(c)
  BY <1>2 DEF ParseAPIKey, ControlInv, BeforeHandler
<1>3. CASE ~Validate(c) /\ ~ParseAPIKey(c)
  <2>1. user'[c] = user[c] /\ presented'[c] = presented[c] /\ outdated'[c] = outdated[c]
    BY <1>3, OneActs DEF Active, Passive, GetByPrefixAndSuffix,
       CreateAPIKey, ListAPIKeys, GetByID, Update
  <2> QED
    BY <2>1 DEF ExpiredIsRefused
<1> QED
  BY <1>1, <1>2, <1>3

\* The user is the owner of the row whose hash matched, and rows keep owners.
LEMMA OwnerStep ==
    ASSUME TypeOK, ControlInv, FoundInv, ActsForOwner, [Next]_vars
    PROVE  ActsForOwner'
<1> SUFFICES ASSUME NEW c \in Call, user'[c] # NoCustomer
             PROVE  /\ presented'[c] \in Key
                    /\ row'[presented'[c]] # "absent"
                    /\ user'[c] = owner'[presented'[c]]
  BY DEF ActsForOwner, InTable
<1> USE DEF TypeOK, callVars, tableVars, history, Goto, Answer
<1>1. RowsStay
  BY RowsPersist
<1>2. CASE Validate(c)
  <2>1. found[c].key \in Key /\ InTable(found[c].key)
    BY <1>2 DEF Validate, HashMatches, FoundInv, Candidates
  <2>2. user[c] = NoCustomer
    BY <1>2 DEF Validate, HashMatches, ControlInv, BeforeHandler
  <2> QED
    BY <1>1, <1>2, <2>1, <2>2 DEF Validate, HashMatches, RowsStay, InTable
<1>3. CASE ParseAPIKey(c)
  BY <1>3 DEF ParseAPIKey, ControlInv, BeforeHandler
<1>4. CASE ~Validate(c) /\ ~ParseAPIKey(c)
  <2>1. user'[c] = user[c] /\ presented'[c] = presented[c]
    BY <1>4, OneActs DEF Active, Passive, GetByPrefixAndSuffix,
       CreateAPIKey, ListAPIKeys, GetByID, Update
  <2> QED
    BY <1>1, <2>1 DEF ActsForOwner, RowsStay
<1> QED
  BY <1>2, <1>3, <1>4

\* A list is made of the table of its moment, in which the answers that were
\* given before are.
LEMMA ListStep ==
    ASSUME TypeOK, ControlInv, TableInv, ListShowsWhatWasAnswered, [Next]_vars
    PROVE  ListShowsWhatWasAnswered'
<1> DEFINE Complete(c) ==
              /\ \A k \in Key : shown[c][k] # "absent" => owner[k] = user[c]
              /\ \A d \in prior[c] :
                    code[d] \in Confirmed /\ owner[subject[d]] = user[c]
                    => /\ shown[c][subject[d]] # "absent"
                       /\ code[d] = "revoked" => shown[c][subject[d]] = "revoked"
<1> SUFFICES ASSUME NEW c \in Call, code'[c] = "listed" PROVE Complete(c)'
  BY DEF ListShowsWhatWasAnswered
<1> USE DEF TypeOK, callVars, tableVars, history, Goto, Answer
<1>1. RowsStay
  BY RowsPersist
<1>2. \A d \in prior[c] : code'[d] = code[d] /\ subject'[d] = subject[d]
  BY CallsPersist DEF CallStays, ControlInv
<1>3. \A d \in prior[c] : code[d] \in Confirmed =>
          /\ subject[d] \in Key /\ InTable(subject[d])
          /\ code[d] = "revoked" => row[subject[d]] = "revoked"
  BY DEF TableInv, InTable, Confirmed
<1>4. CASE pc[c] = "done"
  <2>1. /\ code'[c] = code[c] /\ user'[c] = user[c] /\ shown'[c] = shown[c]
        /\ prior'[c] = prior[c]
    BY <1>4, CallsPersist DEF CallStays
  <2>2. Complete(c)
    BY <2>1 DEF ListShowsWhatWasAnswered
  <2>3. \A k \in Key : shown[c][k] # "absent" => owner'[k] = owner[k]
    BY <1>1 DEF TableInv, RowsStay
  <2>4. \A d \in prior[c] : code[d] \in Confirmed =>
            owner'[subject[d]] = owner[subject[d]]
    BY <1>1, <1>3 DEF RowsStay
  <2> QED
    BY <1>2, <2>1, <2>2, <2>3, <2>4
<1>5. CASE ListAPIKeys(c)
  <2>1. UNCHANGED <<row, owner, user, prior, subject>>
    BY <1>5 DEF ListAPIKeys, OwnRows
  <2>2. shown'[c] = [k \in Key |-> IF owner[k] = user[c] THEN row[k] ELSE "absent"]
    BY <1>5 DEF ListAPIKeys, OwnRows, ControlInv
  <2> QED
    BY <1>2, <1>3, <2>1, <2>2 DEF InTable
<1>6. CASE pc[c] # "done" /\ ~ListAPIKeys(c)
  <2>1. code[c] = "none"
    BY <1>6 DEF ControlInv
  <2>2. Passive(c) \/ ParseAPIKey(c) \/ GetByPrefixAndSuffix(c) => code'[c] # "listed"
    BY <2>1 DEF Passive, ParseAPIKey, GetByPrefixAndSuffix
  <2>3. Validate(c) => code'[c] # "listed"
    BY <2>1 DEF Validate, HashMatches
  <2>4. CreateAPIKey(c) \/ GetByID(c) \/ Update(c) => code'[c] # "listed"
    BY <2>1 DEF CreateAPIKey, Inserted, GetByID, Update, Revoked
  <2> QED
    BY <1>6, <2>2, <2>3, <2>4, OneActs DEF Active
<1> QED
  BY <1>4, <1>5, <1>6

-----------------------------------------------------------------------------
LEMMA IndInvStep == IndInv /\ [Next]_vars => IndInv'
<1> SUFFICES ASSUME IndInv, [Next]_vars PROVE IndInv'
  OBVIOUS
<1> USE DEF IndInv
<1>1. TypeOK' /\ ControlInv'
  BY TypeStep, ControlStep
<1>2. FoundInv' /\ TableInv'
  BY FoundStep, TableStep
<1>3. RevocationHolds' /\ ExpiredIsRefused' /\ ActsForOwner'
  BY RevocationStep, ExpiryStep, OwnerStep
<1>4. ListShowsWhatWasAnswered'
  BY ListStep
<1> QED
  BY <1>1, <1>2, <1>3, <1>4

\* The inductive invariant holds throughout every behaviour of the calls.
THEOREM Invariance == Spec => []IndInv
BY IndInvInit, IndInvStep, PTL DEF Spec

\* Every reachable state of the calls and the table is well typed.
THEOREM TypeCorrect == Spec => []TypeOK
<1>1. IndInv => TypeOK
  BY DEF IndInv
<1> QED
  BY <1>1, Invariance, PTL

\* A key whose DELETE was answered 204 lets no later call in
\* (service.go:87-100, apikey.go:96-99).
THEOREM RevocationIsFinal == Spec => []RevocationHolds
<1>1. IndInv => RevocationHolds
  BY DEF IndInv
<1> QED
  BY <1>1, Invariance, PTL

\* A key that has expired lets no later call in (apikey.go:100-102).
THEOREM ExpiryIsFinal == Spec => []ExpiredIsRefused
<1>1. IndInv => ExpiredIsRefused
  BY DEF IndInv
<1> QED
  BY <1>1, Invariance, PTL

\* A call acts for the owner of the key it presented, however many keys share
\* the slot (apikey.go:104-107, middleware.go:47).
THEOREM CallsActForOwner == Spec => []ActsForOwner
<1>1. IndInv => ActsForOwner
  BY DEF IndInv
<1> QED
  BY <1>1, Invariance, PTL

\* A list shows what was answered before it, and the caller's keys only
\* (repositories.go:145-165).
THEOREM ListsAreComplete == Spec => []ListShowsWhatWasAnswered
<1>1. IndInv => ListShowsWhatWasAnswered
  BY DEF IndInv
<1> QED
  BY <1>1, Invariance, PTL

\* The table's rows only age, for any number of calls that create, revoke and
\* read keys at once (repositories.go:95-178).
THEOREM TableOnlyAges == Spec => RowsOnlyAge
<1>1. IndInv /\ [Next]_vars => [RowsStay]_vars
  BY RowsPersist DEF IndInv
<1> QED
  BY <1>1, Invariance, PTL DEF Spec, RowsOnlyAge

=============================================================================
