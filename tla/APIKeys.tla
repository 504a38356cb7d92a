--------------------------------- MODULE APIKeys ---------------------------------
(***************************************************************************)
(* API keys: the Authentication middleware that stands before every /v1/   *)
(* route, and the operations on /v1/api-keys, from the handlers            *)
(* (interfaces/http/handlers/apikey.go) through the service                *)
(* (application/authentication/service.go) and the domain object           *)
(* (domain/apikey/apikey.go) to the api_keys table.                        *)
(*                                                                         *)
(* A call runs in a goroutine of its own and takes no lock; one action is  *)
(* one statement of the store with the code up to the next.                *)
(*                                                                         *)
(* A key is named by its raw key, of which the table keeps the HMAC only:  *)
(* raw keys have 32 random bytes, so two keys never have the same HMAC and *)
(* nobody presents a raw key before it is generated.  The table is searched*)
(* by prefix and last four characters, the key's slot, which two keys may  *)
(* well share.                                                             *)
(***************************************************************************)

CONSTANTS
    Call,        \* HTTP calls to the routes under /v1/
    Key,         \* raw API keys
    Slot,        \* prefix with the last four characters of the raw key
    Customer,    \* users rows
    NoKey,       \* no key: a header that is missing, or not "Bearer <prefix>..."
    ShortKey,    \* a raw key with fewer than four characters after the prefix
    NoCustomer   \* no user_id in the request's context

ASSUME KeysAssumption ==
    /\ NoKey \notin Key
    /\ ShortKey \notin Key \cup {NoKey}
    /\ NoCustomer \notin Customer

VARIABLES
    pc,         \* [Call -> Step]: where the call's goroutine is
    code,       \* [Call -> Outcome]: what the caller was answered
    presented,  \* [Call -> Presentable]: the key of the Authorization header
    found,      \* [Call -> Found]: the *APIKey that ValidateAPIKey read
    user,       \* [Call -> Customer]: user_id of the request's context
    subject,    \* [Call -> Key]: the key the call created or is to revoke
    shown,      \* [Call -> [Key -> Row]]: the list the call was answered
    row,        \* [Key -> Row]: the api_keys table
    owner,      \* [Key -> Customer]: its user_id column
    slot,       \* [Key -> Slot]: its prefix and last_four columns
    expired,    \* [Key -> BOOLEAN]: expires_at is past
    prior,      \* [Call -> SUBSET Call]: history, the creations and revocations
                \* that had been confirmed when the call arrived
    outdated    \* [Call -> SUBSET Key]: history, its key if it had expired then

callVars  == <<presented, found, user, subject, shown>>
tableVars == <<row, owner, slot, expired>>
history   == <<prior, outdated>>
vars == <<pc, code, callVars, tableVars, history>>

Step == {"idle", "lookup", "validate", "create", "list", "get", "update", "done"}

\* The codes of the services; a body that does not decode counts as one that
\* fails validation.  The last five are the answers 201, 200, 204, that of
\* another route, and none.
Outcome ==
    {"none", "invalid_api_key", "api_key_revoked", "api_key_expired",
     "database_error", "validation_failed", "not_found",
     "created", "listed", "revoked", "served", "aborted"}

\* The answers that promise a change of the table.
Confirmed == {"created", "revoked"}

Row == {"absent", "active", "revoked"}
Presentable == Key \cup {NoKey, ShortKey}
Found == [key : Key \cup {NoKey}, revoked : BOOLEAN]
Nothing == [key |-> NoKey, revoked |-> FALSE]

TypeOK ==
    /\ pc \in [Call -> Step]
    /\ code \in [Call -> Outcome]
    /\ presented \in [Call -> Presentable]
    /\ found \in [Call -> Found]
    /\ user \in [Call -> Customer \cup {NoCustomer}]
    /\ subject \in [Call -> Key \cup {NoKey}]
    /\ shown \in [Call -> [Key -> Row]]
    /\ row \in [Key -> Row]
    /\ owner \in [Key -> Customer]
    /\ slot \in [Key -> Slot]
    /\ expired \in [Key -> BOOLEAN]
    /\ prior \in [Call -> SUBSET Call]
    /\ outdated \in [Call -> SUBSET Key]

\* The first keys of a customer are put in the table by hand.
Init ==
    /\ pc = [c \in Call |-> "idle"]
    /\ code = [c \in Call |-> "none"]
    /\ presented = [c \in Call |-> NoKey]
    /\ found = [c \in Call |-> Nothing]
    /\ user = [c \in Call |-> NoCustomer]
    /\ subject = [c \in Call |-> NoKey]
    /\ shown = [c \in Call |-> [k \in Key |-> "absent"]]
    /\ row \in [Key -> {"absent", "active"}]
    /\ owner \in [Key -> Customer]
    /\ slot \in [Key -> Slot]
    /\ expired = [k \in Key |-> FALSE]
    /\ prior = [c \in Call |-> {}]
    /\ outdated = [c \in Call |-> {}]

-----------------------------------------------------------------------------
Goto(c, s) ==
    /\ pc' = [pc EXCEPT ![c] = s]
    /\ UNCHANGED code

\* The answer a is written and the goroutine ends.
Answer(c, a) ==
    /\ pc' = [pc EXCEPT ![c] = "done"]
    /\ code' = [code EXCEPT ![c] = a]

InTable(k) == row[k] # "absent"

\* The rows GetByPrefixAndSuffix selects for the key that c presents.
Candidates(c) == {k \in Key : InTable(k) /\ slot[k] = slot[presented[c]]}

\* The HMAC of the row that c read is that of the key it presents.
HashMatches(c) == found[c].key = presented[c]

\* crypto/rand yields a key that is not in the table and that nobody holds.
Fresh(k) == ~InTable(k) /\ \A c \in Call : presented[c] # k

\* INSERT of the key k for c's customer.  Its expires_at may be past.
Inserted(c, k) ==
    /\ row' = [row EXCEPT ![k] = "active"]
    /\ owner' = [owner EXCEPT ![k] = user[c]]
    /\ expired' \in {expired, [expired EXCEPT ![k] = TRUE]}

\* The rows of c's customer.
OwnRows(c) == [k \in Key |-> IF owner[k] = user[c] THEN row[k] ELSE "absent"]

\* The table with the revoked_at of k set.
Revoked(k) == [row EXCEPT ![k] = "revoked"]

-----------------------------------------------------------------------------
(***************************************************************************)
(* Plausible mistakes in the actions below, kept to show that the          *)
(* properties notice them.  No specification uses these definitions.       *)
(***************************************************************************)

ValidateWithoutHash(c) ==
    /\ pc[c] = "validate"
    /\ ~found[c].revoked /\ ~expired[found[c].key]
    /\ user' = [user EXCEPT ![c] = owner[found[c].key]]
    /\ \E s \in {"create", "list"} : Goto(c, s)
    /\ UNCHANGED <<presented, found, subject, shown, tableVars, history>>

ValidateWithoutExpiry(c) ==
    /\ pc[c] = "validate"
    /\ ~found[c].revoked /\ HashMatches(c)
    /\ user' = [user EXCEPT ![c] = owner[found[c].key]]
    /\ \E s \in {"create", "list"} : Goto(c, s)
    /\ UNCHANGED <<presented, found, subject, shown, tableVars, history>>

UpdateIgnoringErrors(c) ==
    /\ pc[c] = "update"
    /\ row' \in {row, Revoked(subject[c])}
    /\ Answer(c, "revoked")
    /\ UNCHANGED <<callVars, owner, slot, expired, history>>

UpdateDeletes(c) ==
    /\ pc[c] = "update"
    /\ row' = [row EXCEPT ![subject[c]] = "deleted"]
    /\ Answer(c, "revoked")
    /\ UNCHANGED <<callVars, owner, slot, expired, history>>

ListActiveOnly(c) ==
    /\ pc[c] = "list"
    /\ shown' = [shown EXCEPT ![c] = [k \in Key |->
          IF owner[k] = user[c] /\ row[k] = "active" THEN row[k] ELSE "absent"]]
    /\ Answer(c, "listed")
    /\ UNCHANGED <<presented, found, user, subject, tableVars, history>>

CreateUpserts(c) ==
    /\ pc[c] = "create"
    /\ \E k \in Key :
          /\ Inserted(c, k)
          /\ subject' = [subject EXCEPT ![c] = k]
    /\ Answer(c, "created")
    /\ UNCHANGED <<presented, found, user, shown, slot, history>>

-----------------------------------------------------------------------------
(***************************************************************************)
(* The middleware: which key, which row, is the row's key good.            *)
(***************************************************************************)

\* The header is taken apart.  A key too short to have a last four makes the
\* slice expression panic; net/http recovers and drops the connection.
ParseAPIKey(c) ==
    /\ pc[c] = "idle"
    /\ prior' = [prior EXCEPT ![c] = {d \in Call : code[d] \in Confirmed}]
    /\ \E p \in Presentable :
          /\ presented' = [presented EXCEPT ![c] = p]
          /\ \/ p = NoKey /\ Answer(c, "invalid_api_key")
             \/ p = ShortKey /\ Answer(c, "aborted")
             \/ p \in Key /\ Goto(c, "lookup")
    /\ outdated' = [outdated EXCEPT ![c] =
                        {k \in Key : k = presented'[c] /\ expired[k]}]
    /\ UNCHANGED <<found, user, subject, shown, tableVars>>

\* The query has no ORDER BY and QueryRow reads the first row it returns.
GetByPrefixAndSuffix(c) ==
    /\ pc[c] = "lookup"
    /\ \/ \E k \in Candidates(c) :
             /\ found' = [found EXCEPT ![c] =
                             [key |-> k, revoked |-> row[k] = "revoked"]]
             /\ Goto(c, "validate")
       \/ /\ Candidates(c) = {}
          /\ Answer(c, "invalid_api_key")
          /\ UNCHANGED found
       \/ /\ Answer(c, "database_error")
          /\ UNCHANGED found
    /\ UNCHANGED <<presented, user, subject, shown, tableVars, history>>

\* Validate looks at the row that was read and at the clock.  A good key fixes
\* the user, and the router starts the handler of the route.
Validate(c) ==
    /\ pc[c] = "validate"
    /\ \/ /\ found[c].revoked
          /\ Answer(c, "api_key_revoked")
          /\ UNCHANGED <<user, subject>>
       \/ /\ ~found[c].revoked /\ expired[found[c].key]
          /\ Answer(c, "api_key_expired")
          /\ UNCHANGED <<user, subject>>
       \/ /\ ~found[c].revoked /\ ~expired[found[c].key]
          /\ ~HashMatches(c)
          /\ Answer(c, "invalid_api_key")
          /\ UNCHANGED <<user, subject>>
       \/ /\ ~found[c].revoked /\ ~expired[found[c].key]
          /\ HashMatches(c)
          /\ user' = [user EXCEPT ![c] = owner[found[c].key]]
          /\ \/ Goto(c, "create") /\ UNCHANGED subject
             \/ Goto(c, "list") /\ UNCHANGED subject
             \/ \E k \in Key : /\ subject' = [subject EXCEPT ![c] = k]
                               /\ Goto(c, "get")
             \/ Answer(c, "served") /\ UNCHANGED subject
    /\ UNCHANGED <<presented, found, shown, tableVars, history>>

-----------------------------------------------------------------------------
(***************************************************************************)
(* The handlers of /v1/api-keys.                                           *)
(***************************************************************************)

\* POST: the body, NewAPIKey and one INSERT, whose error may come before or
\* after it took effect.  The raw key leaves the process in a 201 only.
CreateAPIKey(c) ==
    /\ pc[c] = "create"
    /\ \/ /\ \E a \in {"validation_failed", "database_error"} :
                Answer(c, a)
          /\ UNCHANGED <<subject, row, owner, expired>>
       \/ \E k \in {q \in Key : Fresh(q)} :
             /\ Inserted(c, k)
             /\ \/ /\ subject' = [subject EXCEPT ![c] = k]
                   /\ Answer(c, "created")
                \/ /\ Answer(c, "database_error")
                   /\ UNCHANGED subject
    /\ UNCHANGED <<presented, found, user, shown, slot, history>>

\* GET: one query, answered with every key of the user, revoked ones too.
ListAPIKeys(c) ==
    /\ pc[c] = "list"
    /\ \/ /\ shown' = [shown EXCEPT ![c] = OwnRows(c)]
          /\ Answer(c, "listed")
       \/ Answer(c, "database_error") /\ UNCHANGED shown
    /\ UNCHANGED <<presented, found, user, subject, tableVars, history>>

\* DELETE reads the key of the path ...
GetByID(c) ==
    /\ pc[c] = "get"
    /\ \/ InTable(subject[c]) /\ Goto(c, "update")
       \/ ~InTable(subject[c]) /\ Answer(c, "not_found")
       \/ Answer(c, "database_error")
    /\ UNCHANGED <<callVars, tableVars, history>>

\* ... sets its RevokedAt and writes it back.  No other column of it changes.
Update(c) ==
    /\ pc[c] = "update"
    /\ \/ /\ row' = Revoked(subject[c])
          /\ Answer(c, "revoked")
       \/ /\ row' \in {row, Revoked(subject[c])}
          /\ Answer(c, "database_error")
    /\ UNCHANGED <<callVars, owner, slot, expired, history>>

-----------------------------------------------------------------------------
\* A key passes its expires_at.
Expire(k) ==
    /\ InTable(k) /\ ~expired[k]
    /\ expired' = [expired EXCEPT ![k] = TRUE]
    /\ UNCHANGED <<pc, code, callVars, row, owner, slot, history>>

\* The process dies and is started again; the table survives.
Crash ==
    LET Dies(c) == pc[c] \notin {"idle", "done"}
    IN  /\ pc' = [c \in Call |-> IF Dies(c) THEN "done" ELSE pc[c]]
        /\ code' = [c \in Call |-> IF Dies(c) THEN "aborted" ELSE code[c]]
        /\ UNCHANGED <<callVars, tableVars, history>>

Next ==
    \/ \E c \in Call :
          \/ ParseAPIKey(c)
          \/ GetByPrefixAndSuffix(c)
          \/ Validate(c)
          \/ CreateAPIKey(c)
          \/ ListAPIKeys(c)
          \/ GetByID(c)
          \/ Update(c)
    \/ \E k \in Key : Expire(k)
    \/ Crash

Spec == Init /\ [][Next]_vars

-----------------------------------------------------------------------------
(***************************************************************************)
(* Properties.                                                             *)
(***************************************************************************)

\* Once a DELETE of a key has been answered 204, no call that arrives later is
\* let in with it: no concurrent call, failing query, crash or neighbour in
\* the slot brings a revoked key back (service.go:87-100, apikey.go:96-99).
RevocationHolds ==
    \A c \in Call : \A d \in prior[c] :
        code[d] = "revoked" /\ subject[d] = presented[c] => user[c] = NoCustomer

\* A call that arrives with a key that has expired is never let in, although
\* the clock is read after the row (apikey.go:100-102).
ExpiredIsRefused ==
    \A c \in Call : presented[c] \in outdated[c] => user[c] = NoCustomer

\* A call acts for the owner of the key it presented and for nobody else, also
\* when the store returned the row of another key with the same last four
\* characters (repositories.go:109, apikey.go:104-107, middleware.go:47).
ActsForOwner ==
    \A c \in Call : user[c] # NoCustomer =>
        /\ presented[c] \in Key
        /\ InTable(presented[c])
        /\ user[c] = owner[presented[c]]

\* A list shows the keys of the caller's customer only, and all that was
\* answered before the call: keys that were created, revocations that were
\* confirmed (repositories.go:145-165).
ListShowsWhatWasAnswered ==
    \A c \in Call : code[c] = "listed" =>
        /\ \A k \in Key : shown[c][k] # "absent" => owner[k] = user[c]
        /\ \A d \in prior[c] :
              code[d] \in Confirmed /\ owner[subject[d]] = user[c]
              => /\ shown[c][subject[d]] # "absent"
                 /\ code[d] = "revoked" => shown[c][subject[d]] = "revoked"

\* A row only ages: no creation and no revocation, although it writes back a row
\* read before another call changed it, and no failing statement ever deletes a
\* key, hands it to another customer, moves it to another slot or takes a
\* revocation or an expiry back (repositories.go:95-178).
RowsStay ==
    /\ slot' = slot
    /\ \A k \in Key :
          /\ InTable(k) => row'[k] # "absent" /\ owner'[k] = owner[k]
          /\ row[k] = "revoked" => row'[k] = "revoked"
          /\ expired[k] => expired'[k]
RowsOnlyAge == [][RowsStay]_vars

(***************************************************************************)
(* What the documents of the repository say and the code does not do.      *)
(***************************************************************************)

\* "`api_key_revoked` - Key revoked", "`api_key_expired` - Key expired"
\* (docs/contracts.md): a key of the table that is refused as revoked or expired
\* is so itself.
RefusedForItsOwnState ==
    \A c \in Call : presented[c] \in Key /\ InTable(presented[c]) =>
        /\ code[c] = "api_key_revoked" => row[presented[c]] = "revoked"
        /\ code[c] = "api_key_expired" => expired[presented[c]]

=============================================================================
