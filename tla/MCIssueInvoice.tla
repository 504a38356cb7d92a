----------------------------- MODULE MCIssueInvoice -----------------------------
(***************************************************************************)
(* Instances of IssueInvoice for TLC.                                      *)
(***************************************************************************)
EXTENDS IssueInvoice, TLC

\* The input of a well-formed request.
Good(c, k, s) == [customer |-> c, key |-> k, series |-> s, defects |-> {}]

\* Requests under a key only.
KeyedInput == {Good(c, k, s) : c \in Registered, k \in Key, s \in Series}

\* The same, and without a key.
SameCustomerInput ==
    KeyedInput \cup {Good(c, NoKey, s) : c \in Registered, s \in Series}

\* Requests under a key, also of an unregistered customer, and each defect.
DefectiveInput ==
    {Good(c, k, s) : c \in Customer, k \in Key, s \in Series}
    \cup {[Good(c, NoKey, s) EXCEPT !.defects = {d}] :
            c \in Registered, s \in Series, d \in Defect}

\* Requests are interchangeable, and so are CUITs: nothing orders them or
\* singles one out.
RequestSymmetry == Permutations(Request) \cup Permutations(Cuit)

\* Registered customers are interchangeable as well.
CustomerSymmetry == RequestSymmetry \cup Permutations(Registered)

=============================================================================
