---------------------------- MODULE CreditLedger ----------------------------
(***************************************************************************)
(* What the money path promises, as one atomic step per operation.         *)
(*                                                                         *)
(* An organization asks for a search under an idempotency key.  The pair   *)
(* is charged one credit at most once, whatever the number of submits, and *)
(* what was charged can be given back at most once.  SearchTransactions    *)
(* shows that the Postgres transactions of startSearch and cancelJob,      *)
(* interleaved statement by statement, do exactly this.                    *)
(***************************************************************************)
EXTENDS Integers, FiniteSets

CONSTANTS
    Orgs,            \* organizations
    Keys,            \* idempotency keys
    InitialCredits   \* the credits each organization is seeded with

VARIABLES
    credits,    \* organizations.credits
    charged,    \* the searches that paid their credit
    refunded    \* the searches whose credit was given back

vars == <<credits, charged, refunded>>

Searches == Orgs \X Keys

\* The searches of organization o in the set S.
Of(o, S) == {s \in S : s[1] = o}

Init ==
    /\ credits = InitialCredits
    /\ charged = {}
    /\ refunded = {}

\* startSearch, on a key the organization has not used and with a credit left.
Charge(s) ==
    /\ s \notin charged
    /\ credits[s[1]] >= 1
    /\ credits' = [credits EXCEPT ![s[1]] = @ - 1]
    /\ charged' = charged \cup {s}
    /\ UNCHANGED refunded

\* cancelJob, on a search that was charged and not refunded yet.
Refund(s) ==
    /\ s \in charged \ refunded
    /\ credits' = [credits EXCEPT ![s[1]] = @ + 1]
    /\ refunded' = refunded \cup {s}
    /\ UNCHANGED charged

Next == \E s \in Searches : Charge(s) \/ Refund(s)

Spec == Init /\ [][Next]_vars

-----------------------------------------------------------------------------

TypeOK ==
    /\ credits \in [Orgs -> Nat]
    /\ charged \in SUBSET Searches
    /\ refunded \in SUBSET charged
    /\ IsFiniteSet(charged)

\* No credit is created or lost: what an organization still has, plus what its
\* searches hold, is what it was given (search-service.ts:62-82,
\* job-repository.ts:109-124).
Conservation ==
    \A o \in Orgs :
        credits[o] = InitialCredits[o] - Cardinality(Of(o, charged))
                                       + Cardinality(Of(o, refunded))

=============================================================================
