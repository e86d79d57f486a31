----------------------------- MODULE MCMockApi -----------------------------
EXTENDS MockApi

CONSTANTS marz, allan, labs, inc

\* The seeds of the store: allan is in both organizations.
MCMemberships == {<<marz, labs>>, <<allan, labs>>, <<allan, inc>>}
MCCredits == (labs :> 2) @@ (inc :> 1)

MCRequests ==
    {[companies |-> <<c>>, roles |-> <<>>] : c \in {"corporate", "fail"}}

Symmetric == Permutations(Calls)

=============================================================================
