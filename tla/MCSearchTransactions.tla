------------------------ MODULE MCSearchTransactions ------------------------
(***************************************************************************)
(* Small instances of SearchTransactions for TLC.                          *)
(***************************************************************************)
EXTENDS SearchTransactions, TLC

\* One credit each: submits compete for it, and a refund can be spent again.
MCInitialCredits == [o \in Orgs |-> 1]

\* The code treats organizations, keys and calls alike.  Sound for the safety run only.
Symmetric ==
    Permutations(Orgs) \cup Permutations(Keys) \cup Permutations(Starts) \cup Permutations(Cancels)

=============================================================================
