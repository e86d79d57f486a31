---------------------------- MODULE MCSearchForm ----------------------------
(***************************************************************************)
(* Small instances of SearchForm for TLC.                                  *)
(***************************************************************************)
EXTENDS SearchForm, TLC

\* Two credits each: a search charged twice has the credit for it, and a third one is refused.
MCInitialCredits == [o \in Orgs |-> 2]

Symmetric ==
    Permutations(Orgs) \cup Permutations(Tabs) \cup Permutations(Calls)

=============================================================================
