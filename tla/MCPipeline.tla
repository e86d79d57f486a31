----------------------------- MODULE MCPipeline -----------------------------
(***************************************************************************)
(* Small instances of Pipeline for TLC: one job, whose handlers, callbacks *)
(* and sweeps interleave.                                                  *)
(***************************************************************************)
EXTENDS Pipeline, TLC

\* Any statement of a handler may throw.
AnyStep == DiscoverSteps \cup VerifySteps

\* Any but the hand-off from discover to verify.
AllButHandOff == AnyStep \ {"enqueue"}

\* Nothing found, or both.
NoneOrAll == {{}, Candidates}

\* Always one lead to accept and one to reject.
AllFound == {Candidates}

\* The worker's slots are alike.
Symmetric == Permutations(Slots)

=============================================================================
