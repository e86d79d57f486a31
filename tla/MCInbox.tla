------------------------------ MODULE MCInbox ------------------------------
EXTENDS Inbox

CONSTANTS j1, j2

\* The first search has two companies that the cap cuts, and a title of two tiers; the
\* second one a company whose leads are all rejected, or a sentinel.
MCRequests ==
    (j1 :> {[companies |-> <<"blank", "corporate", "public">>, roles |-> <<{2, 4}, {}>>]}) @@
    (j2 :> {[companies |-> <<c>>, roles |-> <<>>] : c \in {"noreply", "empty", "fail"}})

\* A step of the worker that no read is waiting for is put off until the next load: no
\* step of a page looks at the leads in between.
WorkerWhenRead ==
    \/ screen.phase = "loading" /\ screen.gotLeads = Null
    \/ UNCHANGED <<found, leads>>

=============================================================================
