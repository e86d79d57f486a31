------------------------------ MODULE Polling ------------------------------
(***************************************************************************)
(* usePolling, the hook behind the job card and the activity log: a chain  *)
(* of requests, each scheduled when the one before it has ended, until the *)
(* answer is terminal, the page is left, or MaxBackoff failures in a row   *)
(* park it.                                                                *)
(*                                                                         *)
(* The refs of the hook belong to the component, not to a chain, so a      *)
(* chain that outlives its effect shares them with the next one.  The      *)
(* component's key never changes in this program; what re-runs the effect  *)
(* is React's strict mode (next.config.mjs), which mounts each component,  *)
(* cleans up and mounts again before its first request has got anywhere.   *)
(*                                                                         *)
(* A request passes from "request" to "body" when the server has read what *)
(* it answers; the answer may then still be on its way.  Time is abstract. *)
(***************************************************************************)
EXTENDS Naturals

CONSTANTS
    Answers,      \* what the endpoint may answer
    Terminal,     \* the answers that end the poll, a subset of Answers
    MaxBackoff,   \* MAX_BACKOFF_STEPS, a natural number
    StrictMode,   \* React re-runs the effect of a new component
    Null          \* no answer, not one of Answers

VARIABLES
    source,   \* what the endpoint would answer now
    poll      \* the state of one mounted hook

Chains == {1, 2}
ChainStates == {"off", "request", "body", "timer"}

Off == [at |-> "off", answer |-> Null, aborted |-> FALSE]
Requesting == [at |-> "request", answer |-> Null, aborted |-> FALSE]

Polls ==
    [ mounted : {"no", "fresh", "yes", "left"},   \* "fresh": strict mode may still re-run it
      chains : [Chains -> [at : ChainStates, answer : Answers \cup {Null}, aborted : BOOLEAN]],
      current : Chains,          \* the chain that timerRef and abortRef belong to
      cancelled : BOOLEAN,       \* cancelledRef
      backoff : 0..(MaxBackoff + 1),
      data : Answers \cup {Null},
      phase : {"loading", "polling", "stopped", "error"},
      parked : BOOLEAN ]

NotMounted ==
    [ mounted |-> "no", chains |-> [i \in Chains |-> Off], current |-> 1, cancelled |-> FALSE,
      backoff |-> 0, data |-> Null, phase |-> "loading", parked |-> FALSE ]

PollInit == poll = NotMounted

OnPage == poll.mounted \in {"fresh", "yes"}

Active(i) == poll.chains[i].at # "off"

-----------------------------------------------------------------------------
(* The effect and its cleanup.                                             *)

\* The effect: flags reset, and the first request of chain i at once.
Started(p, i) ==
    [p EXCEPT !.chains[i] = Requesting, !.current = i, !.cancelled = FALSE, !.backoff = 0,
              !.data = Null, !.phase = "loading", !.parked = FALSE]

\* The cleanup: the flag is set, the timer cleared, the request in flight aborted.
CleanedUp(p) ==
    [p EXCEPT !.cancelled = TRUE,
              !.chains[p.current] = IF @.at = "timer" THEN Off ELSE [@ EXCEPT !.aborted = TRUE]]

Mount ==
    /\ poll.mounted = "no"
    /\ poll' = [Started(poll, 1) EXCEPT !.mounted = IF StrictMode THEN "fresh" ELSE "yes"]

\* Strict mode: cleanup and effect again, in the same task as the mount.
Remount ==
    /\ poll.mounted = "fresh"
    /\ poll' = [Started(CleanedUp(poll), 2) EXCEPT !.mounted = "yes"]

\* The page is left: React drops the component's state, its refs live as long as its chains.
Unmount ==
    /\ poll.mounted = "yes"
    /\ poll' = [CleanedUp(poll) EXCEPT !.mounted = "left", !.data = Null, !.phase = "loading",
                                       !.backoff = 0, !.parked = FALSE]

-----------------------------------------------------------------------------
(* tick.                                                                   *)

\* The server reads what it answers to chain i, and the browser gets its headers.
Read(i) ==
    /\ poll.mounted # "fresh"
    /\ poll.chains[i].at = "request"
    /\ ~poll.chains[i].aborted
    /\ poll' = [poll EXCEPT !.chains[i].at = "body", !.chains[i].answer = source]

\* The answer arrives.
Deliver(i) ==
    LET answer == poll.chains[i].answer
        shown == [poll EXCEPT !.backoff = 0, !.data = answer]
    IN  /\ poll.chains[i].at = "body"
        /\ ~poll.chains[i].aborted
        /\ poll' =
            IF poll.cancelled THEN [poll EXCEPT !.chains[i] = Off]
            ELSE IF answer \in Terminal
                 THEN [shown EXCEPT !.chains[i] = Off, !.phase = "stopped"]
                 ELSE [shown EXCEPT !.chains[i] = [Off EXCEPT !.at = "timer"], !.current = i,
                                    !.phase = "polling"]

\* Mutant of Ignored: an aborted request is a failed one.
IgnoredIfCancelled(i) == poll.cancelled

\* A rejection the catch ignores: the flag is set, or the request itself was aborted (an
\* abort while the body is read is not recognised: the parse of the body fails instead).
Ignored(i) == poll.cancelled \/ (poll.chains[i].aborted /\ poll.chains[i].at = "request")

\* Mutant of GivesUp: one more failure than MaxBackoff is retried.
NeverGivesUp(n) == FALSE

\* The failures in a row after which the poll parks.
GivesUp(n) == n > MaxBackoff

\* The request fails, or its abort is noticed.
Reject(i) ==
    LET n == poll.backoff + 1
        failed == [poll EXCEPT !.backoff = n, !.phase = "error", !.parked = GivesUp(n)]
    IN  /\ poll.mounted # "fresh"
        /\ poll.chains[i].at \in {"request", "body"}
        /\ poll' =
            IF Ignored(i) THEN [poll EXCEPT !.chains[i] = Off]
            ELSE IF GivesUp(n) THEN [failed EXCEPT !.chains[i] = Off]
                 ELSE [failed EXCEPT !.chains[i] = [Off EXCEPT !.at = "timer"], !.current = i]

\* The timer of chain i fires: the next tick.
Fire(i) ==
    /\ poll.chains[i].at = "timer"
    /\ poll' = IF poll.cancelled THEN [poll EXCEPT !.chains[i] = Off]
               ELSE [poll EXCEPT !.chains[i] = Requesting, !.current = i]

\* retry: a new chain, by a button that is only there when the poll is parked.
Retry ==
    /\ OnPage
    /\ poll.parked
    /\ ~Active(poll.current)
    /\ poll' = [poll EXCEPT !.chains[poll.current] = Requesting, !.backoff = 0, !.parked = FALSE,
                            !.phase = "loading"]

\* The steps of a chain, which the network and the browser's timers go on with.
Chain(i) == Read(i) \/ Deliver(i) \/ Reject(i) \/ Fire(i)

-----------------------------------------------------------------------------

\* "only one request runs at a time": no two chains of one hook are alive, but for a request
\* that was aborted and has not noticed.
OneRequestAtATime ==
    \A i, j \in Chains :
        Active(i) /\ Active(j) /\ ~poll.chains[i].aborted /\ ~poll.chains[j].aborted => i = j

=============================================================================
