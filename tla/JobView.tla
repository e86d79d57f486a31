------------------------------ MODULE JobView ------------------------------
(***************************************************************************)
(* One job on the search page: its row and its run log on the server, and  *)
(* in the browser the card, the activity log under it, and the card's      *)
(* cancel button.  Card and log are two polls of their own, over the       *)
(* status and over the events.                                             *)
(*                                                                         *)
(* The job here is what Pipeline lets a job do, seen from outside: its     *)
(* status, and for each change the event that the actor appends after it,  *)
(* best-effort: an append may come late, or never when it throws or the    *)
(* process dies.  Only the events that end a log are told apart from none. *)
(***************************************************************************)
EXTENDS JobStatus, Naturals

CONSTANTS
    MaxBackoff,     \* MAX_BACKOFF_STEPS of the polls
    StrictMode,     \* React's strict mode
    Null            \* no answer yet

ASSUME BackoffAssumption == MaxBackoff \in Nat
ASSUME NoAnswerIsNull == Null \notin Statuses

VARIABLES
    status,        \* jobs.status
    failing,       \* an onFailed has read a running status and not written yet
    pending,       \* ending events whose change is committed and whose append is not
    events,        \* job_events, the ending ones
    card,          \* the poll of the card
    log,           \* the poll of the activity log
    cancelClicked, \* cancelRequested
    cancelCall     \* the call of POST /api/jobs/:id/cancel

job == <<status, failing, pending, events>>
button == <<cancelClicked, cancelCall>>
vars == <<job, card, log, button>>

TERMINAL_EVENTS == {"completed", "failed", "cancelled"}

Card == INSTANCE Polling WITH
    source <- status, poll <- card, Answers <- Statuses, Terminal <- Terminal

Log == INSTANCE Polling WITH
    source <- (events # {}), poll <- log, Answers <- BOOLEAN, Terminal <- {TRUE}

Init ==
    /\ status = "queued"
    /\ failing = FALSE
    /\ pending = {}
    /\ events = {}
    /\ Card!PollInit
    /\ Log!PollInit
    /\ cancelClicked = FALSE
    /\ cancelCall = "none"

-----------------------------------------------------------------------------
(* The job.                                                                *)

\* Mutant of Guarded: the advance does not look at the status it replaces.
Unguarded(from) == TRUE

\* advanceJobStatus finds the status it expects.
Guarded(from) == status = from

Move(from, to, event) ==
    /\ Guarded(from)
    /\ status' = to
    /\ pending' = pending \cup event
    /\ UNCHANGED <<failing, events>>

\* The stages: discover (also when it runs again), the checkpoint, completion.
Work ==
    \/ \E from \in Running : Move(from, "discovering", {})
    \/ Move("discovering", "verifying", {})
    \/ Move("verifying", "completed", {"completed"})

\* onFailed reads the job, and later writes what it decided.
ReadForFail ==
    /\ status \in Running
    /\ failing' = TRUE
    /\ UNCHANGED <<status, pending, events>>

WriteFail ==
    /\ failing
    /\ failing' = FALSE
    /\ status' = "failed"
    /\ pending' = pending \cup {"failed"}
    /\ UNCHANGED events

\* cancelJob, from this card or another tab.
CancelJob ==
    /\ status \in Running
    /\ status' = "cancelled"
    /\ pending' = pending \cup {"cancelled"}
    /\ UNCHANGED <<failing, events>>

\* appendJobEvent, best-effort: an append that throws, or whose process dies, never comes.
Append ==
    /\ \E e \in pending : pending' = pending \ {e} /\ events' = events \cup {e}
    /\ UNCHANGED <<status, failing>>

Job ==
    /\ Work \/ ReadForFail \/ WriteFail \/ Append \/ CancelJob
    /\ UNCHANGED <<card, log, button>>

-----------------------------------------------------------------------------
(* The cancel button.                                                      *)

\* The status the card shows.
Shown == IF card.data = Null THEN "queued" ELSE card.data

Cancelling == cancelClicked /\ Shown \in Running

\* handleCancel, by a button that is there while the shown status is active.
ClickCancel ==
    /\ Card!OnPage
    /\ Shown \in Running
    /\ ~cancelClicked
    /\ cancelClicked' = TRUE
    /\ cancelCall' = "sent"
    /\ UNCHANGED <<job, card, log>>

\* The route: cancelJob, or the state of a job that has ended.
ServeCancel ==
    /\ cancelCall = "sent"
    /\ cancelCall' = "served"
    /\ IF status \in Running THEN CancelJob ELSE UNCHANGED job
    /\ UNCHANGED <<card, log, cancelClicked>>

\* The route answers, whatever became of its append; the click stays.
CancelAnswered ==
    /\ cancelCall = "served"
    /\ cancelCall' = "none"
    /\ UNCHANGED <<job, card, log, cancelClicked>>

\* Mutant of AfterFailure: the click outlives the failed call.
StillClicked == TRUE

\* cancelRequested after a call that failed.
AfterFailure == FALSE

\* The call fails, served or not: the button is offered again.
CancelFailed ==
    /\ cancelCall \in {"sent", "served"}
    /\ cancelClicked' = AfterFailure
    /\ cancelCall' = "none"
    /\ UNCHANGED <<job, card, log>>

-----------------------------------------------------------------------------

\* Card and log are mounted and left together.
Enter == Card!Mount /\ Log!Mount /\ UNCHANGED <<job, button>>
Reenter == Card!Remount /\ Log!Remount /\ UNCHANGED <<job, button>>
Leave == Card!Unmount /\ Log!Unmount /\ UNCHANGED <<job, button>>

CardChain(i) == Card!Chain(i) /\ UNCHANGED <<job, log, button>>
LogChain(i) == Log!Chain(i) /\ UNCHANGED <<job, card, button>>
RetryCard == Card!Retry /\ UNCHANGED <<job, log, button>>

Next ==
    \/ Job
    \/ ClickCancel \/ ServeCancel \/ CancelAnswered \/ CancelFailed
    \/ Enter \/ Reenter \/ Leave \/ RetryCard
    \/ \E i \in Card!Chains : CardChain(i) \/ LogChain(i)

\* Requests end and timers fire, and a cancel that was sent is answered or fails.
Fairness ==
    /\ WF_vars(Reenter)
    /\ WF_vars(\E i \in Card!Chains : CardChain(i)) /\ WF_vars(\E i \in Log!Chains : LogChain(i))
    /\ WF_vars(ServeCancel \/ CancelAnswered \/ CancelFailed)

Spec == Init /\ [][Next]_vars /\ Fairness

-----------------------------------------------------------------------------

TypeOK ==
    /\ status \in Statuses
    /\ failing \in BOOLEAN
    /\ pending \subseteq TERMINAL_EVENTS
    /\ events \subseteq TERMINAL_EVENTS
    /\ card \in Card!Polls
    /\ log \in Log!Polls
    /\ cancelClicked \in BOOLEAN
    /\ cancelCall \in {"none", "sent", "served"}

\* "only one request runs at a time", of each of the two polls.
OneRequestEach == Card!OneRequestAtATime /\ Log!OneRequestAtATime

\* The log tells of no end that did not happen: "completed" only of a job that completed,
\* "cancelled" only of one that was cancelled, even if a late onFailed relabelled it.
LogTruthful ==
    /\ "completed" \in events => status \in {"completed", "failed"}
    /\ "cancelled" \in events => status \in {"cancelled", "failed"}
    /\ "failed" \in events => status = "failed"

\* A card that shows an end never shows the job running again.
EndStaysShown ==
    [][card.data \in Terminal /\ Card!OnPage /\ Card!OnPage' => card.data' \in Terminal]_vars

\* "Cancelling..." ends: the card shows how the job ended, or the click is taken back, unless
\* the poll is parked or the page is left.
CancellingEnds == Cancelling ~> ~Cancelling \/ card.parked \/ ~Card!OnPage

\* "stops automatically when the job reaches a terminal state": the card does, and the log does
\* once an ending event was appended, unless it is parked (the log has no retry button) or the
\* page is left.  A log whose event was lost polls on.
PollsEnd ==
    /\ status \in Terminal ~> card.phase = "stopped" \/ card.parked \/ ~Card!OnPage
    /\ events # {} ~> log.phase = "stopped" \/ log.parked \/ ~Log!OnPage

\* What the page waits for comes: its polls and its cancel button do not hang
\* (use-polling.ts:70-100, JobProgress.tsx:46-77).
ViewSettles == CancellingEnds /\ PollsEnd

=============================================================================
