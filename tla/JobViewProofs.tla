--------------------------- MODULE JobViewProofs ---------------------------
(***************************************************************************)
(* The card and the activity log of one job, for any limit of failures and *)
(* with or without strict mode.                                            *)
(*                                                                         *)
(* Each of the two polls keeps PollInv of PollingProofs whatever the       *)
(* server does meanwhile; EventsAgree says of every event that is          *)
(* appended, or about to be, what the job's status still is by then.       *)
(***************************************************************************)
EXTENDS JobView, TLAPS

CardP == INSTANCE PollingProofs WITH
    source <- status, poll <- card, Answers <- Statuses, Terminal <- Terminal

LogP == INSTANCE PollingProofs WITH
    source <- (events # {}), poll <- log, Answers <- BOOLEAN, Terminal <- {TRUE}

\* What is appended, and what will be.
Told == pending \cup events

\* An end that was told, or is being told, is the end the job came to, which only a late
\* onFailed relabels.
EventsAgree ==
    /\ "completed" \in Told => status \in {"completed", "failed"}
    /\ "cancelled" \in Told => status \in {"cancelled", "failed"}
    /\ "failed" \in Told => status = "failed"

JobTyped ==
    /\ status \in Statuses
    /\ failing \in BOOLEAN
    /\ pending \subseteq TERMINAL_EVENTS
    /\ events \subseteq TERMINAL_EVENTS

ButtonTyped ==
    /\ cancelClicked \in BOOLEAN
    /\ cancelCall \in {"none", "sent", "served"}

VInv ==
    /\ JobTyped /\ ButtonTyped /\ EventsAgree
    /\ CardP!PollInv /\ CardP!EndInv
    /\ LogP!PollInv

-----------------------------------------------------------------------------


\* The actions of the card's poll are those the lemmas are about.
LEMMA CardSteps ==
    /\ Card!PollInit => CardP!PollInit
    /\ Card!Mount \/ Card!Remount \/ Card!Unmount \/ Card!Retry => CardP!PollStep
    /\ \A i \in Card!Chains : Card!Chain(i) => CardP!PollStep
<1>1. Card!PollInit => CardP!PollInit
  BY Zenon DEF Card!PollInit, CardP!PollInit, Card!NotMounted, CardP!NotMounted, Card!Chains, CardP!Chains, Card!Off, CardP!Off
<1>2. Card!Mount => CardP!Mount
  BY Zenon DEF Card!Mount, CardP!Mount, Card!Started, CardP!Started, Card!Requesting, CardP!Requesting
<1>3. Card!Remount => CardP!Remount
  BY Zenon DEF Card!Remount, CardP!Remount, Card!Started, CardP!Started, Card!CleanedUp, CardP!CleanedUp, Card!Requesting, CardP!Requesting, Card!Off, CardP!Off
<1>4. Card!Unmount => CardP!Unmount
  BY Zenon DEF Card!Unmount, CardP!Unmount, Card!CleanedUp, CardP!CleanedUp, Card!Off, CardP!Off
<1>5. Card!Retry => CardP!Retry
  BY Zenon DEF Card!Retry, CardP!Retry, Card!OnPage, CardP!OnPage, Card!Active, CardP!Active, Card!Requesting, CardP!Requesting
<1>6. ASSUME NEW i \in Card!Chains, Card!Chain(i)
      PROVE  i \in CardP!Chains /\ CardP!Chain(i)
  <2>1. Card!Read(i) => CardP!Read(i)
    BY Zenon DEF Card!Read, CardP!Read
  <2>2. Card!Deliver(i) => CardP!Deliver(i)
    BY Zenon DEF Card!Deliver, CardP!Deliver, Card!Off, CardP!Off
  <2>3. Card!Reject(i) => CardP!Reject(i)
    BY Zenon DEF Card!Reject, CardP!Reject, Card!Ignored, CardP!Ignored, Card!GivesUp, CardP!GivesUp, Card!Off, CardP!Off
  <2>4. Card!Fire(i) => CardP!Fire(i)
    BY Zenon DEF Card!Fire, CardP!Fire, Card!Off, CardP!Off, Card!Requesting, CardP!Requesting
  <2> QED
    BY <1>6, <2>1, <2>2, <2>3, <2>4 DEF Card!Chain, CardP!Chain, Card!Chains, CardP!Chains
<1> QED
  BY <1>1, <1>2, <1>3, <1>4, <1>5, <1>6 DEF CardP!PollStep

\* The actions of the log's poll are those the lemmas are about.
LEMMA LogSteps ==
    /\ Log!PollInit => LogP!PollInit
    /\ Log!Mount \/ Log!Remount \/ Log!Unmount \/ Log!Retry => LogP!PollStep
    /\ \A i \in Log!Chains : Log!Chain(i) => LogP!PollStep
<1>1. Log!PollInit => LogP!PollInit
  BY Zenon DEF Log!PollInit, LogP!PollInit, Log!NotMounted, LogP!NotMounted, Log!Chains, LogP!Chains, Log!Off, LogP!Off
<1>2. Log!Mount => LogP!Mount
  BY Zenon DEF Log!Mount, LogP!Mount, Log!Started, LogP!Started, Log!Requesting, LogP!Requesting
<1>3. Log!Remount => LogP!Remount
  BY Zenon DEF Log!Remount, LogP!Remount, Log!Started, LogP!Started, Log!CleanedUp, LogP!CleanedUp, Log!Requesting, LogP!Requesting, Log!Off, LogP!Off
<1>4. Log!Unmount => LogP!Unmount
  BY Zenon DEF Log!Unmount, LogP!Unmount, Log!CleanedUp, LogP!CleanedUp, Log!Off, LogP!Off
<1>5. Log!Retry => LogP!Retry
  BY Zenon DEF Log!Retry, LogP!Retry, Log!OnPage, LogP!OnPage, Log!Active, LogP!Active, Log!Requesting, LogP!Requesting
<1>6. ASSUME NEW i \in Log!Chains, Log!Chain(i)
      PROVE  i \in LogP!Chains /\ LogP!Chain(i)
  <2>1. Log!Read(i) => LogP!Read(i)
    BY Zenon DEF Log!Read, LogP!Read
  <2>2. Log!Deliver(i) => LogP!Deliver(i)
    BY Zenon DEF Log!Deliver, LogP!Deliver, Log!Off, LogP!Off
  <2>3. Log!Reject(i) => LogP!Reject(i)
    BY Zenon DEF Log!Reject, LogP!Reject, Log!Ignored, LogP!Ignored, Log!GivesUp, LogP!GivesUp, Log!Off, LogP!Off
  <2>4. Log!Fire(i) => LogP!Fire(i)
    BY Zenon DEF Log!Fire, LogP!Fire, Log!Off, LogP!Off, Log!Requesting, LogP!Requesting
  <2> QED
    BY <1>6, <2>1, <2>2, <2>3, <2>4 DEF Log!Chain, LogP!Chain, Log!Chains, LogP!Chains
<1> QED
  BY <1>1, <1>2, <1>3, <1>4, <1>5, <1>6 DEF LogP!PollStep

-----------------------------------------------------------------------------

\* A step of the page is a step of its card or its log only by what they do themselves.
LEMMA PollsMove ==
    ASSUME [Next]_vars
    PROVE  /\ CardP!PollStep \/ UNCHANGED card
           /\ LogP!PollStep \/ UNCHANGED log
<1>1. CASE Enter \/ Reenter \/ Leave
  BY <1>1, CardSteps, LogSteps DEF Enter, Reenter, Leave
<1>2. CASE RetryCard
  BY <1>2, CardSteps DEF RetryCard
<1>3. ASSUME NEW i \in Card!Chains, CardChain(i)
      PROVE  CardP!PollStep /\ UNCHANGED log
  BY <1>3, CardSteps DEF CardChain
<1>4. ASSUME NEW i \in Card!Chains, LogChain(i)
      PROVE  LogP!PollStep /\ UNCHANGED card
  BY <1>4, LogSteps DEF LogChain, Card!Chains, Log!Chains
<1>5. CASE Job
  BY <1>5 DEF Job
<1>6. CASE ClickCancel \/ ServeCancel \/ CancelAnswered \/ CancelFailed
  BY <1>6 DEF ClickCancel, ServeCancel, CancelAnswered, CancelFailed
<1>7. CASE UNCHANGED vars
  BY <1>7 DEF vars
<1> QED
  BY <1>1, <1>2, <1>3, <1>4, <1>5, <1>6, <1>7 DEF Next

\* What the job's own steps do to its status and its events.
LEMMA JobMoves ==
    ASSUME JobTyped, EventsAgree, [Next]_vars
    PROVE  JobTyped' /\ EventsAgree'
<1> USE DEF JobTyped, EventsAgree, Told, TERMINAL_EVENTS, Statuses, Running, Terminal
<1>1. CASE Work
  BY <1>1 DEF Work, Move, Guarded
<1>2. CASE ReadForFail
  BY <1>2 DEF ReadForFail
<1>3. CASE WriteFail
  BY <1>3 DEF WriteFail
<1>4. CASE Append
  BY <1>4 DEF Append
<1>5. CASE CancelJob
  BY <1>5 DEF CancelJob
<1>6. CASE UNCHANGED job
  BY <1>6 DEF job
<1>7. Work \/ ReadForFail \/ WriteFail \/ Append \/ CancelJob \/ UNCHANGED job
  BY DEF Next, vars, Job, ClickCancel, ServeCancel, CancelAnswered, CancelFailed,
         Enter, Reenter, Leave, CardChain, LogChain, RetryCard
<1> QED
  BY <1>1, <1>2, <1>3, <1>4, <1>5, <1>6, <1>7

LEMMA ButtonMoves ==
    ASSUME ButtonTyped, [Next]_vars
    PROVE  ButtonTyped'
BY DEF ButtonTyped, Next, vars, button, Job, ClickCancel, ServeCancel, CancelAnswered, CancelFailed,
       AfterFailure, Enter, Reenter, Leave, CardChain, LogChain, RetryCard

LEMMA Start == Init => VInv
<1> SUFFICES ASSUME Init
             PROVE  VInv
  OBVIOUS
<1>1. JobTyped /\ ButtonTyped /\ EventsAgree
  BY DEF Init, JobTyped, ButtonTyped, EventsAgree, Told, TERMINAL_EVENTS, Statuses, Running
<1>2. CardP!PollInit /\ LogP!PollInit
  BY CardSteps, LogSteps DEF Init
<1>3. CardP!PollInv /\ CardP!EndInv
  BY <1>2, CardP!PollStart, BackoffAssumption, NoAnswerIsNull DEF Statuses
<1>4. LogP!PollInv
  BY <1>2, LogP!PollStart, BackoffAssumption
<1> QED
  BY <1>1, <1>3, <1>4 DEF VInv

LEMMA Inductive == VInv /\ [Next]_vars => VInv'
<1> SUFFICES ASSUME VInv, [Next]_vars
             PROVE  VInv'
  OBVIOUS
<1>1. JobTyped' /\ EventsAgree' /\ ButtonTyped'
  BY JobMoves, ButtonMoves DEF VInv
<1>2. status \in Statuses /\ (events # {}) \in BOOLEAN
  BY DEF VInv, JobTyped
<1>3. CardP!PollStep \/ UNCHANGED card
  BY PollsMove
<1>4. LogP!PollStep \/ UNCHANGED log
  BY PollsMove
<1>5. CardP!PollInv'
  BY <1>2, <1>3, CardP!PollKept, BackoffAssumption DEF VInv
<1>6. CardP!EndInv'
  BY <1>2, <1>3, CardP!EndKept, BackoffAssumption, NoAnswerIsNull DEF VInv, Statuses
<1>7. LogP!PollInv'
  BY <1>2, <1>4, LogP!PollKept, BackoffAssumption DEF VInv
<1> QED
  BY <1>1, <1>5, <1>6, <1>7 DEF VInv

\* In every reachable state the two polls and the job's events keep to VInv.
THEOREM Invariant == Spec => []VInv
BY Start, Inductive, PTL DEF Spec

-----------------------------------------------------------------------------

\* Job, polls and button keep their types, the count of failures its bound (use-polling.ts:10, 79-83).
THEOREM TypeCorrect == Spec => []TypeOK
<1>1. VInv => TypeOK
  <2> SUFFICES ASSUME VInv
               PROVE  TypeOK
    OBVIOUS
  <2>1. card \in CardP!Polls /\ log \in LogP!Polls
    BY DEF VInv, CardP!PollInv, LogP!PollInv
  <2>2. card \in Card!Polls
    BY <2>1 DEF Card!Polls, CardP!Polls, Card!Chains, CardP!Chains, Card!ChainStates, CardP!ChainStates
  <2>3. log \in Log!Polls
    BY <2>1 DEF Log!Polls, LogP!Polls, Log!Chains, LogP!Chains, Log!ChainStates, LogP!ChainStates
  <2> QED
    BY <2>2, <2>3 DEF VInv, JobTyped, ButtonTyped, TypeOK
<1> QED
  BY <1>1, Invariant, PTL

\* "only one request runs at a time" (use-polling.ts:5): of the card's poll and of the log's,
\* through strict mode's second mount, leaving the page, failures and retries.
THEOREM OneRequestAlways == Spec => []OneRequestEach
<1>1. VInv => OneRequestEach
  <2> SUFFICES ASSUME VInv
               PROVE  OneRequestEach
    OBVIOUS
  <2>1. CardP!OneRequestAtATime /\ LogP!OneRequestAtATime
    BY CardP!OneRequest, LogP!OneRequest DEF VInv
  <2> QED
    BY <2>1
       DEF OneRequestEach, Card!OneRequestAtATime, CardP!OneRequestAtATime,
           Log!OneRequestAtATime, LogP!OneRequestAtATime, Card!Active, CardP!Active,
           Log!Active, LogP!Active, Card!Chains, CardP!Chains, Log!Chains, LogP!Chains
<1> QED
  BY <1>1, Invariant, PTL

\* The activity log tells of no end that the job did not come to, however late an event is
\* appended (job-event-repository.ts).
THEOREM LogAlwaysTruthful == Spec => []LogTruthful
<1>1. VInv => LogTruthful
  BY DEF VInv, EventsAgree, Told, LogTruthful
<1> QED
  BY <1>1, Invariant, PTL

\* A card that shows an end never shows the job running again (use-polling.ts:70-100).
THEOREM EndAlwaysShown == Spec => EndStaysShown
<1>1. VInv /\ [Next]_vars => [card.data \in Terminal /\ Card!OnPage /\ Card!OnPage' => card.data' \in Terminal]_vars
  <2> SUFFICES ASSUME VInv, [Next]_vars, card.data \in Terminal, Card!OnPage'
               PROVE  card.data' \in Terminal
    OBVIOUS
  <2>1. CardP!PollStep \/ UNCHANGED card
    BY PollsMove
  <2>2. card'.mounted # "left"
    BY DEF Card!OnPage
  <2>3. card.data \in Terminal /\ card'.mounted # "left" => card'.data = card.data
    BY <2>1, CardP!EndKept, BackoffAssumption, NoAnswerIsNull DEF VInv, JobTyped, Statuses
  <2> QED
    BY <2>2, <2>3
<1> QED
  BY <1>1, Invariant, PTL DEF Spec, EndStaysShown

=============================================================================
