------------------------------ MODULE Pipeline ------------------------------
(***************************************************************************)
(* The discover -> verify pipeline: the row of a job and its leads in      *)
(* Postgres, its entry in each of the two BullMQ queues, the stage         *)
(* handlers the worker runs for those entries, the sweeper, the handler of *)
(* exhausted failures, and the cancel that races with all of them.         *)
(*                                                                         *)
(* Every await of a handler is a step: whatever else runs may run between  *)
(* two of them.  A money transaction is one step here; SearchTransactions  *)
(* shows why it may be.                                                    *)
(*                                                                         *)
(* BullMQ is external.  What the code uses of it: an entry has a fixed id, *)
(* adding an id that is still there does nothing (ended entries are        *)
(* retained), a handler that throws is retried up to `attempts` times, and *)
(* an active entry nobody holds the lock of is given back, once, to be     *)
(* taken again beside the handler that lost it.                            *)
(***************************************************************************)
EXTENDS Integers, FiniteSets, JobStatus

CONSTANTS
    Jobs,          \* job ids
    Candidates,    \* candidate keys the discover provider can return
    Results,       \* the sets of candidates it can return for a job
    Accepted,      \* the candidates the verify provider accepts
    Slots,         \* handlers the worker can run at once for one entry
    MaxAttempts,   \* `attempts` of STAGE_OPTS (5)
    MaxStalls,     \* stalls BullMQ forgives an entry (maxStalledCount, 1)
    ThrowSteps,    \* the handler steps that may throw
    FaultKinds,    \* what else may go wrong: see Faults below
    MaxFaults      \* bound on the number of such faults

ASSUME PipelineAssumption ==
    /\ IsFiniteSet(Candidates)
    /\ Results \subseteq SUBSET Candidates
    /\ Accepted \subseteq Candidates
    /\ MaxAttempts \in Nat \ {0}
    /\ MaxStalls \in Nat
    /\ MaxFaults \in Nat

VARIABLES
    status,     \* jobs.status, or "none" before the job exists
    found,      \* what the discover provider returns for the job's request
    leads,      \* the state of each of the job's leads, or "none"
    counts,     \* jobs.discovered_count, verified_count, rejected_count
    refunded,   \* jobs whose credit cancelJob gave back
    entry,      \* the BullMQ entry of each queue and job: [state, made, stalls]
    run,        \* the handlers in flight: [step, lock, read, todo, tally]
    onfailed,   \* the 'failed' callback of an exhausted entry: "none", "read" or "write"
    sweep,      \* the snapshots of the sweeps in flight: per job, the stages to enqueue
    faults      \* faults so far

vars == <<status, found, leads, counts, refunded, entry, run, onfailed, sweep, faults>>

Queues == {"discover", "verify"}
Items == Queues \X Jobs
Handlers == Queues \X Jobs \X Slots

DiscoverSteps == {"d_find", "enter", "d_sleep", "insert", "count", "checkpoint", "enqueue"}
VerifySteps == {"v_find", "list", "v_sleep", "score", "tally", "set_counts", "complete"}
HandlerSteps == DiscoverSteps \cup VerifySteps \cup {"done"}

LeadStates == {"none", "unverified_raw", "verified", "rejected"}
Settled == {"verified", "rejected"}

NoEntry == [state |-> "absent", made |-> 0, stalls |-> 0]
NoTally == [verified |-> 0, rejected |-> 0]
NoRun == [step |-> "none", lock |-> FALSE, read |-> "none", todo |-> {},
          tally |-> NoTally]
NoCounts == [discovered |-> 0, verified |-> 0, rejected |-> 0]

\* The queue entry a handler runs for.
Item(h) == <<h[1], h[2]>>

\* The leads of job j in state s.
LeadsIn(j, s) == {c \in Candidates : leads[j][c] = s}

Init ==
    /\ status = [j \in Jobs |-> "none"]
    /\ found = [j \in Jobs |-> {}]
    /\ leads = [j \in Jobs |-> [c \in Candidates |-> "none"]]
    /\ counts = [j \in Jobs |-> NoCounts]
    /\ refunded = {}
    /\ entry = [i \in Items |-> NoEntry]
    /\ run = [h \in Handlers |-> NoRun]
    /\ onfailed = [i \in Items |-> "none"]
    /\ sweep = [j \in Jobs |-> {}]
    /\ faults = 0

-----------------------------------------------------------------------------
(* BullMQ.                                                                 *)

\* Queue.add with a fixed job id: nothing happens while an entry has that id, an
\* ended and retained one included.
Add(q, j) ==
    entry' = IF entry[<<q, j>>].state = "absent"
             THEN [entry EXCEPT ![<<q, j>>].state = "waiting"]
             ELSE entry

\* A worker takes a waiting entry (its backoff over) and runs the queue's handler.
Take(h) ==
    /\ entry[Item(h)].state = "waiting"
    /\ run[h] = NoRun
    /\ entry' = [entry EXCEPT ![Item(h)].state = "active"]
    /\ run' = [run EXCEPT ![h] = [NoRun EXCEPT !.step = IF h[1] = "discover" THEN "d_find" ELSE "v_find",
                                               !.lock = TRUE]]
    /\ UNCHANGED <<status, found, leads, counts, refunded, onfailed, sweep, faults>>

\* The handler returned: the entry is completed, unless its lock was lost.
Finish(h) ==
    /\ run[h].step = "done"
    /\ run' = [run EXCEPT ![h] = NoRun]
    /\ entry' = IF run[h].lock THEN [entry EXCEPT ![Item(h)].state = "completed"] ELSE entry
    /\ UNCHANGED <<status, found, leads, counts, refunded, onfailed, sweep, faults>>

\* Mutant of FailAttempt: no attempt is the last.
FailAttemptAgain(i, last) ==
    /\ entry' = [entry EXCEPT ![i].made = @ + 1, ![i].state = "waiting"]
    /\ UNCHANGED onfailed

\* An attempt at item i is over.  The last one fails the entry and calls onFailed;
\* for the others onFailed only logs.
FailAttempt(i, last) ==
    /\ entry' = [entry EXCEPT ![i].made = @ + 1,
                              ![i].state = IF last THEN "failed" ELSE "waiting"]
    /\ onfailed' = IF entry[i].made + 1 >= MaxAttempts THEN [onfailed EXCEPT ![i] = "read"]
                                                       ELSE onfailed

\* The handler threw.  Without its lock BullMQ ignores the outcome.
Throw(h) ==
    /\ run[h].step \in ThrowSteps
    /\ run' = [run EXCEPT ![h] = NoRun]
    /\ IF run[h].lock
       THEN FailAttempt(Item(h), entry[Item(h)].made + 1 >= MaxAttempts)
       ELSE UNCHANGED <<entry, onfailed>>
    /\ UNCHANGED <<status, found, leads, counts, refunded, sweep, faults>>

\* An active entry whose lock nobody renews has stalled: it waits again, or it fails
\* when it stalled too often, with attempts left as it may be.
RecoverStalled(i) ==
    /\ entry[i].state = "active"
    /\ \A h \in Handlers : Item(h) = i => ~run[h].lock
    /\ IF entry[i].stalls < MaxStalls
       THEN /\ entry' = [entry EXCEPT ![i].state = "waiting", ![i].stalls = @ + 1]
            /\ UNCHANGED onfailed
       ELSE FailAttempt(i, TRUE)
    /\ UNCHANGED <<status, found, leads, counts, refunded, run, sweep, faults>>

-----------------------------------------------------------------------------
(* The API.                                                                *)

\* startSearch commits a new job.
Submit(j) ==
    /\ status[j] = "none"
    /\ status' = [status EXCEPT ![j] = "queued"]
    /\ \E S \in Results : found' = [found EXCEPT ![j] = S]
    /\ UNCHANGED <<leads, counts, refunded, entry, run, onfailed, sweep, faults>>

\* After the commit, and again on every replay of the submit: enqueueDiscover, which
\* a crash of the web process or a Redis error may lose.
EnqueueDiscover(j) ==
    /\ status[j] # "none"
    /\ Add("discover", j)
    /\ UNCHANGED <<status, found, leads, counts, refunded, run, onfailed, sweep, faults>>

\* cancelJob.
Cancel(j) ==
    /\ status[j] \in Running
    /\ status' = [status EXCEPT ![j] = "cancelled"]
    /\ refunded' = refunded \cup {j}
    /\ UNCHANGED <<found, leads, counts, entry, run, onfailed, sweep, faults>>

-----------------------------------------------------------------------------
(* Steps the stages share.                                                 *)

Goto(h, step) == run' = [run EXCEPT ![h].step = step]

\* The handler returns; what it had read is forgotten.
Return(h) == run' = [run EXCEPT ![h] = [NoRun EXCEPT !.step = "done", !.lock = run[h].lock]]

\* Mutant of StillIn: the UPDATE has no WHERE on the status.
NoMatterWhere(j, from) == TRUE

\* WHERE id = j AND status = from, of advanceJobStatus.
StillIn(j, from) == status[j] = from

\* advanceJobStatus(j, from, to): go on to `next` if the row moved, return if not.
AdvanceOr(h, from, to, next) ==
    LET j == h[2]
    IN  IF StillIn(j, from)
        THEN /\ status' = [status EXCEPT ![j] = to]
             /\ run' = [run EXCEPT ![h].step = next, ![h].read = "none"]
        ELSE Return(h) /\ UNCHANGED status

\* cancellableSleep: the last look at the status decides.
Sleep(h, next) ==
    /\ IF status[h[2]] = "cancelled" THEN Return(h) ELSE Goto(h, next)
    /\ UNCHANGED <<status, found, leads, counts, refunded, entry, onfailed, sweep, faults>>

-----------------------------------------------------------------------------
(* runDiscoverStage.                                                       *)

\* findJobByIdSystem: a terminal job ends the handler, another status is remembered.
FindForDiscover(h) ==
    /\ run[h].step = "d_find"
    /\ IF status[h[2]] \in Terminal
       THEN Return(h)
       ELSE run' = [run EXCEPT ![h].read = status[h[2]], ![h].step = "enter"]
    /\ UNCHANGED <<status, found, leads, counts, refunded, entry, onfailed, sweep, faults>>

\* The guarded entry, from whatever running status was read.
Enter(h) ==
    /\ run[h].step = "enter"
    /\ AdvanceOr(h, run[h].read, "discovering", "d_sleep")
    /\ UNCHANGED <<found, leads, counts, refunded, entry, onfailed, sweep, faults>>

SleepBeforeDiscover(h) == run[h].step = "d_sleep" /\ Sleep(h, "insert")

\* Mutant of WithCandidates: ON CONFLICT DO UPDATE.
WithCandidatesReset(j) ==
    [c \in Candidates |-> IF c \in found[j] THEN "unverified_raw" ELSE leads[j][c]]

\* The provider's candidates become leads; rows that are there stay as they are.
WithCandidates(j) ==
    [c \in Candidates |->
        IF c \in found[j] /\ leads[j][c] = "none" THEN "unverified_raw" ELSE leads[j][c]]

\* provider.discover and insertCandidates.
Insert(h) ==
    LET j == h[2]
    IN  /\ run[h].step = "insert"
        /\ leads' = [leads EXCEPT ![j] = WithCandidates(j)]
        /\ Goto(h, "count")
        /\ UNCHANGED <<status, found, counts, refunded, entry, onfailed, sweep, faults>>

\* Mutant of SetDiscovered: the count is added, not SET.
AddDiscovered(h) ==
    LET j == h[2]
    IN  /\ run[h].step = "count"
        /\ counts' = [counts EXCEPT ![j].discovered = @ + Cardinality(found[j])]
        /\ Goto(h, "checkpoint")
        /\ UNCHANGED <<status, found, leads, refunded, entry, onfailed, sweep, faults>>

\* setDiscoveredCount.
SetDiscovered(h) ==
    LET j == h[2]
    IN  /\ run[h].step = "count"
        /\ counts' = [counts EXCEPT ![j].discovered = Cardinality(found[j])]
        /\ Goto(h, "checkpoint")
        /\ UNCHANGED <<status, found, leads, refunded, entry, onfailed, sweep, faults>>

\* The guarded advance to verifying.
Checkpoint(h) ==
    /\ run[h].step = "checkpoint"
    /\ AdvanceOr(h, "discovering", "verifying", "enqueue")
    /\ UNCHANGED <<found, leads, counts, refunded, entry, onfailed, sweep, faults>>

\* enqueueVerify.
EnqueueVerify(h) ==
    /\ run[h].step = "enqueue"
    /\ Add("verify", h[2])
    /\ Return(h)
    /\ UNCHANGED <<status, found, leads, counts, refunded, onfailed, sweep, faults>>

-----------------------------------------------------------------------------
(* runVerifyStage.                                                         *)

\* findJobByIdSystem: a terminal job ends the handler; any other status will do.
FindForVerify(h) ==
    /\ run[h].step = "v_find"
    /\ IF status[h[2]] \in Terminal THEN Return(h) ELSE Goto(h, "list")
    /\ UNCHANGED <<status, found, leads, counts, refunded, entry, onfailed, sweep, faults>>

\* listUnverified: the snapshot the loop works through.
List(h) ==
    /\ run[h].step = "list"
    /\ run' = [run EXCEPT ![h].todo = LeadsIn(h[2], "unverified_raw"), ![h].step = "v_sleep"]
    /\ UNCHANGED <<status, found, leads, counts, refunded, entry, onfailed, sweep, faults>>

SleepBeforeVerify(h) == run[h].step = "v_sleep" /\ Sleep(h, "score")

\* verify one lead of the snapshot and write the verdict, whatever the lead is by now.
Score(h, c) ==
    LET j == h[2]
    IN  /\ run[h].step = "score"
        /\ c \in run[h].todo
        /\ leads' = [leads EXCEPT ![j][c] = IF c \in Accepted THEN "verified" ELSE "rejected"]
        /\ run' = [run EXCEPT ![h].todo = @ \ {c}]
        /\ UNCHANGED <<status, found, counts, refunded, entry, onfailed, sweep, faults>>

\* Mutant of LoopDone: the loop stops at the first lead it finds.
LoopDoneEarly(h) == TRUE

\* The snapshot is worked through.
LoopDone(h) == run[h].todo = {}

\* countByState, once the snapshot is worked through.
Tally(h) ==
    LET j == h[2]
    IN  /\ run[h].step = "score"
        /\ LoopDone(h)
        /\ run' = [run EXCEPT
               ![h].tally = [verified |-> Cardinality(LeadsIn(j, "verified")),
                             rejected |-> Cardinality(LeadsIn(j, "rejected"))],
               ![h].step = "set_counts"]
        /\ UNCHANGED <<status, found, leads, counts, refunded, entry, onfailed, sweep, faults>>

\* setVerifyCounts.
SetVerified(h) ==
    LET j == h[2]
    IN  /\ run[h].step = "set_counts"
        /\ counts' = [counts EXCEPT ![j].verified = run[h].tally.verified,
                                    ![j].rejected = run[h].tally.rejected]
        /\ run' = [run EXCEPT ![h].step = "complete", ![h].tally = NoTally]
        /\ UNCHANGED <<status, found, leads, refunded, entry, onfailed, sweep, faults>>

\* The guarded completion.
Complete(h) ==
    /\ run[h].step = "complete"
    /\ AdvanceOr(h, "verifying", "completed", "done")
    /\ UNCHANGED <<found, leads, counts, refunded, entry, onfailed, sweep, faults>>

-----------------------------------------------------------------------------
(* onFailed and the sweeper.                                               *)

\* onFailed of an exhausted entry reads the job ...
OnFailedRead(i) ==
    /\ onfailed[i] = "read"
    /\ onfailed' = [onfailed EXCEPT ![i] = IF status[i[2]] \in Running THEN "write" ELSE "none"]
    /\ UNCHANGED <<status, found, leads, counts, refunded, entry, run, sweep, faults>>

\* ... and then sets it failed, without looking again.
OnFailedWrite(i) ==
    /\ onfailed[i] = "write"
    /\ status' = [status EXCEPT ![i[2]] = "failed"]
    /\ onfailed' = [onfailed EXCEPT ![i] = "none"]
    /\ UNCHANGED <<found, leads, counts, refunded, entry, run, sweep, faults>>

NoSweep == [j \in Jobs |-> {}]

\* Mutant of Swept: a job that never started is not looked at.
SweptOnceStarted == {"discovering", "verifying"}

\* The statuses the sweep reconciles.
Swept == {"queued", "discovering", "verifying"}

\* The stage a swept job is put back to.
StageOf(s) == IF s = "verifying" THEN "verify" ELSE "discover"

\* listNonTerminalJobs: of the status that is read, only the stage it calls for matters.
\* The timer does not wait for the previous sweep to end.
SweepList ==
    /\ \E j \in Jobs : status[j] \in Swept
    /\ sweep' = [j \in Jobs |->
                    IF status[j] \in Swept THEN sweep[j] \cup {StageOf(status[j])} ELSE sweep[j]]
    /\ UNCHANGED <<status, found, leads, counts, refunded, entry, run, onfailed, faults>>

\* One job of a snapshot: enqueue it unless its entry is there.
SweepJob(j) ==
    \E q \in sweep[j] :
        /\ Add(q, j)
        /\ sweep' = [sweep EXCEPT ![j] = @ \ {q}]
        /\ UNCHANGED <<status, found, leads, counts, refunded, run, onfailed, faults>>

-----------------------------------------------------------------------------
(* Faults.                                                                 *)

Fault(kind) ==
    /\ kind \in FaultKinds
    /\ faults < MaxFaults
    /\ faults' = faults + 1

\* A discover handler is past its checkpoint, or a 'failed' callback is pending: what
\* they have still to do is recorded nowhere.
HandOffPending ==
    \/ \E h \in Handlers : h[1] = "discover" /\ run[h].step \in {"enqueue", "done"}
    \/ \E i \in Items : onfailed[i] # "none"

\* The worker process dies, anywhere ("crash") or where no hand-off is pending
\* ("early crash"), and is started again: handlers, callbacks and sweeps are gone.  A
\* statement of onFailed that throws is such a death: nobody awaits its promise, and an
\* unhandled rejection ends the process.
Crash ==
    /\ Fault("crash") \/ (Fault("early crash") /\ ~HandOffPending)
    /\ run' = [h \in Handlers |-> NoRun]
    /\ onfailed' = [i \in Items |-> "none"]
    /\ sweep' = NoSweep
    /\ UNCHANGED <<status, found, leads, counts, refunded, entry>>

\* A handler's lock expires while the handler goes on.
LoseLock(h) ==
    /\ Fault("lock")
    /\ run[h].lock
    /\ run' = [run EXCEPT ![h].lock = FALSE]
    /\ UNCHANGED <<status, found, leads, counts, refunded, entry, onfailed, sweep>>

\* A sweep throws: the rest of the snapshots is dropped.
SweepThrows ==
    /\ Fault("sweep")
    /\ sweep # NoSweep
    /\ sweep' = NoSweep
    /\ UNCHANGED <<status, found, leads, counts, refunded, entry, run, onfailed>>

-----------------------------------------------------------------------------

DiscoverStep(h) ==
    \/ FindForDiscover(h) \/ Enter(h) \/ SleepBeforeDiscover(h) \/ Insert(h)
    \/ SetDiscovered(h) \/ Checkpoint(h) \/ EnqueueVerify(h)

VerifyStep(h) ==
    \/ FindForVerify(h) \/ List(h) \/ SleepBeforeVerify(h)
    \/ \E c \in Candidates : Score(h, c)
    \/ Tally(h) \/ SetVerified(h) \/ Complete(h)

HandlerStep(h) == DiscoverStep(h) \/ VerifyStep(h) \/ Finish(h)

Api(j) == Submit(j) \/ EnqueueDiscover(j) \/ Cancel(j)

FaultStep ==
    \/ Crash
    \/ SweepThrows
    \/ \E h \in Handlers : LoseLock(h)

Next ==
    \/ \E j \in Jobs : Api(j) \/ SweepJob(j)
    \/ \E h \in Handlers : Take(h) \/ HandlerStep(h) \/ Throw(h)
    \/ \E i \in Items : RecoverStalled(i) \/ OnFailedRead(i) \/ OnFailedWrite(i)
    \/ SweepList
    \/ FaultStep

\* The worker runs: it takes entries, its handlers and callbacks go on, it sweeps every
\* 10 s and BullMQ looks for stalled entries.  Users and faults are not fair.
Fairness ==
    /\ \A h \in Handlers : WF_vars(Take(h)) /\ WF_vars(HandlerStep(h))
    /\ \A i \in Items : WF_vars(RecoverStalled(i)) /\ WF_vars(OnFailedRead(i) \/ OnFailedWrite(i))
    /\ \A j \in Jobs : WF_vars(SweepJob(j))
    /\ WF_vars(SweepList)

Spec == Init /\ [][Next]_vars /\ Fairness

-----------------------------------------------------------------------------
(* What must hold.                                                         *)

Entries == [state : {"absent", "waiting", "active", "completed", "failed"},
            made : 0..MaxAttempts, stalls : 0..MaxStalls]
Runs == [step : HandlerSteps \cup {"none"}, lock : BOOLEAN, read : Statuses \cup {"none"},
         todo : SUBSET Candidates, tally : [verified : Nat, rejected : Nat]]

TypeOK ==
    /\ status \in [Jobs -> Statuses \cup {"none"}]
    /\ found \in [Jobs -> Results \cup {{}}]
    /\ leads \in [Jobs -> [Candidates -> LeadStates]]
    /\ counts \in [Jobs -> [discovered : Nat, verified : Nat, rejected : Nat]]
    /\ refunded \in SUBSET Jobs
    /\ entry \in [Items -> Entries]
    /\ run \in [Handlers -> Runs]
    /\ onfailed \in [Items -> {"none", "read", "write"}]
    /\ sweep \in [Jobs -> SUBSET Queues]
    /\ faults \in 0..MaxFaults

\* A job past the checkpoint has all its candidates as leads and has counted them,
\* whatever was retried, re-run or overlapped on the way (discover.ts:57-92).
CheckpointMeansDiscovered ==
    \A j \in Jobs :
        status[j] \in {"verifying", "completed"} =>
            /\ \A c \in found[j] : leads[j][c] # "none"
            /\ counts[j].discovered = Cardinality(found[j])

\* No stage invents a lead: a job has leads for candidates of its own only, and every
\* one of them is settled and counted when the job is completed (verify.ts:51-71).
CompletedMeansSettled ==
    \A j \in Jobs :
        /\ \A c \in Candidates \ found[j] : leads[j][c] = "none"
        /\ status[j] = "completed" =>
              /\ \A c \in found[j] : leads[j][c] \in Settled
              /\ counts[j].verified = Cardinality(LeadsIn(j, "verified"))
              /\ counts[j].rejected = Cardinality(LeadsIn(j, "rejected"))
              /\ counts[j].verified + counts[j].rejected = counts[j].discovered

\* A refunded job is never delivered and never runs again, and a cancelled job is
\* always refunded (job-repository.ts:61-63, 84-89).
RefundedNeverDelivered ==
    /\ \A j \in refunded : status[j] \in {"cancelled", "failed"}
    /\ \A j \in Jobs : status[j] = "cancelled" => j \in refunded

\* A settled lead keeps its verdict, in a retry, in a re-run and in two verify handlers
\* that overlap (lead-repository.ts:35-51).
SettledLeadsKept ==
    [][\A j \in Jobs, c \in Candidates :
          leads[j][c] \in Settled => leads'[j][c] = leads[j][c]]_vars

\* A job leaves a terminal status only to be relabelled failed, and no stage takes it
\* out of one (discover.ts:27, verify.ts:29, job-repository.ts:64-82).
EndedJobsStayEnded ==
    [][\A j \in Jobs :
          status[j] \in Terminal => status'[j] \in {status[j], "failed"}]_vars

\* Every job that starts ends.
EveryJobEnds == \A j \in Jobs : status[j] \in Running ~> status[j] \in Terminal

-----------------------------------------------------------------------------
(* What the documentation says, and the code does not do.                  *)

\* "a dropped hand-off heals itself instead of hanging forever" (README.md:290-291).
HandOffHeals == \A j \in Jobs : status[j] = "verifying" ~> status[j] \in Terminal

\* "Terminal states never transition." (state-machine.ts:3).
TerminalIsFinal ==
    [][\A j \in Jobs : status[j] \in Terminal => status'[j] = status[j]]_vars

=============================================================================
