------------------------- MODULE SearchTransactions -------------------------
(***************************************************************************)
(* The two Postgres transactions that move credits, statement by statement *)
(* and interleaved: startSearch (POST /api/searches) and cancelJob (POST   *)
(* /api/jobs/:id/cancel), against the writes the worker makes to the same  *)
(* job rows.                                                               *)
(*                                                                         *)
(* Postgres runs them at its default level, READ COMMITTED.  What the code *)
(* relies on there, and all that is modelled of it:                        *)
(*   - a statement sees the rows committed when it runs;                   *)
(*   - INSERT ... ON CONFLICT DO NOTHING waits for a transaction that has  *)
(*     an equal key in flight, and then decides;                           *)
(*   - an UPDATE waits for a transaction that has updated the same row,    *)
(*     and then evaluates its WHERE on the row that one left behind;       *)
(*   - COMMIT publishes every write at once, an abort publishes none.      *)
(* The variables credits, jobs and ledger are the committed rows.  The     *)
(* writes of a transaction in flight, and the locks it holds, follow from  *)
(* the statement it has reached (pc), what it was asked (req) and the      *)
(* balance its UPDATE returned (balance).                                  *)
(***************************************************************************)
EXTENDS Integers, Sequences, FiniteSets, JobStatus

CONSTANTS
    Orgs,             \* organizations
    Keys,             \* idempotency keys the browsers send
    Starts,           \* calls of POST /api/searches; also the ids of the jobs they insert
    Cancels,          \* calls of POST /api/jobs/:id/cancel
    InitialCredits,   \* seeded credits of each organization
    Null              \* an absent row or value

JobRows == [org : Orgs, key : Keys, status : Statuses]

ASSUME CallsAssumption == Starts \cap Cancels = {}
ASSUME NullAssumption == Null \notin JobRows \cup Starts
ASSUME InitialCreditsAssumption == InitialCredits \in [Orgs -> Nat]

VARIABLES
    credits,   \* organizations.credits
    jobs,      \* the row of each job id, or Null
    ledger,    \* the credit_ledger rows of each organization, in commit order
    failing,   \* jobs whose onFailed has read a running status and not written yet
    pc,        \* the statement each call has reached
    req,       \* what each call was asked: [org, key, job]
    balance,   \* RETURNING credits of each call's UPDATE organizations
    answer     \* the body each call answered with: [job, status, replayed]

vars == <<credits, jobs, ledger, failing, pc, req, balance, answer>>

Calls == Starts \cup Cancels

\* Inside a transaction: a statement was executed, COMMIT was not.
StartTx == {"charge", "charge_row"}
CancelTx == {"refund", "refund_row"}
OrgTx == {"charge_row", "refund_row"}

\* The ends of a call: a 200, a 402, or no answer the browser can interpret.
Ended == {"answered", "refused", "lost"}

Steps == {"idle", "insert", "replay", "conflict", "flip", "reread", "committed"}
         \cup StartTx \cup CancelTx \cup Ended

Reasons == {"search_charge", "refund"}
Entries == [job : Starts, reason : Reasons, delta : {-1, 1}, balanceAfter : Nat]
Requests == [org : Orgs, key : Keys \cup {Null}, job : Starts]
NoRequest == [org |-> Null, key |-> Null, job |-> Null]
NoAnswer == [job |-> Null, status |-> "none", replayed |-> FALSE]

Exists(j) == jobs[j] # Null

\* The committed jobs of an organization under an idempotency key.
JobsOf(o, k) == {j \in Starts : Exists(j) /\ jobs[j].org = o /\ jobs[j].key = k}

-----------------------------------------------------------------------------
(* Locks, each held from the statement that takes it to the end of the     *)
(* transaction.                                                            *)

\* Another call has inserted (o, k) and its transaction has not ended.
SlotLocked(c, o, k) ==
    \E d \in Starts \ {c} : pc[d] \in StartTx /\ req[d].org = o /\ req[d].key = k

\* Mutant of OrgLocked: the balance is read and written back without the row lock.
OrgNeverLocked(o) == FALSE

\* Mutant of OrgLocked: the throw on an empty balance does not roll back.
OrgLockedByRefused(o) ==
    \E c \in Calls : pc[c] \in OrgTx \cup {"refused"} /\ req[c].org = o

\* A transaction has updated the credits of o and has not ended.
OrgLocked(o) == \E c \in Calls : pc[c] \in OrgTx /\ req[c].org = o

\* A transaction has updated the row of job j and has not ended.
JobLocked(j) == \E c \in Cancels : pc[c] \in CancelTx /\ req[c].job = j

-----------------------------------------------------------------------------

Init ==
    /\ credits = InitialCredits
    /\ jobs = [j \in Starts |-> Null]
    /\ ledger = [o \in Orgs |-> <<>>]
    /\ failing = {}
    /\ pc = [c \in Calls |-> "idle"]
    /\ req = [c \in Calls |-> NoRequest]
    /\ balance = [c \in Calls |-> 0]
    /\ answer = [c \in Calls |-> NoAnswer]

Goto(c, step) == pc' = [pc EXCEPT ![c] = step]

Answer(c, j, replayed) ==
    answer' = [answer EXCEPT ![c] = [job |-> j, status |-> jobs[j].status, replayed |-> replayed]]

rows == <<credits, jobs, ledger>>

-----------------------------------------------------------------------------
(* startSearch.                                                            *)

\* Mutant of Conflicts: the insert names no conflict target.
NeverConflicts(c, o, k) == FALSE

\* The insert finds a committed row with the same organization and key.
Conflicts(c, o, k) == JobsOf(o, k) # {}

\* A browser submits a search under a key: a new one, or one it has used before.
Submit(c) ==
    /\ pc[c] = "idle"
    /\ \E o \in Orgs, k \in Keys : req' = [req EXCEPT ![c] = [org |-> o, key |-> k, job |-> c]]
    /\ Goto(c, "insert")
    /\ UNCHANGED <<rows, failing, balance, answer>>

\* INSERT INTO jobs ... ON CONFLICT DO NOTHING, the first statement.
InsertJob(c) ==
    LET o == req[c].org
        k == req[c].key
    IN  /\ pc[c] = "insert"
        /\ Conflicts(c, o, k) \/ ~SlotLocked(c, o, k)
        /\ Goto(c, IF Conflicts(c, o, k) THEN "replay" ELSE "charge")
        /\ UNCHANGED <<rows, failing, req, balance, answer>>

\* Mutant of Existing: the SELECT looks among the running jobs only.
ExistingRunning(c) == {j \in JobsOf(req[c].org, req[c].key) : jobs[j].status \notin Terminal}

\* The jobs that the SELECT after a conflict finds.
Existing(c) == JobsOf(req[c].org, req[c].key)

\* The SELECT of the existing job, whose real status is answered; without one the
\* call throws 'idempotency conflict with no existing job'.
Replay(c) ==
    /\ pc[c] = "replay"
    /\ IF Existing(c) = {}
       THEN Goto(c, "conflict") /\ UNCHANGED answer
       ELSE Goto(c, "committed") /\ \E j \in Existing(c) : Answer(c, j, TRUE)
    /\ UNCHANGED <<rows, failing, req, balance>>

\* Mutant of HasCredit: the WHERE of the decrement is off by one.
HasCreditOrNone(o) == credits[o] >= 0

\* WHERE credits >= 1.
HasCredit(o) == credits[o] >= 1

\* UPDATE organizations SET credits = credits - 1 ... RETURNING credits.
ChargeCredit(c) ==
    /\ pc[c] = "charge"
    /\ ~OrgLocked(req[c].org)
    /\ HasCredit(req[c].org)
    /\ balance' = [balance EXCEPT ![c] = credits[req[c].org] - 1]
    /\ Goto(c, "charge_row")
    /\ UNCHANGED <<rows, failing, req, answer>>

\* Mutant of Refuse: a return in place of the throw commits the insert.
RefuseKeepingJob(c) ==
    /\ pc[c] = "charge"
    /\ ~OrgLocked(req[c].org)
    /\ ~HasCredit(req[c].org)
    /\ jobs' = [jobs EXCEPT ![c] = [org |-> req[c].org, key |-> req[c].key, status |-> "queued"]]
    /\ Goto(c, "refused")
    /\ UNCHANGED <<credits, ledger, failing, req, balance, answer>>

\* No row was updated: InsufficientCreditsError, and the insert is rolled back.
Refuse(c) ==
    /\ pc[c] = "charge"
    /\ ~OrgLocked(req[c].org)
    /\ ~HasCredit(req[c].org)
    /\ Goto(c, "refused")
    /\ UNCHANGED <<rows, failing, req, balance, answer>>

\* INSERT INTO credit_ledger ... 'search_charge' and COMMIT: the ledger row, like the job
\* and the balance, is seen by nobody before.
CommitStart(c) ==
    LET o == req[c].org
        row == [job |-> c, reason |-> "search_charge", delta |-> -1,
                balanceAfter |-> balance[c]]
    IN  /\ pc[c] = "charge_row"
        /\ jobs' = [jobs EXCEPT ![c] = [org |-> o, key |-> req[c].key, status |-> "queued"]]
        /\ credits' = [credits EXCEPT ![o] = balance[c]]
        /\ ledger' = [ledger EXCEPT ![o] = Append(@, row)]
        /\ answer' = [answer EXCEPT ![c] = [job |-> c, status |-> "queued", replayed |-> FALSE]]
        /\ Goto(c, "committed")
        /\ UNCHANGED <<failing, req, balance>>

\* What follows the commit (event, enqueue) is best-effort; then the call answers.
Respond(c) ==
    /\ pc[c] = "committed"
    /\ Goto(c, "answered")
    /\ UNCHANGED <<rows, failing, req, balance, answer>>

-----------------------------------------------------------------------------
(* cancelJob and its route.                                                *)

\* Mutant of Cancellable: the WHERE does not look at the status.
CancellableAlways(o, j) == Exists(j) /\ jobs[j].org = o

\* Mutant of Cancellable: one running status is missing from the list.
CancellableBeforeVerify(o, j) ==
    Exists(j) /\ jobs[j].org = o /\ jobs[j].status \in {"queued", "discovering"}

\* WHERE id = jobId AND organization_id = orgId AND status IN (the running ones).
Cancellable(o, j) == Exists(j) /\ jobs[j].org = o /\ jobs[j].status \in Running

\* A user cancels a job that exists, in this organization or in another.
AskCancel(c) ==
    /\ pc[c] = "idle"
    /\ \E o \in Orgs, j \in {i \in Starts : Exists(i)} :
        req' = [req EXCEPT ![c] = [org |-> o, key |-> Null, job |-> j]]
    /\ Goto(c, "flip")
    /\ UNCHANGED <<rows, failing, balance, answer>>

\* UPDATE jobs SET status = 'cancelled' ... RETURNING, the first statement.
FlipJob(c) ==
    /\ pc[c] = "flip"
    /\ ~JobLocked(req[c].job)
    /\ Goto(c, IF Cancellable(req[c].org, req[c].job) THEN "refund" ELSE "reread")
    /\ UNCHANGED <<rows, failing, req, balance, answer>>

\* UPDATE organizations SET credits = credits + 1 ... RETURNING credits.
RefundCredit(c) ==
    /\ pc[c] = "refund"
    /\ ~OrgLocked(req[c].org)
    /\ balance' = [balance EXCEPT ![c] = credits[req[c].org] + 1]
    /\ Goto(c, "refund_row")
    /\ UNCHANGED <<rows, failing, req, answer>>

\* ON CONFLICT (job_id, reason) DO NOTHING: a second refund row is dropped.
WithRefund(rs, row) ==
    IF \E i \in 1..Len(rs) : rs[i].job = row.job /\ rs[i].reason = row.reason
    THEN rs
    ELSE Append(rs, row)

\* INSERT INTO credit_ledger ... 'refund' and COMMIT.
CommitCancel(c) ==
    LET o == req[c].org
        j == req[c].job
        row == [job |-> j, reason |-> "refund", delta |-> 1, balanceAfter |-> balance[c]]
    IN  /\ pc[c] = "refund_row"
        /\ jobs' = [jobs EXCEPT ![j].status = "cancelled"]
        /\ credits' = [credits EXCEPT ![o] = balance[c]]
        /\ ledger' = [ledger EXCEPT ![o] = WithRefund(@, row)]
        /\ answer' = [answer EXCEPT ![c] = [job |-> j, status |-> "cancelled", replayed |-> FALSE]]
        /\ Goto(c, "committed")
        /\ UNCHANGED <<failing, req, balance>>

\* Nothing was flipped: the route reads the job again, 404 if it is not the organization's.
Reread(c) ==
    LET j == req[c].job
    IN  /\ pc[c] = "reread"
        /\ IF Exists(j) /\ jobs[j].org = req[c].org
           THEN Answer(c, j, FALSE)
           ELSE UNCHANGED answer
        /\ Goto(c, "committed")
        /\ UNCHANGED <<rows, failing, req, balance>>

-----------------------------------------------------------------------------
(* Failures, and the worker's writes to the same rows.                     *)

\* The web process, its connection or a statement fails inside the transaction:
\* Postgres rolls back.
Abort(c) ==
    /\ pc[c] \in StartTx \cup CancelTx \cup {"insert", "replay", "flip", "reread"}
    /\ Goto(c, "lost")
    /\ UNCHANGED <<rows, failing, req, balance, answer>>

\* The process dies after the commit: the browser never learns the outcome.
LoseAnswer(c) ==
    /\ pc[c] = "committed"
    /\ Goto(c, "lost")
    /\ UNCHANGED <<rows, failing, req, balance, answer>>

\* The moves the two stages ask advanceJobStatus for.
StageMoves ==
    {<<"queued", "discovering">>, <<"discovering", "discovering">>, <<"verifying", "discovering">>,
     <<"discovering", "verifying">>, <<"verifying", "completed">>}

\* Mutant of Advance: the UPDATE has no WHERE status = from.
AdvanceBlindly(j) ==
    /\ Exists(j)
    /\ ~JobLocked(j)
    /\ \E m \in StageMoves : jobs' = [jobs EXCEPT ![j].status = m[2]]
    /\ UNCHANGED <<credits, ledger, failing, pc, req, balance, answer>>

\* advanceJobStatus: UPDATE jobs SET status = to WHERE id = j AND status = from.
Advance(j) ==
    /\ Exists(j)
    /\ ~JobLocked(j)
    /\ \E m \in StageMoves :
        /\ jobs[j].status = m[1]
        /\ jobs' = [jobs EXCEPT ![j].status = m[2]]
    /\ UNCHANGED <<credits, ledger, failing, pc, req, balance, answer>>

\* onFailed, attempts exhausted: the read of the job that is still running ...
ReadForFail(j) ==
    /\ Exists(j)
    /\ jobs[j].status \in Running
    /\ failing' = failing \cup {j}
    /\ UNCHANGED <<rows, pc, req, balance, answer>>

\* ... and setJobStatus(j, 'failed'), which does not look at the status again.
WriteFail(j) ==
    /\ j \in failing
    /\ ~JobLocked(j)
    /\ failing' = failing \ {j}
    /\ jobs' = [jobs EXCEPT ![j].status = "failed"]
    /\ UNCHANGED <<credits, ledger, pc, req, balance, answer>>

-----------------------------------------------------------------------------

StartStep(c) ==
    \/ InsertJob(c) \/ Replay(c)
    \/ ChargeCredit(c) \/ Refuse(c) \/ CommitStart(c) \/ Respond(c)

CancelStep(c) ==
    \/ FlipJob(c) \/ RefundCredit(c) \/ CommitCancel(c)
    \/ Reread(c) \/ Respond(c)

WorkerStep(j) == Advance(j) \/ ReadForFail(j) \/ WriteFail(j)

Next ==
    \/ \E c \in Starts : Submit(c) \/ StartStep(c)
    \/ \E c \in Cancels : AskCancel(c) \/ CancelStep(c)
    \/ \E c \in Calls : Abort(c) \/ LoseAnswer(c)
    \/ \E j \in Starts : WorkerStep(j)

\* Postgres and the web process keep executing the statements of a call that has
\* arrived.  When a call arrives, and what the worker does, is not theirs to decide.
Fairness ==
    /\ \A c \in Starts : WF_vars(StartStep(c))
    /\ \A c \in Cancels : WF_vars(CancelStep(c))

Spec == Init /\ [][Next]_vars /\ Fairness

-----------------------------------------------------------------------------
(* What must hold.                                                         *)

TypeOK ==
    /\ credits \in [Orgs -> Nat]
    /\ jobs \in [Starts -> JobRows \cup {Null}]
    /\ ledger \in [Orgs -> Seq(Entries)]
    /\ failing \in SUBSET Starts
    /\ pc \in [Calls -> Steps]
    /\ req \in [Calls -> Requests \cup {NoRequest}]
    /\ balance \in [Calls -> Nat]
    /\ answer \in [Calls -> [job : Starts \cup {Null}, status : Statuses \cup {"none"},
                            replayed : BOOLEAN]]

\* The balance of o before the i-th row of its ledger.
BalanceBefore(o, i) == IF i = 1 THEN InitialCredits[o] ELSE ledger[o][i - 1].balanceAfter

\* balance_after is a truthful running balance: in commit order each row follows from
\* the row before it, and the last row is what the organization has
\* (job-repository.ts:107-108, search-service.ts:81).
LedgerTruthful ==
    \A o \in Orgs :
        /\ \A i \in 1..Len(ledger[o]) :
              ledger[o][i].balanceAfter = BalanceBefore(o, i) + ledger[o][i].delta
        /\ credits[o] = BalanceBefore(o, Len(ledger[o]) + 1)

\* The submits of one organization under one key, concurrent or repeated, leave at
\* most one job (schema.ts:96-97).
OneJobPerKey ==
    \A i, j \in Starts :
        Exists(i) /\ Exists(j) /\ jobs[i].org = jobs[j].org /\ jobs[i].key = jobs[j].key => i = j

\* Row i of the ledger of o is a row of job j with the given reason.
IsRow(o, i, j, reason) ==
    i \in 1..Len(ledger[o]) /\ ledger[o][i].job = j /\ ledger[o][i].reason = reason

HasRow(o, j, reason) == \E i \in 1..Len(ledger[o]) : IsRow(o, i, j, reason)

\* No job has two rows with one reason, in one organization's ledger or in two.
NoSecondRow(reason) ==
    \A o, p \in Orgs, j \in Starts : \A i \in 1..Len(ledger[o]), k \in 1..Len(ledger[p]) :
        IsRow(o, i, j, reason) /\ IsRow(p, k, j, reason) => o = p /\ i = k

\* A job was paid exactly once, by the organization it belongs to, and a call that
\* created no job paid nothing: no orphan charge, no free job (search-service.ts:60-82).
PaidOnce ==
    /\ NoSecondRow("search_charge")
    /\ \A o \in Orgs, j \in Starts :
          HasRow(o, j, "search_charge") <=> Exists(j) /\ jobs[j].org = o

\* A job is never left cancelled but unrefunded, is refunded once and to its own
\* organization, and what was refunded is never delivered: only onFailed's blind write
\* may relabel it, as failed (job-repository.ts:84-89).
RefundMatchesCancel ==
    /\ NoSecondRow("refund")
    /\ \A o \in Orgs, j \in Starts :
          HasRow(o, j, "refund") =>
              Exists(j) /\ jobs[j].org = o /\ jobs[j].status \in {"cancelled", "failed"}
    /\ \A j \in Starts :
          Exists(j) /\ jobs[j].status = "cancelled" => HasRow(jobs[j].org, j, "refund")

\* Whatever a browser is told about one key, it is told of one job, and only one of
\* the answers says it was created now (search-service.ts:44-58).
AnswersAgree ==
    \A c, d \in Starts :
        /\ pc[c] = "answered" /\ pc[d] = "answered" /\ c # d
        /\ req[c].org = req[d].org /\ req[c].key = req[d].key
        => /\ answer[c].job = answer[d].job
           /\ answer[c].replayed \/ answer[d].replayed

\* A cancel that answers with a job reports a status it will not leave by running on:
\* it cancelled the job, or found it ended (cancel/route.ts:22-33).
CancelAnswersFinal ==
    \A c \in Cancels : pc[c] = "answered" => answer[c].status \in Terminal \cup {"none"}

\* An insert that found a conflict always finds the row it conflicted with, however long
\* after it the SELECT runs and whatever became of the job meanwhile (search-service.ts:54).
ConflictHasJob == \A c \in Starts : pc[c] # "conflict"

\* Every call that arrived ends: no two transactions wait for each other's rows, and
\* none ends without releasing what it holds (search-service.ts:29, job-repository.ts:91).
CallsEnd == \A c \in Calls : pc[c] # "idle" ~> pc[c] \in Ended

-----------------------------------------------------------------------------
(* The abstract ledger these transactions implement.                       *)

ChargedSearches == {<<jobs[j].org, jobs[j].key>> : j \in {i \in Starts : Exists(i)}}

RefundedSearches ==
    {<<jobs[j].org, jobs[j].key>> :
        j \in {i \in Starts : Exists(i) /\ HasRow(jobs[i].org, i, "refund")}}

Ledger == INSTANCE CreditLedger WITH charged <- ChargedSearches, refunded <- RefundedSearches

\* The interleaved transactions move credits exactly as the atomic operations of
\* CreditLedger do (search-service.ts:29-85, job-repository.ts:90-128).
ImplementsLedger == Ledger!Spec

=============================================================================
