---------------------- MODULE SearchTransactionsProofs ----------------------
(***************************************************************************)
(* The money path is correct for every set of organizations, keys, submits *)
(* and cancels, and every seeded balance.                                  *)
(*                                                                         *)
(* None of the row properties is inductive: that a committed balance is    *)
(* the previous one minus one depends on who holds which lock.  TxnInv     *)
(* says what a call knows at each statement of its transaction, and that   *)
(* each lock has one holder.  ToldInv says what the answers rest on: a     *)
(* call that has committed or answered tells of rows that are there, and   *)
(* of a status that lasts.  With both, each step is one of the abstract    *)
(* ledger, or a stutter.                                                   *)
(***************************************************************************)
EXTENDS SearchTransactions, FiniteSetTheorems, TLAPS

\* What a submit knows at each statement: its own job is not there before it commits,
\* and a conflict it found stays.
StartKnows(c) ==
    /\ pc[c] \in {"idle", "insert", "replay", "committed"} \cup StartTx \cup Ended
    /\ pc[c] # "idle" => req[c] \in [org : Orgs, key : Keys, job : {c}]
    /\ pc[c] \in {"idle", "insert", "replay"} \cup StartTx => jobs[c] = Null
    /\ pc[c] = "replay" => JobsOf(req[c].org, req[c].key) # {}
    /\ pc[c] \in StartTx => JobsOf(req[c].org, req[c].key) = {}
    /\ pc[c] = "charge_row" => /\ credits[req[c].org] >= 1
                               /\ balance[c] = credits[req[c].org] - 1

\* What a cancel knows: while it holds the row of its job, the job is still cancellable.
CancelKnows(c) ==
    /\ pc[c] \in {"idle", "flip", "reread", "committed"} \cup CancelTx \cup Ended
    /\ pc[c] # "idle" => req[c] \in Requests /\ Exists(req[c].job)
    /\ pc[c] \in CancelTx => Cancellable(req[c].org, req[c].job)
    /\ pc[c] = "refund_row" => balance[c] = credits[req[c].org] + 1

\* Each lock has one holder.
OneSlotHolder ==
    \A c, d \in Starts :
        pc[c] \in StartTx /\ pc[d] \in StartTx
        /\ req[c].org = req[d].org /\ req[c].key = req[d].key => c = d

OneJobHolder ==
    \A c, d \in Cancels :
        pc[c] \in CancelTx /\ pc[d] \in CancelTx /\ req[c].job = req[d].job => c = d

OneOrgHolder ==
    \A c, d \in Calls :
        pc[c] \in OrgTx /\ pc[d] \in OrgTx /\ req[c].org = req[d].org => c = d

TxnInv ==
    /\ \A c \in Starts : StartKnows(c)
    /\ \A c \in Cancels : CancelKnows(c)
    /\ OneSlotHolder
    /\ OneJobHolder
    /\ OneOrgHolder
    /\ \A j \in failing : Exists(j)

RowsInv == LedgerTruthful /\ OneJobPerKey /\ PaidOnce /\ RefundMatchesCancel

IInv == TypeOK /\ TxnInv /\ RowsInv

-----------------------------------------------------------------------------
(* Initially.                                                              *)

LEMMA InitIInv == Init => IInv
<1> SUFFICES ASSUME Init PROVE IInv
  OBVIOUS
<1>1. TypeOK
  BY InitialCreditsAssumption
  DEF Init, TypeOK, Calls, Steps, NoAnswer, Statuses, Running, Terminal
<1>2. TxnInv
  BY DEF Init, TxnInv, StartKnows, CancelKnows, OneSlotHolder, OneJobHolder, OneOrgHolder,
         Calls, StartTx, CancelTx, OrgTx, Ended
<1>3. RowsInv
  BY InitialCreditsAssumption
  DEF Init, RowsInv, LedgerTruthful, BalanceBefore, OneJobPerKey, PaidOnce, RefundMatchesCancel,
      NoSecondRow, HasRow, IsRow, Exists
<1> QED
  BY <1>1, <1>2, <1>3 DEF IInv

-----------------------------------------------------------------------------
(* Steps that commit nothing.                                              *)

\* What is committed says nothing new when nothing is committed.
LEMMA RowsSame ==
    ASSUME RowsInv, UNCHANGED rows
    PROVE  RowsInv'
<1> USE DEF rows
<1>1. LedgerTruthful'
  BY DEF RowsInv, LedgerTruthful, BalanceBefore
<1>2. OneJobPerKey'
  BY DEF RowsInv, OneJobPerKey, Exists
<1>3. PaidOnce'
  BY DEF RowsInv, PaidOnce, NoSecondRow, HasRow, IsRow, Exists
<1>4. RefundMatchesCancel'
  BY DEF RowsInv, RefundMatchesCancel, NoSecondRow, HasRow, IsRow, Exists
<1> QED
  BY <1>1, <1>2, <1>3, <1>4 DEF RowsInv

LEMMA SubmitInv ==
    ASSUME IInv, NEW c \in Starts, Submit(c)
    PROVE  IInv'
<1> USE DEF IInv, Goto, Calls
<1>1. TypeOK'
  BY DEF TypeOK, Submit, rows, Steps, StartTx, CancelTx, Ended, Requests, Answer, JobRows, Exists, JobsOf, HasCredit
<1>2. TxnInv'
  BY CallsAssumption
  DEF TxnInv, TypeOK, Submit, rows, StartKnows, CancelKnows, OneSlotHolder, OneJobHolder, OneOrgHolder,
      SlotLocked, JobLocked, OrgLocked, Conflicts, Cancellable, HasCredit, Exists, JobsOf,
      StartTx, CancelTx, OrgTx, Ended, Requests
<1>3. RowsInv'
  BY RowsSame DEF Submit
<1> QED
  BY <1>1, <1>2, <1>3

LEMMA InsertJobInv ==
    ASSUME IInv, NEW c \in Starts, InsertJob(c)
    PROVE  IInv'
<1> USE DEF IInv, Goto, Calls
<1>1. TypeOK'
  BY DEF TypeOK, InsertJob, rows, Steps, StartTx, CancelTx, Ended, Requests, Answer, JobRows, Exists, JobsOf, HasCredit
<1>2. TxnInv'
  <2> USE CallsAssumption DEF TxnInv, TypeOK, InsertJob, rows
  <2>1. ASSUME NEW d \in Starts PROVE StartKnows(d)'
    BY DEF StartKnows, OneSlotHolder, SlotLocked, OrgLocked, Conflicts, HasCredit, JobsOf, Exists,
           StartTx, OrgTx, CancelTx, Ended
  <2>2. ASSUME NEW d \in Cancels PROVE CancelKnows(d)'
    BY DEF CancelKnows, Exists, Cancellable, StartTx, OrgTx, CancelTx, Ended, OrgLocked, Requests
  <2>3. OneSlotHolder'
    <3>1. ASSUME NEW d \in Starts, d # c, pc'[c] \in StartTx, pc[d] \in StartTx,
                 req[d].org = req[c].org, req[d].key = req[c].key
          PROVE  FALSE
      BY <3>1 DEF SlotLocked, StartTx
    <3>2. \A d \in Starts : d # c => pc'[d] = pc[d]
      OBVIOUS
    <3> QED
      BY <3>1, <3>2 DEF OneSlotHolder
  <2>4. OneJobHolder'
    BY DEF OneJobHolder, JobLocked, CancelTx
  <2>5. OneOrgHolder'
    BY DEF OneOrgHolder, OrgLocked, OrgTx, StartTx, CancelTx
  <2>6. (\A j \in failing : Exists(j))'
    BY DEF Exists
  <2> QED
    BY <2>1, <2>2, <2>3, <2>4, <2>5, <2>6
<1>3. RowsInv'
  BY RowsSame DEF InsertJob
<1> QED
  BY <1>1, <1>2, <1>3

LEMMA ReplayInv ==
    ASSUME IInv, NEW c \in Starts, Replay(c)
    PROVE  IInv'
<1> USE DEF IInv, Goto, Calls
<1>1. JobsOf(req[c].org, req[c].key) # {}
  BY DEF TxnInv, StartKnows, Replay, Existing
<1>2. PICK j \in JobsOf(req[c].org, req[c].key) : Answer(c, j, TRUE)
  BY <1>1 DEF Replay, Existing
<1>3. /\ j \in Starts
      /\ jobs[j] \in JobRows
  BY <1>2 DEF JobsOf, Exists, TypeOK
<1>4. pc' = [pc EXCEPT ![c] = "committed"]
  BY <1>1 DEF Replay, Existing
<1>5. TypeOK'
  BY <1>2, <1>3, <1>4
  DEF TypeOK, Replay, Existing, rows, Steps, Answer, JobRows
<1>6. TxnInv'
  BY <1>4, CallsAssumption
  DEF TxnInv, TypeOK, Replay, Existing, rows, StartKnows, CancelKnows, OneSlotHolder, OneJobHolder,
      OneOrgHolder, Cancellable, Exists, JobsOf, StartTx, CancelTx, OrgTx, Ended
<1>7. RowsInv'
  BY RowsSame DEF Replay, Existing
<1> QED
  BY <1>5, <1>6, <1>7

LEMMA ChargeCreditInv ==
    ASSUME IInv, NEW c \in Starts, ChargeCredit(c)
    PROVE  IInv'
<1> USE DEF IInv, Goto, Calls
<1>1. TypeOK'
  BY DEF TypeOK, TxnInv, StartKnows, ChargeCredit, rows, Steps, StartTx, CancelTx, Requests, Answer, JobRows,
         Exists, HasCredit
<1>2. TxnInv'
  <2> USE CallsAssumption DEF TxnInv, TypeOK, ChargeCredit, rows
  <2>1. ASSUME NEW d \in Starts PROVE StartKnows(d)'
    BY DEF StartKnows, OneSlotHolder, SlotLocked, OrgLocked, Conflicts, HasCredit, JobsOf, Exists,
           StartTx, OrgTx, CancelTx, Ended
  <2>2. ASSUME NEW d \in Cancels PROVE CancelKnows(d)'
    BY DEF CancelKnows, Exists, Cancellable, StartTx, OrgTx, CancelTx, Ended, OrgLocked, Requests
  <2>3. OneSlotHolder'
    BY DEF OneSlotHolder, SlotLocked, StartKnows, StartTx, Conflicts, JobsOf
  <2>4. OneJobHolder'
    BY DEF OneJobHolder, JobLocked, CancelTx
  <2>5. OneOrgHolder'
    BY DEF OneOrgHolder, OrgLocked, OrgTx, StartTx, CancelTx
  <2>6. (\A j \in failing : Exists(j))'
    BY DEF Exists
  <2> QED
    BY <2>1, <2>2, <2>3, <2>4, <2>5, <2>6
<1>3. RowsInv'
  BY RowsSame DEF ChargeCredit
<1> QED
  BY <1>1, <1>2, <1>3

LEMMA RefuseInv ==
    ASSUME IInv, NEW c \in Starts, Refuse(c)
    PROVE  IInv'
<1> USE DEF IInv, Goto, Calls
<1>1. TypeOK'
  BY DEF TypeOK, Refuse, rows, Steps, StartTx, CancelTx, Ended, Requests, Answer, JobRows, Exists, JobsOf, HasCredit
<1>2. TxnInv'
  BY CallsAssumption
  DEF TxnInv, TypeOK, Refuse, rows, StartKnows, CancelKnows, OneSlotHolder, OneJobHolder, OneOrgHolder,
      SlotLocked, JobLocked, OrgLocked, Conflicts, Cancellable, HasCredit, Exists, JobsOf,
      StartTx, CancelTx, OrgTx, Ended, Requests
<1>3. RowsInv'
  BY RowsSame DEF Refuse
<1> QED
  BY <1>1, <1>2, <1>3

LEMMA AskCancelInv ==
    ASSUME IInv, NEW c \in Cancels, AskCancel(c)
    PROVE  IInv'
<1> USE DEF IInv, Goto, Calls
<1>1. TypeOK'
  BY DEF TypeOK, AskCancel, rows, Steps, StartTx, CancelTx, Ended, Requests, Answer, JobRows, Exists, JobsOf, HasCredit
<1>2. TxnInv'
  BY CallsAssumption
  DEF TxnInv, TypeOK, AskCancel, rows, StartKnows, CancelKnows, OneSlotHolder, OneJobHolder, OneOrgHolder,
      SlotLocked, JobLocked, OrgLocked, Conflicts, Cancellable, HasCredit, Exists, JobsOf,
      StartTx, CancelTx, OrgTx, Ended, Requests
<1>3. RowsInv'
  BY RowsSame DEF AskCancel
<1> QED
  BY <1>1, <1>2, <1>3

LEMMA FlipJobInv ==
    ASSUME IInv, NEW c \in Cancels, FlipJob(c)
    PROVE  IInv'
<1> USE DEF IInv, Goto, Calls
<1>1. TypeOK'
  BY DEF TypeOK, FlipJob, rows, Steps, StartTx, CancelTx, Ended, Requests, Answer, JobRows, Exists, JobsOf, HasCredit
<1>2. TxnInv'
  BY CallsAssumption
  DEF TxnInv, TypeOK, FlipJob, rows, StartKnows, CancelKnows, OneSlotHolder, OneJobHolder, OneOrgHolder,
      SlotLocked, JobLocked, OrgLocked, Conflicts, Cancellable, HasCredit, Exists, JobsOf,
      StartTx, CancelTx, OrgTx, Ended, Requests
<1>3. RowsInv'
  BY RowsSame DEF FlipJob
<1> QED
  BY <1>1, <1>2, <1>3

LEMMA RefundCreditInv ==
    ASSUME IInv, NEW c \in Cancels, RefundCredit(c)
    PROVE  IInv'
<1> USE DEF IInv, Goto, Calls
<1>1. TypeOK'
  BY DEF TypeOK, TxnInv, CancelKnows, RefundCredit, rows, Steps, StartTx, CancelTx, Requests, Answer, JobRows,
         Exists, HasCredit
<1>2. TxnInv'
  <2> USE CallsAssumption DEF TxnInv, TypeOK, RefundCredit, rows
  <2>1. ASSUME NEW d \in Starts PROVE StartKnows(d)'
    BY DEF StartKnows, OneSlotHolder, SlotLocked, OrgLocked, Conflicts, HasCredit, JobsOf, Exists,
           StartTx, OrgTx, CancelTx, Ended
  <2>2. ASSUME NEW d \in Cancels PROVE CancelKnows(d)'
    BY DEF CancelKnows, Exists, Cancellable, StartTx, OrgTx, CancelTx, Ended, OrgLocked, Requests
  <2>3. OneSlotHolder'
    BY DEF OneSlotHolder, SlotLocked, StartKnows, StartTx, Conflicts, JobsOf
  <2>4. OneJobHolder'
    BY DEF OneJobHolder, JobLocked, CancelTx
  <2>5. OneOrgHolder'
    BY DEF OneOrgHolder, OrgLocked, OrgTx, StartTx, CancelTx
  <2>6. (\A j \in failing : Exists(j))'
    BY DEF Exists
  <2> QED
    BY <2>1, <2>2, <2>3, <2>4, <2>5, <2>6
<1>3. RowsInv'
  BY RowsSame DEF RefundCredit
<1> QED
  BY <1>1, <1>2, <1>3

LEMMA RereadInv ==
    ASSUME IInv, NEW c \in Cancels, Reread(c)
    PROVE  IInv'
<1> USE DEF IInv, Goto, Calls
<1>1. TypeOK'
  <2>1. req[c].job \in Starts
    BY DEF TypeOK, TxnInv, CancelKnows, Reread, Requests
  <2>2. Exists(req[c].job) => jobs[req[c].job].status \in Statuses
    BY <2>1 DEF TypeOK, Exists, JobRows
  <2>3. answer' \in [Calls -> [job : Starts \cup {Null}, status : Statuses \cup {"none"},
                              replayed : BOOLEAN]]
    <3>1. CASE Exists(req[c].job) /\ jobs[req[c].job].org = req[c].org
      <4>1. [job |-> req[c].job, status |-> jobs[req[c].job].status, replayed |-> FALSE]
            \in [job : Starts \cup {Null}, status : Statuses \cup {"none"}, replayed : BOOLEAN]
        BY <2>1, <2>2, <3>1
      <4>2. answer' = [answer EXCEPT ![c] = [job |-> req[c].job,
                                             status |-> jobs[req[c].job].status,
                                             replayed |-> FALSE]]
        BY <3>1 DEF Reread, Answer
      <4> QED
        BY <4>1, <4>2 DEF TypeOK
    <3>2. CASE ~(Exists(req[c].job) /\ jobs[req[c].job].org = req[c].org)
      BY <3>2 DEF TypeOK, Reread
    <3> QED
      BY <3>1, <3>2
  <2>4. pc' \in [Calls -> Steps]
    BY DEF TypeOK, Reread, Steps
  <2> QED
    BY <2>3, <2>4 DEF TypeOK, Reread, rows
<1>2. TxnInv'
  BY CallsAssumption
  DEF TxnInv, TypeOK, Reread, rows, StartKnows, CancelKnows, OneSlotHolder, OneJobHolder, OneOrgHolder,
      SlotLocked, JobLocked, OrgLocked, Conflicts, Cancellable, HasCredit, Exists, JobsOf,
      StartTx, CancelTx, OrgTx, Ended, Requests
<1>3. RowsInv'
  BY RowsSame DEF Reread
<1> QED
  BY <1>1, <1>2, <1>3

LEMMA RespondInv ==
    ASSUME IInv, NEW c \in Calls, Respond(c)
    PROVE  IInv'
<1> USE DEF IInv, Goto, Calls
<1>1. TypeOK'
  BY DEF TypeOK, Respond, rows, Steps, StartTx, CancelTx, Ended, Requests, Answer, JobRows, Exists, JobsOf, HasCredit
<1>2. TxnInv'
  BY CallsAssumption
  DEF TxnInv, TypeOK, Respond, rows, StartKnows, CancelKnows, OneSlotHolder, OneJobHolder, OneOrgHolder,
      SlotLocked, JobLocked, OrgLocked, Conflicts, Cancellable, HasCredit, Exists, JobsOf,
      StartTx, CancelTx, OrgTx, Ended, Requests
<1>3. RowsInv'
  BY RowsSame DEF Respond
<1> QED
  BY <1>1, <1>2, <1>3

LEMMA AbortInv ==
    ASSUME IInv, NEW c \in Calls, Abort(c)
    PROVE  IInv'
<1> USE DEF IInv, Goto, Calls
<1>1. TypeOK'
  BY DEF TypeOK, Abort, rows, Steps, StartTx, CancelTx, Ended, Requests, Answer, JobRows, Exists, JobsOf, HasCredit
<1>2. TxnInv'
  BY CallsAssumption
  DEF TxnInv, TypeOK, Abort, rows, StartKnows, CancelKnows, OneSlotHolder, OneJobHolder, OneOrgHolder,
      SlotLocked, JobLocked, OrgLocked, Conflicts, Cancellable, HasCredit, Exists, JobsOf,
      StartTx, CancelTx, OrgTx, Ended, Requests
<1>3. RowsInv'
  BY RowsSame DEF Abort
<1> QED
  BY <1>1, <1>2, <1>3

LEMMA LoseAnswerInv ==
    ASSUME IInv, NEW c \in Calls, LoseAnswer(c)
    PROVE  IInv'
<1> USE DEF IInv, Goto, Calls
<1>1. TypeOK'
  BY DEF TypeOK, LoseAnswer, rows, Steps, StartTx, CancelTx, Ended, Requests, Answer, JobRows, Exists, JobsOf, HasCredit
<1>2. TxnInv'
  BY CallsAssumption
  DEF TxnInv, TypeOK, LoseAnswer, rows, StartKnows, CancelKnows, OneSlotHolder, OneJobHolder, OneOrgHolder,
      SlotLocked, JobLocked, OrgLocked, Conflicts, Cancellable, HasCredit, Exists, JobsOf,
      StartTx, CancelTx, OrgTx, Ended, Requests
<1>3. RowsInv'
  BY RowsSame DEF LoseAnswer
<1> QED
  BY <1>1, <1>2, <1>3


-----------------------------------------------------------------------------
(* The worker's writes.                                                    *)

LEMMA ReadForFailInv ==
    ASSUME IInv, NEW j \in Starts, ReadForFail(j)
    PROVE  IInv'
<1>1. TypeOK'
  BY DEF IInv, TypeOK, ReadForFail, rows
<1>2. TxnInv'
  BY DEF IInv, TxnInv, ReadForFail, rows, StartKnows, CancelKnows, OneSlotHolder, OneJobHolder,
         OneOrgHolder, Cancellable, Exists, JobsOf
<1>3. RowsInv'
  BY RowsSame DEF IInv, ReadForFail
<1> QED
  BY <1>1, <1>2, <1>3 DEF IInv

\* What an UPDATE of the status of job j leaves as it was, and what it sets.
Relabelled(j, s) ==
    /\ jobs' \in [Starts -> JobRows \cup {Null}]
    /\ \A i \in Starts : jobs'[i] = Null <=> jobs[i] = Null
    /\ \A i \in Starts : i # j => jobs'[i] = jobs[i]
    /\ \A i \in Starts : jobs[i] # Null => /\ jobs'[i].org = jobs[i].org
                                           /\ jobs'[i].key = jobs[i].key
    /\ jobs'[j].status = s

LEMMA StatusWrite ==
    ASSUME TypeOK, NEW j \in Starts, Exists(j), NEW s \in Statuses,
           jobs' = [jobs EXCEPT ![j].status = s]
    PROVE  Relabelled(j, s)
<1>1. jobs[j] \in JobRows
  BY DEF TypeOK, Exists
<1>2. /\ jobs'[j] \in JobRows
      /\ jobs'[j].org = jobs[j].org
      /\ jobs'[j].key = jobs[j].key
      /\ jobs'[j].status = s
  BY <1>1 DEF TypeOK, JobRows
<1>3. \A i \in Starts : i # j => jobs'[i] = jobs[i]
  BY DEF TypeOK
<1>4. jobs' \in [Starts -> JobRows \cup {Null}]
  BY <1>2, <1>3 DEF TypeOK
<1> HIDE DEF JobRows
<1>5. \A i \in Starts : jobs'[i] = Null <=> jobs[i] = Null
  BY <1>1, <1>2, <1>3, NullAssumption
<1> QED
  BY <1>2, <1>3, <1>4, <1>5 DEF Relabelled

\* The worker may write any status but 'cancelled' to a job no cancel has locked, if a
\* refunded job only becomes failed.
LEMMA WorkerWrite ==
    ASSUME IInv, NEW j \in Starts, ~JobLocked(j),
           NEW s \in Statuses \ {"cancelled"},
           s = "failed" \/ jobs[j].status \in Running,
           jobs[j] # Null, Relabelled(j, s),
           failing' \in SUBSET failing,
           UNCHANGED <<credits, ledger, pc, req, balance, answer>>
    PROVE  IInv'
<1> USE DEF IInv, Relabelled
<1>1. TypeOK'
  BY DEF TypeOK
<1>2. TxnInv'
  <2>1. \A o, k : JobsOf(o, k)' = JobsOf(o, k)
    BY DEF JobsOf, Exists
  <2>2. ASSUME NEW c \in Starts PROVE StartKnows(c)'
    <3>1. StartKnows(c)
      BY DEF TxnInv
    <3> QED
      BY <2>1, <3>1 DEF StartKnows
  <2>3. ASSUME NEW c \in Cancels PROVE CancelKnows(c)'
    <3>1. CancelKnows(c)
      BY DEF TxnInv
    <3>2. pc[c] # "idle" => req[c].job \in Starts
      BY <3>1 DEF CancelKnows, Requests
    <3>3. pc[c] \in CancelTx => req[c].job # j /\ pc[c] # "idle"
      BY DEF JobLocked, CancelTx
    <3> QED
      BY <3>1, <3>2, <3>3 DEF CancelKnows, Cancellable, Exists
  <2>4. \A i \in failing' : jobs'[i] # Null
    BY DEF TxnInv, TypeOK, Exists
  <2>5. OneSlotHolder' /\ OneJobHolder' /\ OneOrgHolder'
    BY DEF TxnInv, OneSlotHolder, OneJobHolder, OneOrgHolder
  <2> QED
    BY <2>2, <2>3, <2>4, <2>5 DEF TxnInv, Exists
<1>3. RowsInv'
  <2>1. LedgerTruthful'
    BY DEF RowsInv, LedgerTruthful, BalanceBefore
  <2>2. OneJobPerKey'
    BY DEF RowsInv, OneJobPerKey, Exists
  <2>3. PaidOnce'
    BY DEF RowsInv, PaidOnce, Exists, HasRow, NoSecondRow, IsRow
  <2>4. RefundMatchesCancel'
    <3>1. NoSecondRow("refund")'
      BY DEF RowsInv, RefundMatchesCancel, NoSecondRow, IsRow
    <3>2. ASSUME NEW o \in Orgs, NEW i \in Starts, HasRow(o, i, "refund")'
          PROVE  /\ jobs'[i] # Null
                 /\ jobs'[i].org = o
                 /\ jobs'[i].status \in {"cancelled", "failed"}
      <4>1. HasRow(o, i, "refund")
        BY <3>2 DEF HasRow, IsRow
      <4> QED
        BY <4>1 DEF RowsInv, RefundMatchesCancel, Running, Exists
    <3>3. ASSUME NEW i \in Starts, jobs'[i] # Null, jobs'[i].status = "cancelled"
          PROVE  HasRow(jobs[i].org, i, "refund")' /\ jobs'[i].org = jobs[i].org
      <4>1. HasRow(jobs[i].org, i, "refund")
        BY <3>3 DEF RowsInv, RefundMatchesCancel, Exists
      <4> QED
        BY <3>3, <4>1 DEF HasRow, IsRow
    <3> QED
      BY <3>1, <3>2, <3>3 DEF RefundMatchesCancel, Exists, HasRow, IsRow
  <2> QED
    BY <2>1, <2>2, <2>3, <2>4 DEF RowsInv
<1> QED
  BY <1>1, <1>2, <1>3

LEMMA AdvanceInv ==
    ASSUME IInv, NEW j \in Starts, Advance(j)
    PROVE  IInv'
<1>1. PICK m \in StageMoves : /\ jobs[j].status = m[1]
                             /\ jobs' = [jobs EXCEPT ![j].status = m[2]]
  BY DEF Advance
<1>2. /\ m[1] \in Running
      /\ m[2] \in Statuses \ {"cancelled"}
  BY DEF StageMoves, Running, Statuses, Terminal
<1> QED
  BY <1>1, <1>2, StatusWrite, WorkerWrite DEF Advance, IInv, TypeOK, Exists, Statuses

LEMMA WriteFailInv ==
    ASSUME IInv, NEW j \in Starts, WriteFail(j)
    PROVE  IInv'
<1>1. Exists(j)
  BY DEF IInv, TxnInv, WriteFail
<1> QED
  BY <1>1, StatusWrite, WorkerWrite DEF WriteFail, IInv, TypeOK, Exists, Statuses, Terminal

-----------------------------------------------------------------------------
(* Commits that book a ledger row.                                         *)

\* What an INSERT INTO credit_ledger adds to the ledger of o, and what it leaves.
Booked(o, row) ==
    /\ ledger' \in [Orgs -> Seq(Entries)]
    /\ \A p \in Orgs : p # o => ledger'[p] = ledger[p]
    /\ Len(ledger[o]) \in Nat
    /\ Len(ledger'[o]) = Len(ledger[o]) + 1
    /\ \A i \in 1..Len(ledger[o]) : ledger'[o][i] = ledger[o][i]
    /\ ledger'[o][Len(ledger[o]) + 1] = row

LEMMA AppendBooks ==
    ASSUME TypeOK, NEW o \in Orgs, NEW row \in Entries,
           ledger' = [ledger EXCEPT ![o] = Append(ledger[o], row)]
    PROVE  Booked(o, row)
<1>1. ledger[o] \in Seq(Entries)
  BY DEF TypeOK
<1>2. ledger'[o] = Append(ledger[o], row)
  BY DEF TypeOK
<1>3. \A p \in Orgs : p # o => ledger'[p] = ledger[p]
  BY DEF TypeOK
<1> HIDE DEF Entries
<1>4. /\ Append(ledger[o], row) \in Seq(Entries)
      /\ Len(ledger[o]) \in Nat
      /\ Len(Append(ledger[o], row)) = Len(ledger[o]) + 1
      /\ \A i \in 1..Len(ledger[o]) : Append(ledger[o], row)[i] = ledger[o][i]
      /\ Append(ledger[o], row)[Len(ledger[o]) + 1] = row
  BY <1>1
<1>5. ledger' \in [Orgs -> Seq(Entries)]
  BY <1>2, <1>4 DEF TypeOK
<1> QED
  BY <1>2, <1>3, <1>4, <1>5 DEF Booked

\* A row whose balance follows from the organization's credits keeps the ledger truthful.
LEMMA BookedTruthful ==
    ASSUME TypeOK, LedgerTruthful, NEW o \in Orgs, NEW row \in Entries, Booked(o, row),
           credits' = [credits EXCEPT ![o] = row.balanceAfter],
           row.balanceAfter = credits[o] + row.delta
    PROVE  LedgerTruthful'
<1>1. ASSUME NEW p \in Orgs, p # o
      PROVE  /\ \A i \in 1..Len(ledger'[p]) :
                    ledger'[p][i].balanceAfter = BalanceBefore(p, i)' + ledger'[p][i].delta
             /\ credits'[p] = BalanceBefore(p, Len(ledger[p]) + 1)'
  BY <1>1 DEF TypeOK, LedgerTruthful, Booked, BalanceBefore
<1>2. \A i \in 1..Len(ledger[o]) + 1 : BalanceBefore(o, i)' = BalanceBefore(o, i)
  BY DEF Booked, BalanceBefore
<1>3. BalanceBefore(o, Len(ledger[o]) + 1)' = row.balanceAfter
  BY DEF Booked, BalanceBefore
<1>4. ASSUME NEW i \in 1..Len(ledger'[o])
      PROVE  ledger'[o][i].balanceAfter = BalanceBefore(o, i)' + ledger'[o][i].delta
  <2>1. CASE i \in 1..Len(ledger[o])
    BY <1>2, <2>1 DEF LedgerTruthful, Booked
  <2>2. CASE i = Len(ledger[o]) + 1
    BY <1>2, <2>2 DEF LedgerTruthful, Booked
  <2> QED
    BY <2>1, <2>2 DEF Booked
<1>5. credits'[o] = row.balanceAfter
  BY DEF TypeOK
<1> QED
  BY <1>1, <1>3, <1>4, <1>5 DEF LedgerTruthful, Booked

\* The rows there are after a booking.
LEMMA BookedRows ==
    ASSUME NEW o \in Orgs, NEW row, Booked(o, row)
    PROVE  \A p \in Orgs : \A j, r :
               HasRow(p, j, r)' <=> HasRow(p, j, r) \/ (p = o /\ row.job = j /\ row.reason = r)
<1> SUFFICES ASSUME NEW p \in Orgs, NEW j, NEW r
             PROVE  HasRow(p, j, r)' <=> HasRow(p, j, r) \/ (p = o /\ row.job = j /\ row.reason = r)
  OBVIOUS
<1>1. CASE p # o
  BY <1>1 DEF Booked, HasRow, IsRow
<1>2. CASE p = o
  <2>1. ASSUME NEW i \in 1..Len(ledger[o]), IsRow(o, i, j, r)
        PROVE  HasRow(o, j, r)'
    <3>1. IsRow(o, i, j, r)'
      BY <2>1 DEF Booked, IsRow
    <3> QED
      BY <3>1 DEF HasRow, IsRow
  <2>2. ASSUME row.job = j, row.reason = r
        PROVE  HasRow(o, j, r)'
    BY <2>2 DEF Booked, HasRow, IsRow
  <2>3. ASSUME NEW i \in 1..Len(ledger'[o]), IsRow(o, i, j, r)'
        PROVE  HasRow(o, j, r) \/ (row.job = j /\ row.reason = r)
    <3>1. CASE i = Len(ledger[o]) + 1
      BY <2>3, <3>1 DEF Booked, IsRow
    <3>2. CASE i \in 1..Len(ledger[o])
      <4>1. IsRow(o, i, j, r)
        BY <2>3, <3>2 DEF Booked, IsRow
      <4> QED
        BY <3>2, <4>1 DEF HasRow
    <3> QED
      BY <3>1, <3>2 DEF Booked
  <2> QED
    BY <1>2, <2>1, <2>2, <2>3 DEF HasRow
<1> QED
  BY <1>1, <1>2

\* A row that nobody has is not a second one.
LEMMA BookedOnce ==
    ASSUME NEW o \in Orgs, NEW row \in Entries, Booked(o, row),
           NEW r, NoSecondRow(r),
           row.reason = r => \A p \in Orgs : ~HasRow(p, row.job, r)
    PROVE  NoSecondRow(r)'
<1> SUFFICES ASSUME NEW p \in Orgs, NEW q \in Orgs, NEW j \in Starts,
                    NEW i \in 1..Len(ledger'[p]), NEW k \in 1..Len(ledger'[q]),
                    IsRow(p, i, j, r)', IsRow(q, k, j, r)'
             PROVE  p = q /\ i = k
  BY DEF NoSecondRow
<1>1. IsRow(p, i, j, r) \/ (p = o /\ i = Len(ledger[o]) + 1 /\ row.reason = r /\ row.job = j)
  BY DEF Booked, IsRow
<1>2. IsRow(q, k, j, r) \/ (q = o /\ k = Len(ledger[o]) + 1 /\ row.reason = r /\ row.job = j)
  BY DEF Booked, IsRow
<1>3. CASE IsRow(p, i, j, r) /\ IsRow(q, k, j, r)
  BY <1>3 DEF NoSecondRow, IsRow
<1>4. CASE ~IsRow(p, i, j, r)
  BY <1>1, <1>2, <1>4 DEF HasRow, IsRow
<1>5. CASE ~IsRow(q, k, j, r)
  BY <1>1, <1>2, <1>5 DEF HasRow, IsRow
<1> QED
  BY <1>3, <1>4, <1>5

LEMMA CommitStartInv ==
    ASSUME IInv, NEW c \in Starts, CommitStart(c)
    PROVE  IInv'
<1> DEFINE o == req[c].org
           k == req[c].key
           job == [org |-> o, key |-> k, status |-> "queued"]
           row == [job |-> c, reason |-> "search_charge", delta |-> -1,
                   balanceAfter |-> balance[c]]
<1>1. TypeOK /\ TxnInv /\ LedgerTruthful /\ OneJobPerKey /\ PaidOnce /\ RefundMatchesCancel
  BY DEF IInv, RowsInv
<1>2. /\ pc[c] = "charge_row"
      /\ pc' = [pc EXCEPT ![c] = "committed"]
      /\ jobs' = [jobs EXCEPT ![c] = job]
      /\ credits' = [credits EXCEPT ![o] = row.balanceAfter]
      /\ ledger' = [ledger EXCEPT ![o] = Append(ledger[o], row)]
      /\ answer' = [answer EXCEPT ![c] = [job |-> c, status |-> "queued", replayed |-> FALSE]]
      /\ UNCHANGED <<failing, req, balance>>
  BY DEF CommitStart, Goto
<1>3. /\ o \in Orgs
      /\ k \in Keys
      /\ jobs[c] = Null
      /\ JobsOf(o, k) = {}
      /\ credits[o] \in Nat
      /\ row.balanceAfter = credits[o] - 1
      /\ row.balanceAfter \in Nat
  BY <1>1, <1>2 DEF TxnInv, StartKnows, StartTx, TypeOK, Calls
<1>4. row \in Entries /\ job \in JobRows
  BY <1>3 DEF Entries, Reasons, JobRows, Statuses, Running
<1>5. job # Null
  BY <1>4, NullAssumption
<1>6. /\ jobs'[c] = job
      /\ \A i \in Starts \ {c} : jobs'[i] = jobs[i]
      /\ \A i \in Starts : Exists(i) => i # c
  BY <1>1, <1>2, <1>3 DEF TypeOK, Exists
<1>7. Booked(o, row)
  BY <1>1, <1>2, <1>3, <1>4, AppendBooks
<1>8. TypeOK'
  <2>1. jobs' \in [Starts -> JobRows \cup {Null}]
    BY <1>1, <1>2, <1>4 DEF TypeOK
  <2>2. credits' \in [Orgs -> Nat]
    BY <1>1, <1>2, <1>3 DEF TypeOK
  <2>3. pc' \in [Calls -> Steps]
    BY <1>1, <1>2 DEF TypeOK, Steps
  <2>4. answer' \in [Calls -> [job : Starts \cup {Null}, status : Statuses \cup {"none"},
                              replayed : BOOLEAN]]
    <3>1. [job |-> c, status |-> "queued", replayed |-> FALSE]
          \in [job : Starts \cup {Null}, status : Statuses \cup {"none"}, replayed : BOOLEAN]
      BY DEF Statuses, Running
    <3> QED
      BY <1>1, <1>2, <3>1 DEF TypeOK
  <2> QED
    BY <1>1, <1>2, <1>7, <2>1, <2>2, <2>3, <2>4 DEF TypeOK, Booked
<1>9. TxnInv'
  <2>1. \A p \in Orgs : \A q : JobsOf(p, q)' = IF p = o /\ q = k THEN {c} ELSE JobsOf(p, q)
    BY <1>3, <1>5, <1>6 DEF JobsOf, Exists
  <2>2. \A d \in Calls : d # c => pc'[d] = pc[d]
    BY <1>1, <1>2 DEF TypeOK
  <2>3. pc'[c] = "committed"
    BY <1>1, <1>2 DEF TypeOK, Calls
  <2>4. \A d \in Calls : d # c /\ pc[d] \in OrgTx /\ req[d].org \in Orgs
                         => credits'[req[d].org] = credits[req[d].org]
    BY <1>1, <1>2 DEF TxnInv, OneOrgHolder, OrgTx, TypeOK, Calls
  <2>5. ASSUME NEW d \in Starts PROVE StartKnows(d)'
    <3>1. CASE d = c
      BY <1>1, <1>2, <2>3, <3>1 DEF TxnInv, StartKnows, StartTx, Ended
    <3>2. CASE d # c
      <4>1. pc'[d] = pc[d] /\ jobs'[d] = jobs[d] /\ StartKnows(d)
        BY <1>1, <1>6, <2>2, <3>2 DEF TxnInv, Calls
      <4>2. pc[d] \in StartTx => ~(req[d].org = o /\ req[d].key = k)
        BY <1>1, <1>2, <3>2 DEF TxnInv, OneSlotHolder, StartTx
      <4>3. pc[d] \in StartTx \cup {"replay"} => req[d].org \in Orgs /\ req[d].key \in Keys
        BY <4>1 DEF StartKnows, StartTx
      <4>4. pc[d] \in StartTx => JobsOf(req[d].org, req[d].key)' = {}
        BY <1>2, <2>1, <4>1, <4>2, <4>3 DEF StartKnows
      <4>5. pc[d] = "replay" => JobsOf(req[d].org, req[d].key)' # {}
        BY <1>2, <2>1, <4>1, <4>3 DEF StartKnows
      <4>6. pc[d] = "charge_row" => credits'[req[d].org] = credits[req[d].org]
        BY <2>4, <3>2, <4>3 DEF StartTx, OrgTx, Calls
      <4> QED
        BY <1>2, <4>1, <4>4, <4>5, <4>6 DEF StartKnows
    <3> QED
      BY <3>1, <3>2
  <2>6. ASSUME NEW d \in Cancels PROVE CancelKnows(d)'
    <3>1. d # c /\ pc'[d] = pc[d] /\ CancelKnows(d)
      BY <1>1, <2>2, CallsAssumption DEF TxnInv, Calls
    <3>2. pc[d] # "idle" => /\ req[d].job \in Starts
                            /\ req[d].org \in Orgs
                            /\ jobs'[req[d].job] = jobs[req[d].job]
      BY <1>6, <3>1 DEF CancelKnows, Requests
    <3>3. pc[d] = "refund_row" => credits'[req[d].org] = credits[req[d].org]
      BY <2>4, <3>1, <3>2 DEF OrgTx, Calls
    <3>4. pc[d] \in CancelTx => pc[d] # "idle"
      BY DEF CancelTx
    <3> QED
      BY <1>2, <3>1, <3>2, <3>3, <3>4 DEF CancelKnows, Cancellable, Exists
  <2>7. \A i \in failing' : jobs'[i] # Null
    BY <1>1, <1>2, <1>5, <1>6 DEF TxnInv, TypeOK, Exists
  <2>8. OneSlotHolder'
    BY <1>1, <1>2, <2>2, <2>3 DEF TxnInv, OneSlotHolder, StartTx, Calls
  <2>9. OneJobHolder'
    BY <1>1, <1>2, <2>2, CallsAssumption DEF TxnInv, OneJobHolder, Calls
  <2>10. OneOrgHolder'
    BY <1>1, <1>2, <2>2, <2>3 DEF TxnInv, OneOrgHolder, OrgTx
  <2> QED
    BY <2>5, <2>6, <2>7, <2>8, <2>9, <2>10 DEF TxnInv, Exists
<1>10. RowsInv'
  <2>1. LedgerTruthful'
    BY <1>1, <1>2, <1>3, <1>4, <1>7, BookedTruthful
  <2>2. OneJobPerKey'
    <3>1. \A i \in Starts \ {c} : ~(jobs[i] # Null /\ jobs[i].org = o /\ jobs[i].key = k)
      BY <1>3 DEF JobsOf, Exists
    <3> QED
      BY <1>1, <1>6, <3>1 DEF OneJobPerKey, Exists
  <2>3. \A p \in Orgs : \A j, r :
            HasRow(p, j, r)' <=> HasRow(p, j, r) \/ (p = o /\ c = j /\ r = "search_charge")
    <3>1. row.job = c /\ row.reason = "search_charge"
      OBVIOUS
    <3> HIDE DEF row, o
    <3> QED
      BY <1>3, <1>7, <3>1, BookedRows
  <2>4. \A p \in Orgs, r \in Reasons : ~HasRow(p, c, r)
    BY <1>1, <1>3 DEF PaidOnce, RefundMatchesCancel, Reasons, Exists
  <2>5. NoSecondRow("search_charge")' /\ NoSecondRow("refund")'
    BY <1>1, <1>3, <1>4, <1>7, <2>4, BookedOnce DEF PaidOnce, RefundMatchesCancel, Reasons
  <2>6. PaidOnce'
    <3>1. ASSUME NEW p \in Orgs, NEW j \in Starts
          PROVE  HasRow(p, j, "search_charge")' <=> jobs'[j] # Null /\ jobs'[j].org = p
      <4>1. HasRow(p, j, "search_charge") <=> jobs[j] # Null /\ jobs[j].org = p
        BY <1>1 DEF PaidOnce, Exists
      <4>2. CASE j = c
        BY <1>3, <1>5, <1>6, <2>3, <4>1, <4>2
      <4>3. CASE j # c
        BY <1>6, <2>3, <4>1, <4>3
      <4> QED
        BY <4>2, <4>3
    <3> QED
      BY <2>5, <3>1 DEF PaidOnce, Exists
  <2>7. RefundMatchesCancel'
    <3>1. ASSUME NEW p \in Orgs, NEW j \in Starts, HasRow(p, j, "refund")'
          PROVE  /\ jobs'[j] # Null
                 /\ jobs'[j].org = p
                 /\ jobs'[j].status \in {"cancelled", "failed"}
      <4>1. HasRow(p, j, "refund")
        BY <2>3, <3>1
      <4> QED
        BY <1>1, <1>3, <1>6, <4>1 DEF RefundMatchesCancel, Exists
    <3>2. ASSUME NEW j \in Starts, NEW p \in Orgs, jobs'[j] # Null, jobs'[j].org = p,
                 jobs'[j].status = "cancelled"
          PROVE  HasRow(p, j, "refund")'
      <4>1. jobs[j] # Null /\ jobs[j].org = p /\ jobs[j].status = "cancelled"
        BY <1>6, <3>2
      <4>2. HasRow(p, j, "refund")
        BY <1>1, <4>1 DEF RefundMatchesCancel, Exists
      <4> QED
        BY <2>3, <4>2
    <3>3. \A j \in Starts : jobs'[j] # Null => jobs'[j].org \in Orgs
      BY <1>8 DEF TypeOK, JobRows
    <3> QED
      BY <2>5, <3>1, <3>2, <3>3 DEF RefundMatchesCancel, Exists, HasRow, IsRow
  <2> QED
    BY <2>1, <2>2, <2>6, <2>7 DEF RowsInv
<1> QED
  BY <1>8, <1>9, <1>10 DEF IInv

LEMMA CommitCancelInv ==
    ASSUME IInv, NEW c \in Cancels, CommitCancel(c)
    PROVE  IInv'
<1> DEFINE o == req[c].org
           j == req[c].job
           row == [job |-> j, reason |-> "refund", delta |-> 1, balanceAfter |-> balance[c]]
<1>1. TypeOK /\ TxnInv /\ LedgerTruthful /\ OneJobPerKey /\ PaidOnce /\ RefundMatchesCancel
  BY DEF IInv, RowsInv
<1>2. /\ pc[c] = "refund_row"
      /\ pc' = [pc EXCEPT ![c] = "committed"]
      /\ jobs' = [jobs EXCEPT ![j].status = "cancelled"]
      /\ credits' = [credits EXCEPT ![o] = row.balanceAfter]
      /\ ledger' = [ledger EXCEPT ![o] = WithRefund(ledger[o], row)]
      /\ answer' = [answer EXCEPT ![c] = [job |-> j, status |-> "cancelled", replayed |-> FALSE]]
      /\ UNCHANGED <<failing, req, balance>>
  BY DEF CommitCancel, Goto
<1>3. /\ o \in Orgs
      /\ j \in Starts
      /\ jobs[j] # Null
      /\ jobs[j].org = o
      /\ jobs[j].status \in Running
      /\ credits[o] \in Nat
      /\ row.balanceAfter = credits[o] + 1
      /\ row.balanceAfter \in Nat
  BY <1>1, <1>2 DEF TxnInv, CancelKnows, Cancellable, Exists, CancelTx, TypeOK, Calls, Requests
<1>4. row \in Entries
  BY <1>3 DEF Entries, Reasons
<1>5. Relabelled(j, "cancelled")
  BY <1>1, <1>2, <1>3, StatusWrite DEF Exists, Statuses, Terminal
<1>6. \A p \in Orgs : ~HasRow(p, j, "refund")
  BY <1>1, <1>3 DEF RefundMatchesCancel, Running
<1>7. WithRefund(ledger[o], row) = Append(ledger[o], row)
  BY <1>3, <1>6 DEF WithRefund, HasRow, IsRow
<1>8. Booked(o, row)
  BY <1>1, <1>2, <1>3, <1>4, <1>7, AppendBooks
<1>9. TypeOK'
  <2>1. credits' \in [Orgs -> Nat]
    BY <1>1, <1>2, <1>3 DEF TypeOK
  <2>2. pc' \in [Calls -> Steps]
    BY <1>1, <1>2 DEF TypeOK, Steps
  <2>3. answer' \in [Calls -> [job : Starts \cup {Null}, status : Statuses \cup {"none"},
                              replayed : BOOLEAN]]
    <3>1. [job |-> j, status |-> "cancelled", replayed |-> FALSE]
          \in [job : Starts \cup {Null}, status : Statuses \cup {"none"}, replayed : BOOLEAN]
      BY <1>3 DEF Statuses, Terminal
    <3> QED
      BY <1>1, <1>2, <3>1 DEF TypeOK
  <2> QED
    BY <1>1, <1>2, <1>5, <1>8, <2>1, <2>2, <2>3 DEF TypeOK, Booked, Relabelled
<1>10. TxnInv'
  <2>1. \A p, q : JobsOf(p, q)' = JobsOf(p, q)
    BY <1>5 DEF JobsOf, Exists, Relabelled
  <2>2. \A d \in Calls : d # c => pc'[d] = pc[d]
    BY <1>1, <1>2 DEF TypeOK
  <2>3. pc'[c] = "committed"
    BY <1>1, <1>2 DEF TypeOK, Calls
  <2>4. \A d \in Calls : d # c /\ pc[d] \in OrgTx /\ req[d].org \in Orgs
                         => credits'[req[d].org] = credits[req[d].org]
    BY <1>1, <1>2 DEF TxnInv, OneOrgHolder, OrgTx, TypeOK, Calls
  <2>5. ASSUME NEW d \in Starts PROVE StartKnows(d)'
    <3>1. d # c /\ pc'[d] = pc[d] /\ StartKnows(d)
      BY <1>1, <2>2, CallsAssumption DEF TxnInv, Calls
    <3>2. pc[d] = "charge_row" => credits'[req[d].org] = credits[req[d].org]
      BY <2>4, <3>1 DEF StartKnows, OrgTx, Calls
    <3>3. jobs'[d] = Null <=> jobs[d] = Null
      BY <1>5 DEF Relabelled
    <3> QED
      BY <1>2, <2>1, <3>1, <3>2, <3>3 DEF StartKnows
  <2>6. ASSUME NEW d \in Cancels PROVE CancelKnows(d)'
    <3>1. CASE d = c
      BY <1>1, <1>2, <1>3, <1>5, <2>3, <3>1
      DEF TxnInv, CancelKnows, CancelTx, Ended, Exists, Relabelled
    <3>2. CASE d # c
      <4>1. pc'[d] = pc[d] /\ CancelKnows(d)
        BY <1>1, <2>2, <3>2 DEF TxnInv, Calls
      <4>2. pc[d] \in CancelTx => req[d].job # j /\ pc[d] # "idle"
        BY <1>1, <1>2, <3>2 DEF TxnInv, OneJobHolder, CancelTx
      <4>3. pc[d] # "idle" => req[d].job \in Starts /\ req[d].org \in Orgs
        BY <4>1 DEF CancelKnows, Requests
      <4>4. pc[d] = "refund_row" => credits'[req[d].org] = credits[req[d].org]
        BY <2>4, <3>2, <4>3 DEF OrgTx, Calls
      <4> QED
        BY <1>2, <1>5, <4>1, <4>2, <4>3, <4>4
        DEF CancelKnows, Cancellable, Exists, Relabelled
    <3> QED
      BY <3>1, <3>2
  <2>7. \A i \in failing' : jobs'[i] # Null
    BY <1>1, <1>2, <1>5 DEF TxnInv, TypeOK, Exists, Relabelled
  <2>8. OneSlotHolder'
    BY <1>1, <1>2, <2>2, CallsAssumption DEF TxnInv, OneSlotHolder, Calls
  <2>9. OneJobHolder'
    BY <1>1, <1>2, <2>2, <2>3 DEF TxnInv, OneJobHolder, CancelTx, Calls
  <2>10. OneOrgHolder'
    BY <1>1, <1>2, <2>2, <2>3 DEF TxnInv, OneOrgHolder, OrgTx
  <2> QED
    BY <2>5, <2>6, <2>7, <2>8, <2>9, <2>10 DEF TxnInv, Exists
<1>11. RowsInv'
  <2>1. LedgerTruthful'
    BY <1>1, <1>2, <1>3, <1>4, <1>8, BookedTruthful
  <2>2. OneJobPerKey'
    BY <1>1, <1>5 DEF OneJobPerKey, Exists, Relabelled
  <2>3. \A p \in Orgs : \A i, r :
            HasRow(p, i, r)' <=> HasRow(p, i, r) \/ (p = o /\ i = j /\ r = "refund")
    <3>1. row.job = j /\ row.reason = "refund"
      OBVIOUS
    <3> HIDE DEF row, o, j
    <3> QED
      BY <1>3, <1>8, <3>1, BookedRows
  <2>4. NoSecondRow("search_charge")' /\ NoSecondRow("refund")'
    BY <1>1, <1>3, <1>4, <1>6, <1>8, BookedOnce DEF PaidOnce, RefundMatchesCancel
  <2>5. PaidOnce'
    <3>1. ASSUME NEW p \in Orgs, NEW i \in Starts
          PROVE  HasRow(p, i, "search_charge")' <=> jobs'[i] # Null /\ jobs'[i].org = p
      BY <1>1, <1>5, <2>3 DEF PaidOnce, Exists, Relabelled
    <3> QED
      BY <2>4, <3>1 DEF PaidOnce, Exists
  <2>6. RefundMatchesCancel'
    <3>1. ASSUME NEW p \in Orgs, NEW i \in Starts, HasRow(p, i, "refund")'
          PROVE  /\ jobs'[i] # Null
                 /\ jobs'[i].org = p
                 /\ jobs'[i].status \in {"cancelled", "failed"}
      <4>1. CASE HasRow(p, i, "refund")
        BY <1>1, <1>5, <1>6, <4>1 DEF RefundMatchesCancel, Exists, Relabelled
      <4>2. CASE p = o /\ i = j
        BY <1>3, <1>5, <4>2 DEF Relabelled
      <4> QED
        BY <2>3, <3>1, <4>1, <4>2
    <3>2. ASSUME NEW i \in Starts, NEW p \in Orgs, jobs'[i] # Null, jobs'[i].org = p,
                 jobs'[i].status = "cancelled"
          PROVE  HasRow(p, i, "refund")'
      <4>1. CASE i = j
        BY <1>3, <1>5, <2>3, <3>2, <4>1 DEF Relabelled
      <4>2. CASE i # j
        <5>1. jobs[i] # Null /\ jobs[i].org = p /\ jobs[i].status = "cancelled"
          BY <1>5, <3>2, <4>2 DEF Relabelled
        <5>2. HasRow(p, i, "refund")
          BY <1>1, <5>1 DEF RefundMatchesCancel, Exists
        <5> QED
          BY <2>3, <5>2
      <4> QED
        BY <4>1, <4>2
    <3>3. \A i \in Starts : jobs'[i] # Null => jobs'[i].org \in Orgs
      BY <1>9 DEF TypeOK, JobRows
    <3> QED
      BY <2>4, <3>1, <3>2, <3>3 DEF RefundMatchesCancel, Exists, HasRow, IsRow
  <2> QED
    BY <2>1, <2>2, <2>5, <2>6 DEF RowsInv
<1> QED
  BY <1>9, <1>10, <1>11 DEF IInv

-----------------------------------------------------------------------------
(* Every reachable state.                                                  *)

LEMMA StepInv == IInv /\ [Next]_vars => IInv'
<1> SUFFICES ASSUME IInv, [Next]_vars PROVE IInv'
  OBVIOUS
<1>1. ASSUME NEW c \in Starts, Submit(c) \/ StartStep(c)
      PROVE  IInv'
  BY <1>1, SubmitInv, InsertJobInv, ReplayInv, ChargeCreditInv, RefuseInv, CommitStartInv,
     RespondInv
  DEF StartStep, Calls
<1>2. ASSUME NEW c \in Cancels, AskCancel(c) \/ CancelStep(c)
      PROVE  IInv'
  BY <1>2, AskCancelInv, FlipJobInv, RefundCreditInv, CommitCancelInv, RereadInv, RespondInv
  DEF CancelStep, Calls
<1>3. ASSUME NEW c \in Calls, Abort(c) \/ LoseAnswer(c)
      PROVE  IInv'
  BY <1>3, AbortInv, LoseAnswerInv
<1>4. ASSUME NEW j \in Starts, WorkerStep(j)
      PROVE  IInv'
  BY <1>4, AdvanceInv, ReadForFailInv, WriteFailInv DEF WorkerStep
<1>5. CASE UNCHANGED vars
  <2>1. TypeOK'
    BY <1>5 DEF vars, IInv, TypeOK
  <2>2. TxnInv'
    BY <1>5 DEF vars, IInv, TxnInv, StartKnows, CancelKnows, OneSlotHolder, OneJobHolder,
                OneOrgHolder, Cancellable, Exists, JobsOf
  <2>3. RowsInv'
    BY <1>5, RowsSame DEF vars, IInv, rows
  <2> QED
    BY <2>1, <2>2, <2>3 DEF IInv
<1> QED
  BY <1>1, <1>2, <1>3, <1>4, <1>5 DEF Next

\* The strengthened invariant holds in every reachable state.
THEOREM Invariant == Spec => []IInv
<1> QED
  BY InitIInv, StepInv, PTL DEF Spec

\* Every variable keeps its type, the balances their CHECK (credits >= 0) included.
THEOREM TypeCorrect == Spec => []TypeOK
<1>1. IInv => TypeOK
  BY DEF IInv
<1> QED
  BY <1>1, Invariant, PTL

\* balance_after is a truthful running balance, however the transactions of startSearch
\* and cancelJob interleave.
THEOREM LedgersTruthful == Spec => []LedgerTruthful
<1>1. IInv => LedgerTruthful
  BY DEF IInv, RowsInv
<1> QED
  BY <1>1, Invariant, PTL

\* One organization has one job per idempotency key, however often and however
\* concurrently it submits.
THEOREM OneJobPerKeyAlways == Spec => []OneJobPerKey
<1>1. IInv => OneJobPerKey
  BY DEF IInv, RowsInv
<1> QED
  BY <1>1, Invariant, PTL

\* Every job was paid exactly once by its organization, and nothing else was paid.
THEOREM EveryJobPaidOnce == Spec => []PaidOnce
<1>1. IInv => PaidOnce
  BY DEF IInv, RowsInv
<1> QED
  BY <1>1, Invariant, PTL

\* A cancelled job is refunded, once and to its organization, and a refunded one is not
\* delivered.
THEOREM RefundsMatchCancels == Spec => []RefundMatchesCancel
<1>1. IInv => RefundMatchesCancel
  BY DEF IInv, RowsInv
<1> QED
  BY <1>1, Invariant, PTL

\* The SELECT after a conflicting insert always finds the job.
THEOREM ConflictsHaveJobs == Spec => []ConflictHasJob
<1>1. IInv => ConflictHasJob
  BY DEF IInv, TxnInv, StartKnows, ConflictHasJob, StartTx, Ended
<1> QED
  BY <1>1, Invariant, PTL

-----------------------------------------------------------------------------
(* What the calls answer.                                                  *)

\* Whoever is told of a job under a key is told of the job of that key, and only the
\* call that inserted it is told it was created now.
StartTold(c) ==
    pc[c] \in {"committed", "answered"} =>
        /\ answer[c].job \in JobsOf(req[c].org, req[c].key)
        /\ answer[c].replayed \/ answer[c].job = c

\* A cancel that flipped nothing saw a job that was not running, and such a job does
\* not run again before it is read a second time.
CancelTold(c) ==
    /\ pc[c] \in {"idle", "flip", "reread"} \cup CancelTx => answer[c] = NoAnswer
    /\ pc[c] = "reread" /\ Exists(req[c].job) /\ jobs[req[c].job].org = req[c].org =>
          jobs[req[c].job].status \in Terminal
    /\ pc[c] \in {"committed", "answered"} => answer[c].status \in Terminal \cup {"none"}

ToldInv ==
    /\ \A c \in Starts : StartTold(c)
    /\ \A c \in Cancels : CancelTold(c)

\* What every step leaves of a job: that it is there, whose it is, and that it ended.
Keeps(j) ==
    jobs[j] # Null =>
        /\ jobs'[j] # Null
        /\ jobs'[j].org = jobs[j].org
        /\ jobs'[j].key = jobs[j].key
        /\ jobs[j].status \in Terminal => jobs'[j].status \in Terminal

\* A submit that commits inserts its own job, under a key its organization has not used,
\* and takes one of the credits the organization has.
LEMMA StartCommits ==
    ASSUME IInv, NEW c \in Starts, CommitStart(c)
    PROVE  /\ req[c].org \in Orgs /\ req[c].key \in Keys
           /\ JobsOf(req[c].org, req[c].key) = {}
           /\ credits[req[c].org] >= 1
           /\ credits' = [credits EXCEPT ![req[c].org] = @ - 1]
           /\ jobs[c] = Null
           /\ jobs'[c] # Null /\ jobs'[c].org = req[c].org /\ jobs'[c].key = req[c].key
           /\ \A j \in Starts \ {c} : jobs'[j] = jobs[j]
           /\ \A o \in Orgs, j \in Starts : HasRow(o, j, "refund")' <=> HasRow(o, j, "refund")
<1> DEFINE o == req[c].org
           k == req[c].key
           job == [org |-> o, key |-> k, status |-> "queued"]
           row == [job |-> c, reason |-> "search_charge", delta |-> -1,
                   balanceAfter |-> balance[c]]
<1>1. TypeOK /\ TxnInv
  BY DEF IInv
<1>2. /\ o \in Orgs /\ k \in Keys
      /\ jobs[c] = Null /\ JobsOf(o, k) = {}
      /\ credits[o] \in Nat /\ credits[o] >= 1 /\ balance[c] = credits[o] - 1
  BY <1>1 DEF CommitStart, TxnInv, StartKnows, StartTx, TypeOK, Calls
<1>3. row \in Entries /\ job \in JobRows
  BY <1>2 DEF Entries, Reasons, JobRows, Statuses, Running
<1>4. job # Null
  BY <1>3, NullAssumption
<1>5. /\ jobs'[c] = job
      /\ \A j \in Starts \ {c} : jobs'[j] = jobs[j]
  BY <1>1 DEF CommitStart, TypeOK
<1>6. Booked(o, row)
  BY <1>1, <1>2, <1>3, AppendBooks DEF CommitStart
<1>7. \A p \in Orgs, j \in Starts : HasRow(p, j, "refund")' <=> HasRow(p, j, "refund")
  <2>1. row.reason # "refund"
    OBVIOUS
  <2> HIDE DEF row, o
  <2> QED
    BY <1>2, <1>6, <2>1, BookedRows
<1>8. credits' = [credits EXCEPT ![o] = @ - 1]
  BY <1>1, <1>2 DEF CommitStart
<1> QED
  BY <1>2, <1>4, <1>5, <1>7, <1>8

\* A cancel that commits does so for a job that was running and not refunded, of its own
\* organization, and gives one credit back.
LEMMA CancelCommits ==
    ASSUME IInv, NEW c \in Cancels, CommitCancel(c)
    PROVE  /\ req[c].org \in Orgs /\ req[c].job \in Starts
           /\ jobs[req[c].job] # Null
           /\ jobs[req[c].job].org = req[c].org
           /\ jobs[req[c].job].status \in Running
           /\ credits' = [credits EXCEPT ![req[c].org] = @ + 1]
           /\ Relabelled(req[c].job, "cancelled")
           /\ ~ HasRow(req[c].org, req[c].job, "refund")
           /\ \A o \in Orgs, j \in Starts :
                 HasRow(o, j, "refund")' <=>
                    HasRow(o, j, "refund") \/ (o = req[c].org /\ j = req[c].job)
<1> DEFINE o == req[c].org
           j == req[c].job
           row == [job |-> j, reason |-> "refund", delta |-> 1, balanceAfter |-> balance[c]]
<1>1. TypeOK /\ TxnInv /\ RefundMatchesCancel
  BY DEF IInv, RowsInv
<1>2. /\ o \in Orgs /\ j \in Starts
      /\ jobs[j] # Null /\ jobs[j].org = o /\ jobs[j].status \in Running
      /\ credits[o] \in Nat /\ balance[c] = credits[o] + 1
  BY <1>1 DEF CommitCancel, TxnInv, CancelKnows, Cancellable, Exists, CancelTx, TypeOK, Calls, Requests
<1>3. row \in Entries
  BY <1>2 DEF Entries, Reasons
<1>4. Relabelled(j, "cancelled")
  BY <1>1, <1>2, StatusWrite DEF CommitCancel, Exists, Statuses, Terminal
<1>5. \A p \in Orgs : ~HasRow(p, j, "refund")
  BY <1>1, <1>2 DEF RefundMatchesCancel, Running
<1>6. WithRefund(ledger[o], row) = Append(ledger[o], row)
  BY <1>2, <1>5 DEF WithRefund, HasRow, IsRow
<1>7. Booked(o, row)
  BY <1>1, <1>2, <1>3, <1>6, AppendBooks DEF CommitCancel
<1>8. \A p \in Orgs, i \in Starts :
         HasRow(p, i, "refund")' <=> HasRow(p, i, "refund") \/ (p = o /\ i = j)
  <2>1. row.reason = "refund" /\ row.job = j
    OBVIOUS
  <2> HIDE DEF row, o, j
  <2> QED
    BY <1>2, <1>7, <2>1, BookedRows
<1>9. credits' = [credits EXCEPT ![o] = @ + 1]
  BY <1>1, <1>2 DEF CommitCancel
<1> QED
  BY <1>2, <1>4, <1>5, <1>8, <1>9

\* The other steps move no credit, and at most relabel a job.
LEMMA OtherSteps ==
    ASSUME IInv, [Next]_vars,
           \A c \in Starts : ~ CommitStart(c),
           \A c \in Cancels : ~ CommitCancel(c)
    PROVE  /\ UNCHANGED <<credits, ledger>>
           /\ \A j \in Starts : Keeps(j) /\ (jobs[j] = Null => jobs'[j] = Null)
<1> DEFINE Plain == /\ UNCHANGED <<credits, ledger>>
                    /\ \A j \in Starts : Keeps(j) /\ (jobs[j] = Null => jobs'[j] = Null)
<1>1. UNCHANGED rows => Plain
  BY DEF rows, Keeps
<1>2. ASSUME NEW j \in Starts, NEW s \in Statuses, jobs[j] # Null,
             s = "failed" \/ jobs[j].status \in Running,
             Relabelled(j, s), UNCHANGED <<credits, ledger>>
      PROVE  Plain
  BY <1>2 DEF Relabelled, Keeps, Running, Terminal
<1>3. ASSUME NEW j \in Starts, Advance(j) PROVE Plain
  <2>1. PICK m \in StageMoves : /\ jobs[j].status = m[1]
                               /\ jobs' = [jobs EXCEPT ![j].status = m[2]]
    BY <1>3 DEF Advance
  <2>2. m[1] \in Running /\ m[2] \in Statuses
    BY DEF StageMoves, Running, Statuses, Terminal
  <2>3. jobs[j] # Null /\ UNCHANGED <<credits, ledger>>
    BY <1>3 DEF Advance, Exists
  <2>4. Relabelled(j, m[2])
    BY <2>1, <2>2, <2>3, StatusWrite DEF IInv, Exists
  <2> QED
    BY <1>2, <2>1, <2>2, <2>3, <2>4
<1>4. ASSUME NEW j \in Starts, WriteFail(j) PROVE Plain
  <2>1. jobs[j] # Null /\ "failed" \in Statuses /\ UNCHANGED <<credits, ledger>>
    BY <1>4 DEF IInv, TxnInv, WriteFail, Exists, Statuses, Terminal
  <2>2. Relabelled(j, "failed")
    BY <1>4, <2>1, StatusWrite DEF IInv, Exists, WriteFail
  <2> QED
    BY <1>2, <2>1, <2>2
<1>5. ASSUME NEW c \in Starts, Submit(c) \/ StartStep(c) PROVE UNCHANGED rows
  BY <1>5 DEF StartStep, Submit, InsertJob, Replay, Existing, ChargeCredit, Refuse, Respond
<1>6. ASSUME NEW c \in Cancels, AskCancel(c) \/ CancelStep(c) PROVE UNCHANGED rows
  BY <1>6 DEF CancelStep, AskCancel, FlipJob, RefundCredit, Reread, Respond
<1>7. ASSUME NEW c \in Calls, Abort(c) \/ LoseAnswer(c) PROVE UNCHANGED rows
  BY <1>7 DEF Abort, LoseAnswer
<1>8. ASSUME NEW j \in Starts, ReadForFail(j) PROVE UNCHANGED rows
  BY <1>8 DEF ReadForFail
<1>9. UNCHANGED vars => UNCHANGED rows
  BY DEF vars, rows
<1> HIDE DEF Plain
<1>10. Plain
  BY <1>1, <1>3, <1>4, <1>5, <1>6, <1>7, <1>8, <1>9 DEF Next, WorkerStep
<1> QED
  BY <1>10 DEF Plain

\* No step takes a job away, gives it to another organization or makes it run again.
LEMMA JobsKept ==
    ASSUME IInv, [Next]_vars, NEW j \in Starts
    PROVE  Keeps(j)
<1>1. ASSUME NEW c \in Starts, CommitStart(c) PROVE Keeps(j)
  BY <1>1, StartCommits DEF Keeps
<1>2. ASSUME NEW c \in Cancels, CommitCancel(c) PROVE Keeps(j)
  BY <1>2, CancelCommits DEF Keeps, Relabelled, Terminal
<1> QED
  BY <1>1, <1>2, OtherSteps

\* A call is where it was, or has taken a step of its own.
LEMMA OwnSteps ==
    ASSUME TypeOK, [Next]_vars, NEW c \in Calls
    PROVE  \/ pc'[c] = pc[c] /\ req'[c] = req[c] /\ answer'[c] = answer[c]
           \/ c \in Starts /\ (Submit(c) \/ StartStep(c))
           \/ c \in Cancels /\ (AskCancel(c) \/ CancelStep(c))
           \/ Abort(c) \/ LoseAnswer(c)
<1> DEFINE Stays == pc'[c] = pc[c] /\ req'[c] = req[c] /\ answer'[c] = answer[c]
<1>1. ASSUME NEW d \in Starts, d # c, Submit(d) \/ StartStep(d) PROVE Stays
  BY <1>1 DEF TypeOK, Calls, Submit, StartStep, InsertJob, Replay, Existing, ChargeCredit, Refuse, CommitStart,
              Respond, Goto, Answer
<1>2. ASSUME NEW d \in Cancels, d # c, AskCancel(d) \/ CancelStep(d) PROVE Stays
  BY <1>2 DEF TypeOK, Calls, AskCancel, CancelStep, FlipJob, RefundCredit, CommitCancel, Reread,
              Respond, Goto, Answer
<1>3. ASSUME NEW d \in Calls, d # c, Abort(d) \/ LoseAnswer(d) PROVE Stays
  BY <1>3 DEF TypeOK, Abort, LoseAnswer, Goto
<1>4. ASSUME NEW j \in Starts, WorkerStep(j) PROVE Stays
  BY <1>4 DEF WorkerStep, Advance, ReadForFail, WriteFail
<1>5. UNCHANGED vars => Stays
  BY DEF vars
<1> QED
  BY <1>1, <1>2, <1>3, <1>4, <1>5 DEF Next

LEMMA StartToldStep ==
    ASSUME IInv, [Next]_vars, NEW c \in Starts, StartTold(c)
    PROVE  StartTold(c)'
<1>1. TypeOK /\ StartKnows(c) /\ c \in Calls /\ c \notin Cancels
  BY CallsAssumption DEF IInv, TxnInv, Calls
<1>2. \A o, k : JobsOf(o, k) \subseteq JobsOf(o, k)'
  BY JobsKept DEF JobsOf, Exists, Keeps
<1>3. CASE pc'[c] = pc[c] /\ req'[c] = req[c] /\ answer'[c] = answer[c]
  BY <1>2, <1>3 DEF StartTold
<1>4. CASE Submit(c) \/ InsertJob(c) \/ ChargeCredit(c) \/ Refuse(c) \/ Abort(c) \/ LoseAnswer(c)
  <2>1. pc'[c] \in {"insert", "replay", "charge", "charge_row", "refused", "lost"}
    BY <1>1, <1>4 DEF TypeOK, Submit, InsertJob, ChargeCredit, Refuse, Abort, LoseAnswer, Goto
  <2> QED
    BY <2>1 DEF StartTold
<1>5. CASE Replay(c)
  <2>1. PICK j \in JobsOf(req[c].org, req[c].key) : Answer(c, j, TRUE)
    BY <1>1, <1>5 DEF Replay, Existing, StartKnows
  <2>2. answer'[c].job = j /\ answer'[c].replayed /\ req' = req
    BY <1>1, <1>5, <2>1 DEF TypeOK, Replay, Existing, Answer
  <2> QED
    BY <1>2, <2>1, <2>2 DEF StartTold
<1>6. CASE CommitStart(c)
  <2>1. answer'[c].job = c /\ req' = req
    BY <1>1, <1>6 DEF TypeOK, CommitStart
  <2>2. c \in JobsOf(req[c].org, req[c].key)'
    BY <1>6, <2>1, StartCommits DEF JobsOf, Exists
  <2> QED
    BY <2>1, <2>2 DEF StartTold
<1>7. CASE Respond(c)
  BY <1>1, <1>2, <1>7 DEF StartTold, Respond, TypeOK
<1> QED
  BY <1>1, <1>3, <1>4, <1>5, <1>6, <1>7, OwnSteps DEF StartStep

LEMMA CancelToldStep ==
    ASSUME IInv, [Next]_vars, NEW c \in Cancels, CancelTold(c)
    PROVE  CancelTold(c)'
<1> DEFINE j == req[c].job
<1>1. TypeOK /\ CancelKnows(c) /\ c \in Calls /\ c \notin Starts
  BY CallsAssumption DEF IInv, TxnInv, Calls
<1>2. pc[c] # "idle" => j \in Starts /\ jobs[j] # Null
  BY <1>1 DEF CancelKnows, Requests, Exists
<1>3. pc[c] # "idle" => Keeps(j)
  BY <1>2, JobsKept
<1>4. CASE pc'[c] = pc[c] /\ req'[c] = req[c] /\ answer'[c] = answer[c]
  BY <1>2, <1>3, <1>4 DEF CancelTold, Keeps, Exists
<1>5. CASE AskCancel(c) \/ RefundCredit(c) \/ Abort(c) \/ LoseAnswer(c)
  <2>1. /\ answer' = answer
        /\ pc'[c] \in {"flip", "refund_row", "lost"}
        /\ pc'[c] # "lost" => pc[c] \in {"idle", "refund"}
    BY <1>1, <1>5 DEF TypeOK, AskCancel, RefundCredit, Abort, LoseAnswer, Goto
  <2> QED
    BY <2>1 DEF CancelTold, CancelTx
<1>6. CASE FlipJob(c)
  <2>1. /\ pc[c] = "flip" /\ answer' = answer /\ req' = req /\ jobs' = jobs
        /\ pc'[c] = IF Cancellable(req[c].org, j) THEN "refund" ELSE "reread"
    BY <1>1, <1>6 DEF TypeOK, FlipJob, Goto, rows
  <2>2. jobs[j].status \in Statuses
    BY <1>1, <1>2, <2>1 DEF TypeOK, JobRows
  <2> QED
    BY <1>2, <2>1, <2>2 DEF CancelTold, CancelTx, Cancellable, Statuses, Exists
<1>7. CASE CommitCancel(c)
  <2>1. pc'[c] = "committed" /\ answer'[c].status = "cancelled"
    BY <1>1, <1>7 DEF TypeOK, CommitCancel, Goto
  <2> QED
    BY <2>1 DEF CancelTold, CancelTx, Terminal
<1>8. CASE Reread(c)
  <2>1. pc[c] = "reread" /\ pc'[c] = "committed"
    BY <1>1, <1>8 DEF TypeOK, Reread, Goto
  <2>2. CASE jobs[j].org = req[c].org
    <3>1. answer'[c].status = jobs[j].status
      BY <1>1, <1>2, <1>8, <2>1, <2>2 DEF TypeOK, Reread, Answer, Exists
    <3> QED
      BY <1>2, <2>1, <2>2, <3>1 DEF CancelTold, CancelTx, Exists
  <2>3. CASE jobs[j].org # req[c].org
    BY <1>8, <2>1, <2>3 DEF Reread, CancelTold, CancelTx, NoAnswer
  <2> QED
    BY <2>2, <2>3
<1>9. CASE Respond(c)
  <2>1. pc[c] = "committed" /\ pc'[c] = "answered" /\ answer' = answer
    BY <1>1, <1>9 DEF TypeOK, Respond, Goto
  <2> QED
    BY <2>1 DEF CancelTold, CancelTx
<1> QED
  BY <1>1, <1>4, <1>5, <1>6, <1>7, <1>8, <1>9, OwnSteps DEF CancelStep

LEMMA InitTold == Init => ToldInv
  BY DEF Init, ToldInv, StartTold, CancelTold, Calls

\* What the calls answered, in every reachable state (search-service.ts:44-58,
\* cancel/route.ts:22-33).
THEOREM AnswersTold == Spec => []ToldInv
<1>1. IInv /\ ToldInv /\ [Next]_vars => ToldInv'
  BY StartToldStep, CancelToldStep DEF ToldInv
<1> QED
  BY <1>1, InitTold, Invariant, PTL DEF Spec

\* Whatever a browser is told about one key, it is told of one job, and only one of the
\* answers says it was created now: across any number of submits, lost answers and
\* crashes.
THEOREM AnswersAlwaysAgree == Spec => []AnswersAgree
<1>1. ASSUME IInv, ToldInv PROVE AnswersAgree
  <2> SUFFICES ASSUME NEW c \in Starts, NEW d \in Starts, c # d,
                      pc[c] = "answered", pc[d] = "answered",
                      req[c].org = req[d].org, req[c].key = req[d].key
               PROVE  /\ answer[c].job = answer[d].job
                      /\ answer[c].replayed \/ answer[d].replayed
    BY DEF AnswersAgree
  <2>1. /\ answer[c].job \in JobsOf(req[c].org, req[c].key)
        /\ answer[d].job \in JobsOf(req[c].org, req[c].key)
        /\ answer[c].replayed \/ answer[c].job = c
        /\ answer[d].replayed \/ answer[d].job = d
    BY <1>1 DEF ToldInv, StartTold
  <2>2. answer[c].job = answer[d].job
    BY <1>1, <2>1 DEF IInv, RowsInv, OneJobPerKey, JobsOf
  <2> QED
    BY <2>1, <2>2
<1>2. IInv /\ ToldInv => AnswersAgree
  BY <1>1
<1> QED
  BY <1>2, Invariant, AnswersTold, PTL

\* A cancel that answers with a job reports a status it does not leave by running on,
\* although it reads the row after the transaction that flipped nothing.
THEOREM CancelsAnswerFinal == Spec => []CancelAnswersFinal
<1>1. ToldInv => CancelAnswersFinal
  BY DEF ToldInv, CancelTold, CancelAnswersFinal
<1> QED
  BY <1>1, AnswersTold, PTL

-----------------------------------------------------------------------------
(* The refinement of CreditLedger.                                         *)

\* A search is charged when a job of its organization and key is there, and refunded
\* when that job has a refund row.
LEMMA SearchesOfJobs ==
    /\ \A s : s \in ChargedSearches <=>
          \E j \in Starts : jobs[j] # Null /\ s = <<jobs[j].org, jobs[j].key>>
    /\ \A s : s \in RefundedSearches <=>
          \E j \in Starts : /\ jobs[j] # Null
                            /\ HasRow(jobs[j].org, j, "refund")
                            /\ s = <<jobs[j].org, jobs[j].key>>
  BY DEF ChargedSearches, RefundedSearches, Exists

LEMMA SearchesOfJobsNext ==
    /\ \A s : s \in ChargedSearches' <=>
          \E j \in Starts : jobs'[j] # Null /\ s = <<jobs'[j].org, jobs'[j].key>>
    /\ \A s : s \in RefundedSearches' <=>
          \E j \in Starts : /\ jobs'[j] # Null
                            /\ HasRow(jobs[j].org, j, "refund")'
                            /\ s = <<jobs'[j].org, jobs'[j].key>>
  BY DEF ChargedSearches, RefundedSearches, Exists

LEMMA RowAt ==
    ASSUME NEW j, NEW o, jobs'[j].org = o
    PROVE  HasRow(jobs[j].org, j, "refund")' <=> HasRow(o, j, "refund")'
  BY DEF HasRow, IsRow

LEMMA InitLedger == Init => Ledger!Init
<1> SUFFICES ASSUME Init PROVE Ledger!Init
  OBVIOUS
<1>1. \A j \in Starts : jobs[j] = Null
  BY DEF Init
<1>2. ChargedSearches = {} /\ RefundedSearches = {}
  BY <1>1, SearchesOfJobs
<1> QED
  BY <1>2 DEF Ledger!Init, Init

\* The commit of a submit is a charge.
LEMMA StartCharges ==
    ASSUME IInv, NEW c \in Starts, CommitStart(c)
    PROVE  Ledger!Next
<1> DEFINE o == req[c].org
           k == req[c].key
           s == <<o, k>>
<1>1. /\ o \in Orgs /\ k \in Keys
      /\ JobsOf(o, k) = {}
      /\ jobs[c] = Null
      /\ jobs'[c] # Null /\ jobs'[c].org = o /\ jobs'[c].key = k
      /\ \A j \in Starts \ {c} : jobs'[j] = jobs[j]
      /\ \A p \in Orgs, j \in Starts : HasRow(p, j, "refund")' <=> HasRow(p, j, "refund")
  BY StartCommits
<1>2. credits[o] >= 1 /\ credits' = [credits EXCEPT ![o] = @ - 1]
  BY StartCommits
<1>3. \A j \in Starts : jobs[j] # Null => jobs[j].org \in Orgs
  BY DEF IInv, TypeOK, JobRows
<1>4. ~ HasRow(o, c, "refund")
  BY <1>1 DEF IInv, RowsInv, RefundMatchesCancel, Exists
<1>5. s \notin ChargedSearches
  BY <1>1, SearchesOfJobs DEF JobsOf, Exists
<1>6. ChargedSearches' = ChargedSearches \cup {s}
  <2>1. \A t : t \in ChargedSearches' <=> t \in ChargedSearches \/ t = s
    BY <1>1, SearchesOfJobs, SearchesOfJobsNext
  <2> QED
    BY <2>1
<1>7. RefundedSearches' = RefundedSearches
  <2>1. ASSUME NEW j \in Starts
        PROVE  jobs'[j] # Null /\ HasRow(jobs[j].org, j, "refund")'
                  <=> j # c /\ jobs[j] # Null /\ HasRow(jobs[j].org, j, "refund")
    <3>1. CASE j = c
      BY <1>1, <1>4, <3>1, RowAt
    <3>2. CASE j # c
      BY <1>1, <1>3, <3>2, RowAt
    <3> QED
      BY <3>1, <3>2
  <2>2. \A t : t \in RefundedSearches' <=> t \in RefundedSearches
    BY <1>1, <2>1, SearchesOfJobs, SearchesOfJobsNext
  <2> QED
    BY <2>2
<1>8. s \in Ledger!Searches /\ s[1] = o
  BY <1>1 DEF Ledger!Searches
<1> HIDE DEF s, o
<1>9. Ledger!Charge(s)
  BY <1>2, <1>5, <1>6, <1>7, <1>8 DEF Ledger!Charge
<1> QED
  BY <1>8, <1>9 DEF Ledger!Next

\* The commit of a cancel is a refund.
LEMMA CancelRefunds ==
    ASSUME IInv, NEW c \in Cancels, CommitCancel(c)
    PROVE  Ledger!Next
<1> DEFINE o == req[c].org
           j == req[c].job
           s == <<o, jobs[j].key>>
<1>1. /\ o \in Orgs /\ j \in Starts
      /\ jobs[j] # Null /\ jobs[j].org = o
      /\ ~ HasRow(o, j, "refund")
      /\ \A p \in Orgs, i \in Starts :
            HasRow(p, i, "refund")' <=> HasRow(p, i, "refund") \/ (p = o /\ i = j)
  BY CancelCommits
<1>2. credits' = [credits EXCEPT ![o] = @ + 1]
  BY CancelCommits
<1>3. \A i \in Starts : /\ jobs'[i] = Null <=> jobs[i] = Null
                        /\ jobs[i] # Null => /\ jobs'[i].org = jobs[i].org
                                             /\ jobs'[i].key = jobs[i].key
                                             /\ jobs[i].org \in Orgs /\ jobs[i].key \in Keys
  BY CancelCommits DEF IInv, TypeOK, JobRows, Relabelled
<1>4. s \in ChargedSearches
  BY <1>1, SearchesOfJobs
<1>5. s \notin RefundedSearches
  <2>1. \A i \in Starts : jobs[i] # Null /\ jobs[i].org = o /\ jobs[i].key = jobs[j].key => i = j
    BY <1>1 DEF IInv, RowsInv, OneJobPerKey, Exists
  <2> QED
    BY <1>1, <2>1, SearchesOfJobs
<1>6. ChargedSearches' = ChargedSearches
  <2>1. \A t : t \in ChargedSearches' <=> t \in ChargedSearches
    BY <1>3, SearchesOfJobs, SearchesOfJobsNext
  <2> QED
    BY <2>1
<1>7. RefundedSearches' = RefundedSearches \cup {s}
  <2>1. ASSUME NEW i \in Starts, jobs[i] # Null
        PROVE  HasRow(jobs[i].org, i, "refund")' <=> HasRow(jobs[i].org, i, "refund") \/ i = j
    <3>1. PICK p \in Orgs : jobs'[i].org = p /\ jobs[i].org = p
      BY <1>3, <2>1
    <3>2. HasRow(jobs[i].org, i, "refund")' <=> HasRow(p, i, "refund")'
      BY <3>1, RowAt
    <3> QED
      BY <1>1, <3>1, <3>2
  <2>2. \A t : t \in RefundedSearches' <=> t \in RefundedSearches \/ t = s
    BY <1>1, <1>3, <2>1, SearchesOfJobs, SearchesOfJobsNext
  <2> QED
    BY <2>2
<1>8. s \in Ledger!Searches /\ s[1] = o
  BY <1>1, <1>3 DEF Ledger!Searches
<1> HIDE DEF s, o
<1>9. Ledger!Refund(s)
  BY <1>2, <1>4, <1>5, <1>6, <1>7, <1>8 DEF Ledger!Refund
<1> QED
  BY <1>8, <1>9 DEF Ledger!Next

\* Every other step is one the ledger does not see.
LEMMA OthersStutter ==
    ASSUME IInv, [Next]_vars,
           \A c \in Starts : ~ CommitStart(c),
           \A c \in Cancels : ~ CommitCancel(c)
    PROVE  UNCHANGED Ledger!vars
<1>1. /\ UNCHANGED <<credits, ledger>>
      /\ \A j \in Starts : Keeps(j) /\ (jobs[j] = Null => jobs'[j] = Null)
  BY OtherSteps
<1>2. \A j \in Starts : jobs[j] # Null =>
         (HasRow(jobs[j].org, j, "refund")' <=> HasRow(jobs[j].org, j, "refund"))
  BY <1>1 DEF HasRow, IsRow, Keeps
<1>3. \A t : t \in ChargedSearches' <=> t \in ChargedSearches
  BY <1>1, SearchesOfJobs, SearchesOfJobsNext DEF Keeps
<1>4. \A t : t \in RefundedSearches' <=> t \in RefundedSearches
  BY <1>1, <1>2, SearchesOfJobs, SearchesOfJobsNext DEF Keeps
<1>5. ChargedSearches' = ChargedSearches /\ RefundedSearches' = RefundedSearches
  BY <1>3, <1>4
<1> QED
  BY <1>1, <1>5 DEF Ledger!vars

\* The transactions of startSearch and cancelJob, interleaved statement by statement,
\* aborted and replayed, move credits exactly as the atomic charge and refund of
\* CreditLedger: a commit is one of them, and every other statement is neither.
THEOREM Refinement == Spec => ImplementsLedger
<1>1. IInv /\ [Next]_vars => [Ledger!Next]_(Ledger!vars)
  BY StartCharges, CancelRefunds, OthersStutter
<1> QED
  BY <1>1, InitLedger, Invariant, PTL DEF Spec, ImplementsLedger, Ledger!Spec

-----------------------------------------------------------------------------
(* The ledger conserves credits.                                           *)

\* The ledger counts with its own instance of the module FiniteSets.
LEMMA SameCounts ==
    \A S : (Ledger!IsFiniteSet(S) <=> IsFiniteSet(S)) /\ Ledger!Cardinality(S) = Cardinality(S)
  BY Zenon DEF Ledger!IsFiniteSet, IsFiniteSet, Ledger!Cardinality, Cardinality

LedgerTyped ==
    /\ credits \in [Orgs -> Nat]
    /\ ChargedSearches \in SUBSET Ledger!Searches
    /\ RefundedSearches \in SUBSET ChargedSearches
    /\ IsFiniteSet(ChargedSearches)

LedgerConserves ==
    \A o \in Orgs :
        credits[o] = InitialCredits[o] - Cardinality(Ledger!Of(o, ChargedSearches))
                                       + Cardinality(Ledger!Of(o, RefundedSearches))

LEMMA SameLedger ==
    (Ledger!TypeOK <=> LedgerTyped) /\ (Ledger!Conservation <=> LedgerConserves)
  BY SameCounts DEF Ledger!TypeOK, LedgerTyped, Ledger!Conservation, LedgerConserves

\* The searches of an organization in a finite set are finitely many.
LEMMA OfFinite ==
    ASSUME NEW S, IsFiniteSet(S), NEW o
    PROVE  IsFiniteSet(Ledger!Of(o, S))
BY FS_Subset DEF Ledger!Of

\* Adding a search to a set adds it to its own organization's part of the set only.
LEMMA OfAdd ==
    ASSUME NEW S, IsFiniteSet(S), NEW s, s \notin S, NEW o
    PROVE  Cardinality(Ledger!Of(o, S \cup {s})) =
               IF s[1] = o THEN Cardinality(Ledger!Of(o, S)) + 1
                           ELSE Cardinality(Ledger!Of(o, S))
<1>1. CASE s[1] = o
  <2>1. Ledger!Of(o, S \cup {s}) = Ledger!Of(o, S) \cup {s}
    BY <1>1 DEF Ledger!Of
  <2>2. s \notin Ledger!Of(o, S)
    BY DEF Ledger!Of
  <2> QED
    BY <1>1, <2>1, <2>2, OfFinite, FS_AddElement
<1>2. CASE s[1] # o
  <2>1. Ledger!Of(o, S \cup {s}) = Ledger!Of(o, S)
    BY <1>2 DEF Ledger!Of
  <2> QED
    BY <1>2, <2>1
<1> QED
  BY <1>1, <1>2

LedgerInv == LedgerTyped /\ LedgerConserves

LEMMA LedgerInit ==
    ASSUME InitialCredits \in [Orgs -> Nat], Ledger!Init
    PROVE  LedgerInv
<1>1. \A o \in Orgs : Ledger!Of(o, {}) = {}
  BY DEF Ledger!Of
<1>2. LedgerTyped
  BY FS_EmptySet DEF Ledger!Init, LedgerTyped
<1>3. LedgerConserves
  BY <1>1, FS_EmptySet DEF Ledger!Init, LedgerConserves
<1> QED
  BY <1>2, <1>3 DEF LedgerInv

\* A charge takes one credit and adds one charged search, of the same organization.
LEMMA ChargeInv ==
    ASSUME InitialCredits \in [Orgs -> Nat], LedgerInv,
           NEW s \in Ledger!Searches, Ledger!Charge(s)
    PROVE  LedgerInv'
<1> USE DEF LedgerInv
<1>1. s[1] \in Orgs
  BY DEF Ledger!Searches
<1>2. LedgerTyped'
  <2>1. credits' \in [Orgs -> Nat]
    BY <1>1 DEF LedgerTyped, Ledger!Charge
  <2>2. IsFiniteSet(ChargedSearches')
    BY FS_AddElement DEF LedgerTyped, Ledger!Charge
  <2> QED
    BY <2>1, <2>2 DEF LedgerTyped, Ledger!Charge
<1>3. ASSUME NEW o \in Orgs
      PROVE  credits'[o] = InitialCredits[o] - Cardinality(Ledger!Of(o, ChargedSearches'))
                                             + Cardinality(Ledger!Of(o, RefundedSearches'))
  <2>1. /\ Cardinality(Ledger!Of(o, ChargedSearches)) \in Nat
        /\ Cardinality(Ledger!Of(o, RefundedSearches)) \in Nat
    BY OfFinite, FS_CardinalityType, FS_Subset DEF LedgerTyped
  <2>2. Cardinality(Ledger!Of(o, ChargedSearches')) =
            IF s[1] = o THEN Cardinality(Ledger!Of(o, ChargedSearches)) + 1
                        ELSE Cardinality(Ledger!Of(o, ChargedSearches))
    BY OfAdd DEF LedgerTyped, Ledger!Charge
  <2>3. credits'[o] = IF s[1] = o THEN credits[o] - 1 ELSE credits[o]
    BY <1>1 DEF LedgerTyped, Ledger!Charge
  <2> QED
    BY <2>1, <2>2, <2>3 DEF LedgerTyped, LedgerConserves, Ledger!Charge
<1> QED
  BY <1>2, <1>3 DEF LedgerConserves

\* A refund gives one credit back and adds one refunded search, of the same organization.
LEMMA RefundInv ==
    ASSUME InitialCredits \in [Orgs -> Nat], LedgerInv,
           NEW s \in Ledger!Searches, Ledger!Refund(s)
    PROVE  LedgerInv'
<1> USE DEF LedgerInv
<1>1. s[1] \in Orgs
  BY DEF Ledger!Searches
<1>2. LedgerTyped'
  BY <1>1 DEF LedgerTyped, Ledger!Refund
<1>3. ASSUME NEW o \in Orgs
      PROVE  credits'[o] = InitialCredits[o] - Cardinality(Ledger!Of(o, ChargedSearches'))
                                             + Cardinality(Ledger!Of(o, RefundedSearches'))
  <2>1. /\ IsFiniteSet(RefundedSearches)
        /\ Cardinality(Ledger!Of(o, ChargedSearches)) \in Nat
        /\ Cardinality(Ledger!Of(o, RefundedSearches)) \in Nat
    BY OfFinite, FS_CardinalityType, FS_Subset DEF LedgerTyped
  <2>2. Cardinality(Ledger!Of(o, RefundedSearches')) =
            IF s[1] = o THEN Cardinality(Ledger!Of(o, RefundedSearches)) + 1
                        ELSE Cardinality(Ledger!Of(o, RefundedSearches))
    BY <2>1, OfAdd DEF Ledger!Refund
  <2>3. credits'[o] = IF s[1] = o THEN credits[o] + 1 ELSE credits[o]
    BY <1>1 DEF LedgerTyped, Ledger!Refund
  <2> QED
    BY <2>1, <2>2, <2>3 DEF LedgerTyped, LedgerConserves, Ledger!Refund
<1> QED
  BY <1>2, <1>3 DEF LedgerConserves

\* No credit is created or lost: charges and refunds account for every balance.
THEOREM CreditsConserved ==
    ASSUME InitialCredits \in [Orgs -> Nat]
    PROVE  Ledger!Spec => []LedgerInv
<1>1. Ledger!Init => LedgerInv
  BY LedgerInit
<1>2. LedgerInv /\ [Ledger!Next]_(Ledger!vars) => LedgerInv'
  <2> SUFFICES ASSUME LedgerInv, [Ledger!Next]_(Ledger!vars)
               PROVE  LedgerInv'
    OBVIOUS
  <2>1. CASE UNCHANGED Ledger!vars
    BY <2>1 DEF LedgerInv, LedgerTyped, LedgerConserves, Ledger!vars
  <2>2. ASSUME NEW s \in Ledger!Searches, Ledger!Charge(s)
        PROVE  LedgerInv'
    BY <2>2, ChargeInv
  <2>3. ASSUME NEW s \in Ledger!Searches, Ledger!Refund(s)
        PROVE  LedgerInv'
    BY <2>3, RefundInv
  <2> QED
    BY <2>1, <2>2, <2>3 DEF Ledger!Next
<1> QED
  BY <1>1, <1>2, PTL DEF Ledger!Spec

\* And so the credits of an organization are always what it was given, less the searches
\* it is charged for, plus those it was given back.
THEOREM CreditsAccounted == Spec => []Ledger!Conservation
<1>1. LedgerInv => Ledger!Conservation
  BY SameLedger DEF LedgerInv
<1>2. Ledger!Spec => []LedgerInv
  BY CreditsConserved, InitialCreditsAssumption
<1> QED
  BY <1>1, <1>2, Refinement, PTL DEF ImplementsLedger

=============================================================================
