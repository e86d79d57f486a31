--------------------------- MODULE PipelineProofs ---------------------------
(***************************************************************************)
(* The pipeline is correct for every set of jobs, candidates and handlers, *)
(* every number of attempts, stalls and faults, and every step that may    *)
(* throw.                                                                  *)
(*                                                                         *)
(* Nothing the runs check is inductive: that a completed job has settled   *)
(* all its leads depends on what its verify handlers knew at each of their *)
(* statements, and that they had anything to know on the entry of the      *)
(* verify queue being there only after the checkpoint.                     *)
(***************************************************************************)
EXTENDS Pipeline, FiniteSetTheorems, TLAPS

\* What BullMQ holds: an entry whose lock somebody holds is active, nobody shares a
\* lock, and an entry that may still be taken has an attempt left.
QueueInv ==
    /\ \A h \in Handlers : run[h].lock => entry[Item(h)].state = "active"
    /\ \A g, h \in Handlers : run[g].lock /\ run[h].lock /\ Item(g) = Item(h) => g = h
    /\ \A i \in Items :
          entry[i].state \in {"absent", "waiting", "active"} => entry[i].made < MaxAttempts

\* Every candidate of the job is a lead.
Inserted(j) == \A c \in found[j] : leads[j][c] # "none"

\* The discovered count is that of the candidates.
Counted(j) == counts[j].discovered = Cardinality(found[j])

\* Every candidate of the job has its verdict.
AllSettled(j) == \A c \in found[j] : leads[j][c] \in Settled

\* The other two counts are those of the leads.
Tallied(j, tally) ==
    /\ tally.verified = Cardinality(LeadsIn(j, "verified"))
    /\ tally.rejected = Cardinality(LeadsIn(j, "rejected"))

\* Before a job is submitted nothing is there for it.
NothingBefore(j) ==
    status[j] = "none" =>
        /\ found[j] = {}
        /\ \A c \in Candidates : leads[j][c] = "none"
        /\ j \notin refunded
        /\ sweep[j] = {}

\* A lead is a candidate of the job, and its verdict the provider's.
LeadsTruthful(j) ==
    \A c \in Candidates :
        /\ leads[j][c] # "none" => c \in found[j]
        /\ leads[j][c] = "verified" => c \in Accepted
        /\ leads[j][c] = "rejected" => c \notin Accepted

\* What the row says was done, and the refund of a cancelled job.
RowTruthful(j) ==
    /\ status[j] \in {"verifying", "completed"} => Inserted(j) /\ Counted(j)
    /\ status[j] = "completed" => AllSettled(j) /\ Tallied(j, counts[j])
    /\ status[j] = "cancelled" => j \in refunded
    /\ j \in refunded => status[j] \in {"cancelled", "failed"}
    /\ "verify" \in sweep[j] => Inserted(j)

\* An entry and a pending callback are those of a job that was submitted, and a verify
\* entry of one whose leads are in.
ItemKnows(i) ==
    /\ entry[i].state # "absent" \/ onfailed[i] # "none" => status[i[2]] # "none"
    /\ i[1] = "verify" /\ entry[i].state # "absent" => Inserted(i[2])

\* What a handler knows at each of its steps, whoever else works on the job.
HandlerKnows(h) ==
    LET j == h[2]
        step == run[h].step
    IN  /\ step # "none" => status[j] # "none"
        /\ step = "enter" => run[h].read \in Running
        /\ run[h].todo \subseteq found[j]
        /\ step \in {"count", "checkpoint", "enqueue"} \cup VerifySteps => Inserted(j)
        /\ step = "checkpoint" => Counted(j)
        /\ step \in {"v_sleep", "score"} =>
              \A c \in found[j] \ run[h].todo : leads[j][c] \in Settled
        /\ step \in {"set_counts", "complete"} => AllSettled(j)
        /\ step = "set_counts" => Tallied(j, run[h].tally)
        /\ step = "complete" => Tallied(j, counts[j])

JobInv ==
    /\ \A j \in Jobs : NothingBefore(j) /\ LeadsTruthful(j) /\ RowTruthful(j)
    /\ \A i \in Items : ItemKnows(i)
    /\ \A h \in Handlers : HandlerKnows(h)

IInv == TypeOK /\ QueueInv /\ JobInv

-----------------------------------------------------------------------------
(* What the steps have in common.                                          *)

LEMMA HandlerItem ==
    ASSUME NEW h \in Handlers
    PROVE  /\ h[1] \in Queues
           /\ h[2] \in Jobs
           /\ Item(h) \in Items
           /\ Item(h)[1] = h[1]
           /\ Item(h)[2] = h[2]
  BY DEF Handlers, Item, Items

LEMMA NoRunType == NoRun \in Runs
  BY DEF NoRun, Runs, NoTally, HandlerSteps

\* What the provider finds is a finite set of candidates.
LEMMA FoundType ==
    ASSUME TypeOK, NEW j \in Jobs
    PROVE  /\ found[j] \subseteq Candidates
           /\ IsFiniteSet(found[j])
           /\ Cardinality(found[j]) \in Nat
<1>1. found[j] \in Results \cup {{}}
  BY DEF TypeOK
<1>2. found[j] \subseteq Candidates
  BY <1>1, PipelineAssumption
<1>3. IsFiniteSet(found[j])
  BY <1>2, PipelineAssumption, FS_Subset
<1> QED
  BY <1>2, <1>3, FS_CardinalityType

LEMMA LeadsInType ==
    ASSUME NEW j \in Jobs, NEW s
    PROVE  IsFiniteSet(LeadsIn(j, s)) /\ Cardinality(LeadsIn(j, s)) \in Nat
<1>1. LeadsIn(j, s) \subseteq Candidates
  BY DEF LeadsIn
<1>2. IsFiniteSet(LeadsIn(j, s))
  BY <1>1, PipelineAssumption, FS_Subset
<1> QED
  BY <1>2, FS_CardinalityType

LEMMA InitIInv == Init => IInv
<1> SUFFICES ASSUME Init PROVE IInv
  OBVIOUS
<1>1. TypeOK
  BY NoRunType, PipelineAssumption
  DEF Init, TypeOK, NoCounts, NoEntry, Entries, Statuses, LeadStates
<1>2. QueueInv
  BY PipelineAssumption, HandlerItem DEF Init, QueueInv, NoRun, NoEntry
<1>3. ASSUME NEW j \in Jobs PROVE NothingBefore(j) /\ LeadsTruthful(j) /\ RowTruthful(j)
  BY DEF Init, NothingBefore, LeadsTruthful, RowTruthful
<1>4. ASSUME NEW i \in Items PROVE ItemKnows(i)
  BY DEF Init, ItemKnows, NoEntry
<1>5. ASSUME NEW h \in Handlers PROVE HandlerKnows(h)
  BY DEF Init, HandlerKnows, NoRun, VerifySteps
<1> QED
  BY <1>1, <1>2, <1>3, <1>4, <1>5 DEF IInv, JobInv

\* The leads and the counts of job j, and what is found for it, stay.
WorkSame(j) ==
    /\ found'[j] = found[j]
    /\ leads'[j] = leads[j]
    /\ counts'[j] = counts[j]

LEMMA SameFacts ==
    ASSUME NEW j \in Jobs, WorkSame(j)
    PROVE  /\ Inserted(j)' <=> Inserted(j)
           /\ Counted(j)' <=> Counted(j)
           /\ AllSettled(j)' <=> AllSettled(j)
           /\ \A s : LeadsIn(j, s)' = LeadsIn(j, s)
           /\ LeadsTruthful(j)' <=> LeadsTruthful(j)
<1>1. \A s : LeadsIn(j, s)' = LeadsIn(j, s)
  BY DEF WorkSame, LeadsIn
<1> QED
  BY <1>1 DEF WorkSame, Inserted, Counted, AllSettled, LeadsTruthful

LEMMA JobSame ==
    ASSUME NEW j \in Jobs, WorkSame(j), status'[j] = status[j],
           j \in refunded' <=> j \in refunded, sweep'[j] = sweep[j],
           NothingBefore(j), LeadsTruthful(j), RowTruthful(j)
    PROVE  (NothingBefore(j) /\ LeadsTruthful(j) /\ RowTruthful(j))'
<1>1. NothingBefore(j)'
  BY DEF NothingBefore, WorkSame
<1>2. RowTruthful(j)'
  BY SameFacts DEF RowTruthful, Tallied, WorkSame
<1> QED
  BY <1>1, <1>2, SameFacts

LEMMA HandlerSame ==
    ASSUME NEW g \in Handlers, WorkSame(g[2]), run'[g] = run[g],
           status[g[2]] # "none" => status'[g[2]] # "none",
           HandlerKnows(g)
    PROVE  HandlerKnows(g)'
  BY HandlerItem, SameFacts DEF HandlerKnows, Tallied, WorkSame

\* A step of a handler that tells nobody: what it knows after it is all there is to show.
LEMMA Silent ==
    ASSUME IInv, NEW h \in Handlers, NEW r \in Runs,
           run' = [run EXCEPT ![h] = r],
           r.lock => run[h].lock,
           UNCHANGED <<status, found, leads, counts, refunded, entry, onfailed, sweep>>,
           faults' \in 0..MaxFaults,
           HandlerKnows(h)'
    PROVE  IInv'
<1> USE DEF IInv
<1>1. TypeOK'
  BY DEF TypeOK
<1>2. QueueInv'
  BY DEF QueueInv, TypeOK
<1>3. ASSUME NEW j \in Jobs PROVE (NothingBefore(j) /\ LeadsTruthful(j) /\ RowTruthful(j))'
  BY JobSame DEF JobInv, WorkSame
<1>4. ASSUME NEW i \in Items PROVE ItemKnows(i)'
  BY DEF JobInv, ItemKnows, Inserted
<1>5. ASSUME NEW g \in Handlers PROVE HandlerKnows(g)'
  BY HandlerSame DEF JobInv, WorkSame, TypeOK
<1> QED
  BY <1>1, <1>2, <1>3, <1>4, <1>5 DEF JobInv

\* A handler that returned knows and holds nothing but its lock.
LEMMA ReturnRun ==
    ASSUME TypeOK, NEW h \in Handlers, Return(h)
    PROVE  \E r \in Runs :
              /\ run' = [run EXCEPT ![h] = r]
              /\ r.step = "done" /\ r.lock = run[h].lock /\ r.todo = {}
<1> DEFINE r == [NoRun EXCEPT !.step = "done", !.lock = run[h].lock]
<1>1. run[h].lock \in BOOLEAN
  BY DEF TypeOK, Runs
<1>2. NoRun \in Runs /\ NoRun.todo = {}
  BY NoRunType DEF NoRun
<1>3. r \in Runs /\ r.step = "done" /\ r.lock = run[h].lock /\ r.todo = {}
  BY <1>1, <1>2 DEF Runs, HandlerSteps
<1>4. run' = [run EXCEPT ![h] = r]
  BY DEF Return
<1> QED
  BY <1>3, <1>4

LEMMA GotoRun ==
    ASSUME TypeOK, NEW h \in Handlers, NEW step \in HandlerSteps, Goto(h, step)
    PROVE  \E r \in Runs :
              /\ run' = [run EXCEPT ![h] = r]
              /\ r.step = step
              /\ r.lock = run[h].lock /\ r.read = run[h].read
              /\ r.todo = run[h].todo /\ r.tally = run[h].tally
<1> DEFINE r == [run[h] EXCEPT !.step = step]
<1>1. run[h] \in Runs
  BY DEF TypeOK
<1>2. r \in Runs /\ r.step = step /\ r.lock = run[h].lock /\ r.read = run[h].read
              /\ r.todo = run[h].todo /\ r.tally = run[h].tally
  BY <1>1 DEF Runs
<1>3. run' = [run EXCEPT ![h] = r]
  BY DEF Goto
<1> QED
  BY <1>2, <1>3

\* Returning with nothing else to do.
LEMMA ReturnInv ==
    ASSUME IInv, NEW h \in Handlers, Return(h), run[h].step # "none",
           UNCHANGED <<status, found, leads, counts, refunded, entry, onfailed, sweep, faults>>
    PROVE  IInv'
<1>1. PICK r \in Runs : /\ run' = [run EXCEPT ![h] = r]
                        /\ r.step = "done" /\ r.lock = run[h].lock /\ r.todo = {}
  BY ReturnRun DEF IInv
<1>2. HandlerKnows(h)'
  BY <1>1, HandlerItem DEF IInv, TypeOK, JobInv, HandlerKnows, VerifySteps
<1> QED
  BY <1>1, <1>2, Silent DEF IInv, TypeOK

LEMMA FindForDiscoverInv ==
    ASSUME IInv, NEW h \in Handlers, FindForDiscover(h)
    PROVE  IInv'
<1> USE HandlerItem DEF IInv
<1>1. CASE status[h[2]] \in Terminal
  BY <1>1, ReturnInv DEF FindForDiscover
<1>2. CASE status[h[2]] \notin Terminal
  <2> DEFINE r == [run[h] EXCEPT !.read = status[h[2]], !.step = "enter"]
  <2>1. run[h] \in Runs /\ status[h[2]] \in Statuses \cup {"none"}
    BY DEF TypeOK
  <2>2. r \in Runs /\ r.lock = run[h].lock
    BY <2>1 DEF Runs, HandlerSteps, DiscoverSteps
  <2>3. run' = [run EXCEPT ![h] = r]
    BY <1>2 DEF FindForDiscover
  <2>4. HandlerKnows(h)'
    BY <1>2, <2>1, <2>3 DEF FindForDiscover, HandlerKnows, JobInv, TypeOK, Statuses, Runs, VerifySteps
  <2> HIDE DEF r
  <2> QED
    BY <1>2, <2>2, <2>3, <2>4, Silent DEF FindForDiscover, TypeOK
<1> QED
  BY <1>1, <1>2

LEMMA SleepInv ==
    ASSUME IInv, NEW h \in Handlers, NEW next \in HandlerSteps, Sleep(h, next),
           \/ run[h].step = "d_sleep" /\ next = "insert"
           \/ run[h].step = "v_sleep" /\ next = "score"
    PROVE  IInv'
<1>1. CASE status[h[2]] = "cancelled"
  BY <1>1, ReturnInv DEF Sleep
<1>2. CASE status[h[2]] # "cancelled"
  <2>1. PICK r \in Runs :
              /\ run' = [run EXCEPT ![h] = r]
              /\ r.step = next
              /\ r.lock = run[h].lock /\ r.read = run[h].read
              /\ r.todo = run[h].todo /\ r.tally = run[h].tally
    BY <1>2, GotoRun DEF IInv, Sleep
  <2>2. HandlerKnows(h)'
    BY <1>2, <2>1, HandlerItem
    DEF IInv, TypeOK, JobInv, Sleep, HandlerKnows, VerifySteps, Inserted
  <2> QED
    BY <1>2, <2>1, <2>2, Silent DEF IInv, TypeOK, Sleep
<1> QED
  BY <1>1, <1>2

LEMMA FindForVerifyInv ==
    ASSUME IInv, NEW h \in Handlers, FindForVerify(h)
    PROVE  IInv'
<1>1. CASE status[h[2]] \in Terminal
  BY <1>1, ReturnInv DEF FindForVerify
<1>2. CASE status[h[2]] \notin Terminal
  <2>1. PICK r \in Runs :
              /\ run' = [run EXCEPT ![h] = r]
              /\ r.step = "list"
              /\ r.lock = run[h].lock /\ r.read = run[h].read
              /\ r.todo = run[h].todo /\ r.tally = run[h].tally
    BY <1>2, GotoRun DEF IInv, FindForVerify, HandlerSteps, VerifySteps
  <2>2. HandlerKnows(h)'
    BY <1>2, <2>1, HandlerItem
    DEF IInv, TypeOK, JobInv, FindForVerify, HandlerKnows, VerifySteps, Inserted
  <2> QED
    BY <1>2, <2>1, <2>2, Silent DEF IInv, TypeOK, FindForVerify
<1> QED
  BY <1>1, <1>2

LEMMA ListInv ==
    ASSUME IInv, NEW h \in Handlers, List(h)
    PROVE  IInv'
<1> DEFINE r == [run[h] EXCEPT !.todo = LeadsIn(h[2], "unverified_raw"), !.step = "v_sleep"]
<1>1. run[h] \in Runs
  BY DEF IInv, TypeOK
<1>2. r \in Runs /\ r.lock = run[h].lock
  BY <1>1 DEF Runs, HandlerSteps, VerifySteps, LeadsIn
<1>3. run' = [run EXCEPT ![h] = r]
  BY DEF List
<1>4. HandlerKnows(h)'
  <2>1. run'[h].step = "v_sleep" /\ run'[h].todo = LeadsIn(h[2], "unverified_raw")
    BY <1>1, <1>3 DEF IInv, TypeOK, Runs
  <2>2. \A c \in Candidates : leads[h[2]][c] \in LeadStates
    BY HandlerItem DEF IInv, TypeOK
  <2>3. found[h[2]] \subseteq Candidates
    BY HandlerItem, FoundType DEF IInv
  <2>4. LeadsTruthful(h[2]) /\ HandlerKnows(h)
    BY HandlerItem DEF IInv, JobInv
  <2> QED
    BY <2>1, <2>2, <2>3, <2>4
    DEF List, HandlerKnows, LeadsTruthful, Inserted, LeadsIn, Settled, LeadStates, VerifySteps
<1> HIDE DEF r
<1> QED
  BY <1>2, <1>3, <1>4, Silent DEF List, IInv, TypeOK

LEMMA TallyInv ==
    ASSUME IInv, NEW h \in Handlers, Tally(h)
    PROVE  IInv'
<1> DEFINE t == [verified |-> Cardinality(LeadsIn(h[2], "verified")),
                 rejected |-> Cardinality(LeadsIn(h[2], "rejected"))]
           r == [run[h] EXCEPT !.tally = t, !.step = "set_counts"]
<1>1. run[h] \in Runs
  BY DEF IInv, TypeOK
<1>2. t \in [verified : Nat, rejected : Nat] /\ Tallied(h[2], t)
  BY LeadsInType, HandlerItem DEF Tallied
<1> HIDE DEF t
<1>3. r \in Runs /\ r.step = "set_counts" /\ r.lock = run[h].lock /\ r.tally = t /\ r.todo = run[h].todo
  BY <1>1, <1>2 DEF Runs, HandlerSteps, VerifySteps
<1>4. run' = [run EXCEPT ![h] = r]
  BY DEF Tally, t
<1> HIDE DEF r
<1>5. HandlerKnows(h)'
  <2>1. run'[h] = r /\ WorkSame(h[2]) /\ status' = status
    BY <1>4 DEF IInv, TypeOK, Tally, WorkSame
  <2>2. HandlerKnows(h) /\ run[h].step = "score" /\ run[h].todo = {}
    BY DEF IInv, JobInv, Tally, LoopDone
  <2>3. /\ t.verified = Cardinality(LeadsIn(h[2], "verified")')
        /\ t.rejected = Cardinality(LeadsIn(h[2], "rejected")')
    BY <1>2, <2>1, SameFacts, HandlerItem DEF Tallied
  <2> QED
    BY <1>3, <2>1, <2>2, <2>3, SameFacts, HandlerItem
    DEF HandlerKnows, VerifySteps, AllSettled, WorkSame, Tallied
<1> QED
  BY <1>3, <1>4, <1>5, Silent DEF Tally, IInv, TypeOK

-----------------------------------------------------------------------------
(* The guarded updates of the status.                                      *)

LEMMA AdvanceInv ==
    ASSUME IInv, NEW h \in Handlers, NEW from \in Running, NEW to \in Statuses,
           NEW next \in {"d_sleep", "enqueue", "done"},
           AdvanceOr(h, from, to, next), run[h].step # "none",
           UNCHANGED <<found, leads, counts, refunded, entry, onfailed, sweep, faults>>,
           to \in {"discovering", "verifying", "completed"},
           to \in {"verifying", "completed"} => Inserted(h[2]) /\ Counted(h[2]),
           to = "completed" => AllSettled(h[2]) /\ Tallied(h[2], counts[h[2]]),
           next = "enqueue" => Inserted(h[2])
    PROVE  IInv'
<1>1. CASE ~ StillIn(h[2], from)
  BY <1>1, ReturnInv DEF AdvanceOr
<1>2. CASE StillIn(h[2], from)
  <2> DEFINE r == [run[h] EXCEPT !.step = next, !.read = "none"]
  <2>1. run[h] \in Runs
    BY DEF IInv, TypeOK
  <2>2. r \in Runs /\ r.step = next /\ r.lock = run[h].lock /\ r.todo = run[h].todo
    BY <2>1 DEF Runs, HandlerSteps, VerifySteps, DiscoverSteps
  <2>3. run' = [run EXCEPT ![h] = r] /\ status' = [status EXCEPT ![h[2]] = to]
    BY <1>2 DEF AdvanceOr
  <2> HIDE DEF r
  <2>4. TypeOK'
    BY <2>2, <2>3 DEF IInv, TypeOK
  <2>5. QueueInv'
    BY <2>2, <2>3 DEF IInv, QueueInv, TypeOK
  <2>6. \A j \in Jobs : WorkSame(j)
    BY DEF WorkSame
  <2>7. status[h[2]] \in Running /\ h[2] \in Jobs
    BY <1>2, HandlerItem DEF StillIn
  <2>8. \A j \in Jobs : (status'[j] # status[j] => j = h[2])
    BY <2>3, HandlerItem DEF IInv, TypeOK
  <2>9. status'[h[2]] = to
    BY <2>3, HandlerItem DEF IInv, TypeOK
  <2>10. ASSUME NEW j \in Jobs PROVE (NothingBefore(j) /\ LeadsTruthful(j) /\ RowTruthful(j))'
    <3>1. CASE j # h[2]
      BY <3>1, <2>6, <2>8, JobSame DEF IInv, JobInv
    <3>2. CASE j = h[2]
      <4>1. NothingBefore(j)'
        BY <3>2, <2>9 DEF NothingBefore
      <4>2. RowTruthful(j)'
        BY <3>2, <2>6, <2>7, <2>9, SameFacts
        DEF IInv, JobInv, RowTruthful, Tallied, WorkSame, Running
      <4> QED
        BY <4>1, <4>2, <2>6, SameFacts DEF IInv, JobInv
    <3> QED
      BY <3>1, <3>2
  <2>11. ASSUME NEW i \in Items PROVE ItemKnows(i)'
    BY <2>7, <2>8, <2>9 DEF IInv, JobInv, ItemKnows, Inserted, Items, Statuses, Running, Terminal
  <2>12. ASSUME NEW g \in Handlers PROVE HandlerKnows(g)'
    <3>1. CASE g # h
      BY <3>1, <2>3, <2>6, <2>8, <2>9, HandlerSame, HandlerItem DEF IInv, JobInv, TypeOK
    <3>2. CASE g = h
      <4>1. run'[h] = r
        BY <2>3 DEF IInv, TypeOK
      <4> QED
        BY <3>2, <4>1, <2>2, <2>6, <2>9, SameFacts, HandlerItem
        DEF IInv, JobInv, HandlerKnows, VerifySteps, WorkSame
    <3> QED
      BY <3>1, <3>2
  <2> QED
    BY <2>4, <2>5, <2>10, <2>11, <2>12 DEF IInv, JobInv
<1> QED
  BY <1>1, <1>2

LEMMA EnterInv ==
    ASSUME IInv, NEW h \in Handlers, Enter(h)
    PROVE  IInv'
<1>1. run[h].read \in Running
  BY DEF IInv, JobInv, HandlerKnows, Enter
<1>2. "discovering" \in Statuses
  BY DEF Statuses, Running
<1> QED
  BY <1>1, <1>2, AdvanceInv DEF Enter

LEMMA CheckpointInv ==
    ASSUME IInv, NEW h \in Handlers, Checkpoint(h)
    PROVE  IInv'
<1>1. Inserted(h[2]) /\ Counted(h[2])
  BY DEF IInv, JobInv, HandlerKnows, Checkpoint
<1>2. "discovering" \in Running /\ "verifying" \in Statuses
  BY DEF Statuses, Running
<1> QED
  BY <1>1, <1>2, AdvanceInv DEF Checkpoint

\* The row that is completed is one that was verifying, and so it was counted before.
LEMMA CompleteInv ==
    ASSUME IInv, NEW h \in Handlers, Complete(h)
    PROVE  IInv'
<1>1. CASE status[h[2]] # "verifying"
  <2>1. Return(h) /\ UNCHANGED status
    BY <1>1 DEF Complete, AdvanceOr, StillIn
  <2> QED
    BY <2>1, ReturnInv DEF Complete
<1>2. CASE status[h[2]] = "verifying"
  <2>1. Inserted(h[2]) /\ Counted(h[2])
    BY <1>2, HandlerItem DEF IInv, JobInv, RowTruthful
  <2>2. AllSettled(h[2]) /\ Tallied(h[2], counts[h[2]])
    BY DEF IInv, JobInv, HandlerKnows, Complete
  <2>3. "verifying" \in Running /\ "completed" \in Statuses
    BY DEF Statuses, Running, Terminal
  <2> QED
    BY <2>1, <2>2, <2>3, AdvanceInv DEF Complete
<1> QED
  BY <1>1, <1>2

-----------------------------------------------------------------------------
(* The writes to the leads and to the counts.                              *)

\* Candidates are inserted once: a second handler that inserts them changes nothing.
LEMMA InsertInv ==
    ASSUME IInv, NEW h \in Handlers, Insert(h)
    PROVE  IInv'
<1> DEFINE j == h[2]
<1>1. j \in Jobs
  BY HandlerItem
<1>2. PICK r \in Runs :
              /\ run' = [run EXCEPT ![h] = r]
              /\ r.step = "count"
              /\ r.lock = run[h].lock /\ r.read = run[h].read
              /\ r.todo = run[h].todo /\ r.tally = run[h].tally
  BY GotoRun DEF IInv, Insert, HandlerSteps, DiscoverSteps
<1>3. run'[h] = r /\ \A g \in Handlers : g # h => run'[g] = run[g]
  BY <1>2 DEF IInv, TypeOK
<1>4. /\ \A k \in Jobs : k # j => leads'[k] = leads[k]
      /\ leads'[j] = WithCandidates(j)
  BY <1>1 DEF IInv, TypeOK, Insert
<1>5. \A k \in Jobs : k # j => WorkSame(k)
  BY <1>4 DEF WorkSame, Insert
<1>6. Inserted(j)' /\ LeadsTruthful(j)' /\ found[j] \subseteq Candidates
  BY <1>1, <1>4, FoundType DEF IInv, JobInv, Inserted, LeadsTruthful, WithCandidates, Insert
<1>7. Inserted(j) => WorkSame(j)
  <2> SUFFICES ASSUME Inserted(j) PROVE leads'[j] = leads[j]
    BY DEF WorkSame, Insert
  <2>1. leads[j] \in [Candidates -> LeadStates]
    BY <1>1 DEF IInv, TypeOK
  <2> QED
    BY <2>1, <1>1, <1>4 DEF Inserted, WithCandidates
<1>8. status[j] # "none"
  BY DEF IInv, JobInv, HandlerKnows, Insert
<1>9. TypeOK'
  <2>1. leads[j] \in [Candidates -> LeadStates]
    BY <1>1 DEF IInv, TypeOK
  <2>2. WithCandidates(j) \in [Candidates -> LeadStates]
    BY <2>1 DEF WithCandidates, LeadStates
  <2> QED
    BY <1>1, <1>2, <2>2 DEF IInv, TypeOK, Insert
<1>10. QueueInv'
  BY <1>2 DEF IInv, QueueInv, TypeOK, Insert
<1>11. ASSUME NEW k \in Jobs PROVE (NothingBefore(k) /\ LeadsTruthful(k) /\ RowTruthful(k))'
  <2>1. CASE WorkSame(k)
    BY <2>1, JobSame DEF IInv, JobInv, Insert
  <2>2. CASE k = j /\ ~ Inserted(j)
    BY <2>2, <1>6, <1>8 DEF IInv, JobInv, Insert, NothingBefore, RowTruthful, Counted
  <2> QED
    BY <2>1, <2>2, <1>5, <1>7
<1>12. ASSUME NEW i \in Items PROVE ItemKnows(i)'
  <2>1. CASE i[2] = j
    BY <2>1, <1>6 DEF IInv, JobInv, ItemKnows, Insert
  <2>2. CASE i[2] # j
    BY <2>2, <1>5, SameFacts DEF IInv, JobInv, ItemKnows, Insert, Items
  <2> QED
    BY <2>1, <2>2
<1>13. ASSUME NEW g \in Handlers PROVE HandlerKnows(g)'
  <2>1. CASE g = h
    BY <2>1, <1>2, <1>3, <1>6 DEF IInv, JobInv, HandlerKnows, Insert, VerifySteps
  <2>2. CASE g # h /\ WorkSame(g[2])
    BY <2>2, <1>3, HandlerSame DEF IInv, JobInv, Insert
  <2>3. CASE g # h /\ g[2] = j /\ ~ Inserted(j)
    <3>1. HandlerKnows(g) /\ run[g].step \notin {"count", "checkpoint", "enqueue"} \cup VerifySteps
      BY <2>3 DEF IInv, JobInv, HandlerKnows
    <3> QED
      BY <3>1, <2>3, <1>3 DEF HandlerKnows, Insert, VerifySteps
  <2> QED
    BY <2>1, <2>2, <2>3, <1>5, <1>7, HandlerItem
<1> QED
  BY <1>9, <1>10, <1>11, <1>12, <1>13 DEF IInv, JobInv

\* The discovered count is SET, to the same number by every handler.
LEMMA SetDiscoveredInv ==
    ASSUME IInv, NEW h \in Handlers, SetDiscovered(h)
    PROVE  IInv'
<1> DEFINE j == h[2]
<1>1. j \in Jobs
  BY HandlerItem
<1>2. PICK r \in Runs :
              /\ run' = [run EXCEPT ![h] = r]
              /\ r.step = "checkpoint"
              /\ r.lock = run[h].lock /\ r.read = run[h].read
              /\ r.todo = run[h].todo /\ r.tally = run[h].tally
  BY GotoRun DEF IInv, SetDiscovered, HandlerSteps, DiscoverSteps
<1>3. run'[h] = r /\ \A g \in Handlers : g # h => run'[g] = run[g]
  BY <1>2 DEF IInv, TypeOK
<1>4. /\ \A k \in Jobs : k # j => counts'[k] = counts[k]
      /\ counts'[j] = [counts[j] EXCEPT !.discovered = Cardinality(found[j])]
      /\ counts[j] \in [discovered : Nat, verified : Nat, rejected : Nat]
  BY <1>1 DEF IInv, TypeOK, SetDiscovered
<1>5. /\ counts'[j] \in [discovered : Nat, verified : Nat, rejected : Nat]
      /\ counts'[j].discovered = Cardinality(found[j])
      /\ counts'[j].verified = counts[j].verified
      /\ counts'[j].rejected = counts[j].rejected
  BY <1>1, <1>4, FoundType DEF IInv
<1>6. \A k \in Jobs : k # j => WorkSame(k)
  BY <1>4 DEF WorkSame, SetDiscovered
<1>7. /\ Counted(j)'
      /\ Inserted(j)' <=> Inserted(j)
      /\ AllSettled(j)' <=> AllSettled(j)
      /\ LeadsTruthful(j)' <=> LeadsTruthful(j)
      /\ \A s : LeadsIn(j, s)' = LeadsIn(j, s)
  BY <1>5 DEF Counted, Inserted, AllSettled, LeadsTruthful, LeadsIn, SetDiscovered
<1>8. TypeOK'
  BY <1>1, <1>2, <1>5 DEF IInv, TypeOK, SetDiscovered
<1>9. QueueInv'
  BY <1>2 DEF IInv, QueueInv, TypeOK, SetDiscovered
<1>10. ASSUME NEW k \in Jobs PROVE (NothingBefore(k) /\ LeadsTruthful(k) /\ RowTruthful(k))'
  <2>1. CASE k # j
    BY <2>1, <1>6, JobSame DEF IInv, JobInv, SetDiscovered
  <2>2. CASE k = j
    BY <2>2, <1>5, <1>7 DEF IInv, JobInv, SetDiscovered, NothingBefore, RowTruthful, Tallied
  <2> QED
    BY <2>1, <2>2
<1>11. ASSUME NEW i \in Items PROVE ItemKnows(i)'
  BY DEF IInv, JobInv, ItemKnows, Inserted, SetDiscovered
<1>12. ASSUME NEW g \in Handlers PROVE HandlerKnows(g)'
  <2>1. CASE g[2] # j
    BY <2>1, <1>3, <1>6, HandlerSame, HandlerItem DEF IInv, JobInv, SetDiscovered
  <2>2. CASE g = h
    BY <2>2, <1>2, <1>3, <1>7 DEF IInv, JobInv, HandlerKnows, SetDiscovered, VerifySteps
  <2>3. CASE g # h /\ g[2] = j
    BY <2>3, <1>3, <1>5, <1>7 DEF IInv, JobInv, HandlerKnows, SetDiscovered, Tallied
  <2> QED
    BY <2>1, <2>2, <2>3
<1> QED
  BY <1>8, <1>9, <1>10, <1>11, <1>12 DEF IInv, JobInv

\* A verdict that is there is written again as it is.
LEMMA ScoreInv ==
    ASSUME IInv, NEW h \in Handlers, NEW c \in Candidates, Score(h, c)
    PROVE  IInv'
<1> DEFINE j == h[2]
           verdict == IF c \in Accepted THEN "verified" ELSE "rejected"
           r == [run[h] EXCEPT !.todo = @ \ {c}]
<1>1. j \in Jobs /\ c \in found[j] /\ Inserted(j) /\ LeadsTruthful(j)
  BY HandlerItem DEF IInv, JobInv, HandlerKnows, Score, VerifySteps
<1>2. run[h] \in Runs
  BY DEF IInv, TypeOK
<1>3. r \in Runs /\ r.step = "score" /\ r.lock = run[h].lock /\ r.todo = run[h].todo \ {c}
  BY <1>2 DEF Runs, HandlerSteps, Score
<1>4. run' = [run EXCEPT ![h] = r]
  BY DEF Score
<1> HIDE DEF r
<1>5. run'[h] = r /\ \A g \in Handlers : g # h => run'[g] = run[g]
  BY <1>4 DEF IInv, TypeOK
<1>6. /\ \A k \in Jobs : k # j => leads'[k] = leads[k]
      /\ leads'[j] = [leads[j] EXCEPT ![c] = verdict]
      /\ leads[j] \in [Candidates -> LeadStates]
  BY <1>1 DEF IInv, TypeOK, Score
<1>7. verdict \in Settled /\ verdict \in LeadStates /\ verdict # "none"
  BY DEF Settled, LeadStates
<1>8. /\ leads'[j] \in [Candidates -> LeadStates]
      /\ leads'[j][c] = verdict
      /\ \A d \in Candidates : d # c => leads'[j][d] = leads[j][d]
  BY <1>6, <1>7
<1>9. \A k \in Jobs : k # j => WorkSame(k)
  BY <1>6 DEF WorkSame, Score
<1>10. /\ Inserted(j)' /\ LeadsTruthful(j)'
       /\ Counted(j)' <=> Counted(j)
  BY <1>1, <1>7, <1>8, FoundType DEF IInv, Inserted, LeadsTruthful, Counted, Score
<1>11. AllSettled(j) => WorkSame(j)
  <2> SUFFICES ASSUME AllSettled(j) PROVE leads'[j] = leads[j]
    BY DEF WorkSame, Score
  <2>1. leads[j][c] = verdict
    BY <1>1 DEF AllSettled, Settled, LeadsTruthful
  <2> QED
    BY <2>1, <1>6, <1>8
<1>12. status[j] # "none"
  BY DEF IInv, JobInv, HandlerKnows, Score
<1>13. TypeOK'
  <2>1. leads' = [leads EXCEPT ![j] = leads'[j]]
    BY <1>1, <1>8 DEF IInv, TypeOK, Score
  <2>2. leads' \in [Jobs -> [Candidates -> LeadStates]]
    BY <1>1, <1>8, <2>1 DEF IInv, TypeOK
  <2> QED
    BY <1>3, <1>4, <2>2 DEF IInv, TypeOK, Score
<1>14. QueueInv'
  BY <1>3, <1>4 DEF IInv, QueueInv, TypeOK, Score
<1>15. ASSUME NEW k \in Jobs PROVE (NothingBefore(k) /\ LeadsTruthful(k) /\ RowTruthful(k))'
  <2>1. CASE WorkSame(k)
    BY <2>1, JobSame DEF IInv, JobInv, Score
  <2>2. CASE k = j /\ ~ AllSettled(j)
    BY <2>2, <1>10, <1>12 DEF IInv, JobInv, Score, NothingBefore, RowTruthful
  <2> QED
    BY <2>1, <2>2, <1>9, <1>11
<1>16. ASSUME NEW i \in Items PROVE ItemKnows(i)'
  <2>1. CASE i[2] = j
    BY <2>1, <1>10 DEF IInv, JobInv, ItemKnows, Score
  <2>2. CASE i[2] # j
    BY <2>2, <1>9, SameFacts DEF IInv, JobInv, ItemKnows, Score, Items
  <2> QED
    BY <2>1, <2>2
<1>17. ASSUME NEW g \in Handlers PROVE HandlerKnows(g)'
  <2>1. CASE g = h
    BY <2>1, <1>1, <1>3, <1>5, <1>7, <1>8, <1>10, FoundType
    DEF IInv, JobInv, HandlerKnows, Score, VerifySteps
  <2>2. CASE g # h /\ WorkSame(g[2])
    BY <2>2, <1>5, HandlerSame DEF IInv, JobInv, Score
  <2>3. CASE g # h /\ g[2] = j /\ ~ AllSettled(j)
    <3>1. HandlerKnows(g) /\ run[g].step \notin {"set_counts", "complete"}
      BY <2>3 DEF IInv, JobInv, HandlerKnows
    <3>2. \A d \in found[j] : leads[j][d] \in Settled => leads'[j][d] \in Settled
      BY <1>1, <1>7, <1>8, FoundType DEF IInv
    <3> QED
      BY <3>1, <3>2, <2>3, <1>5, <1>10 DEF HandlerKnows, Score
  <2> QED
    BY <2>1, <2>2, <2>3, <1>9, <1>11, HandlerItem
<1> QED
  BY <1>13, <1>14, <1>15, <1>16, <1>17 DEF IInv, JobInv

\* The other two counts are SET, to the same numbers by every handler that gets here.
LEMMA SetVerifiedInv ==
    ASSUME IInv, NEW h \in Handlers, SetVerified(h)
    PROVE  IInv'
<1> DEFINE j == h[2]
           r == [run[h] EXCEPT !.step = "complete", !.tally = NoTally]
<1>1. j \in Jobs /\ AllSettled(j) /\ Inserted(j) /\ Tallied(j, run[h].tally)
  BY HandlerItem DEF IInv, JobInv, HandlerKnows, SetVerified, VerifySteps
<1>2. run[h] \in Runs /\ run[h].tally \in [verified : Nat, rejected : Nat]
  BY DEF IInv, TypeOK, Runs
<1>3. r \in Runs /\ r.step = "complete" /\ r.lock = run[h].lock /\ r.todo = run[h].todo
  BY <1>2 DEF Runs, HandlerSteps, VerifySteps, NoTally
<1>4. run' = [run EXCEPT ![h] = r]
  BY DEF SetVerified
<1> HIDE DEF r
<1>5. run'[h] = r /\ \A g \in Handlers : g # h => run'[g] = run[g]
  BY <1>4 DEF IInv, TypeOK
<1>6. /\ \A k \in Jobs : k # j => counts'[k] = counts[k]
      /\ counts'[j] = [counts[j] EXCEPT !.verified = run[h].tally.verified,
                                        !.rejected = run[h].tally.rejected]
      /\ counts[j] \in [discovered : Nat, verified : Nat, rejected : Nat]
  BY <1>1 DEF IInv, TypeOK, SetVerified
<1>7. /\ counts'[j] \in [discovered : Nat, verified : Nat, rejected : Nat]
      /\ counts'[j].discovered = counts[j].discovered
      /\ counts'[j].verified = run[h].tally.verified
      /\ counts'[j].rejected = run[h].tally.rejected
  BY <1>2, <1>6
<1>8. \A k \in Jobs : k # j => WorkSame(k)
  BY <1>6 DEF WorkSame, SetVerified
<1>9. /\ Counted(j)' <=> Counted(j)
      /\ Inserted(j)' /\ AllSettled(j)'
      /\ LeadsTruthful(j)' <=> LeadsTruthful(j)
      /\ \A s : LeadsIn(j, s)' = LeadsIn(j, s)
  BY <1>1, <1>7 DEF Counted, Inserted, AllSettled, LeadsTruthful, LeadsIn, SetVerified
<1>10. /\ counts'[j].verified = Cardinality(LeadsIn(j, "verified"))
       /\ counts'[j].rejected = Cardinality(LeadsIn(j, "rejected"))
  BY <1>1, <1>7 DEF Tallied
<1>11. TypeOK'
  BY <1>1, <1>3, <1>4, <1>7 DEF IInv, TypeOK, SetVerified
<1>12. QueueInv'
  BY <1>3, <1>4 DEF IInv, QueueInv, TypeOK, SetVerified
<1>13. ASSUME NEW k \in Jobs PROVE (NothingBefore(k) /\ LeadsTruthful(k) /\ RowTruthful(k))'
  <2>1. CASE k # j
    BY <2>1, <1>8, JobSame DEF IInv, JobInv, SetVerified
  <2>2. CASE k = j
    BY <2>2, <1>9, <1>10 DEF IInv, JobInv, SetVerified, NothingBefore, RowTruthful, Tallied
  <2> QED
    BY <2>1, <2>2
<1>14. ASSUME NEW i \in Items PROVE ItemKnows(i)'
  BY DEF IInv, JobInv, ItemKnows, Inserted, SetVerified
<1>15. ASSUME NEW g \in Handlers PROVE HandlerKnows(g)'
  <2>1. CASE g[2] # j
    BY <2>1, <1>5, <1>8, HandlerSame, HandlerItem DEF IInv, JobInv, SetVerified
  <2>2. CASE g = h
    BY <2>2, <1>3, <1>5, <1>9, <1>10 DEF IInv, JobInv, HandlerKnows, SetVerified, Tallied
  <2>3. CASE g # h /\ g[2] = j
    BY <2>3, <1>5, <1>9, <1>10 DEF IInv, JobInv, HandlerKnows, SetVerified, Tallied
  <2> QED
    BY <2>1, <2>2, <2>3
<1> QED
  BY <1>11, <1>12, <1>13, <1>14, <1>15 DEF IInv, JobInv

-----------------------------------------------------------------------------
(* The queues.                                                             *)

\* Adding an entry disturbs no other and none that is there.
LEMMA AddEntry ==
    ASSUME TypeOK, NEW q \in Queues, NEW j \in Jobs, Add(q, j)
    PROVE  /\ entry' \in [Items -> Entries]
           /\ \A i \in Items : i # <<q, j>> => entry'[i] = entry[i]
           /\ \A i \in Items : entry[i].state # "absent" => entry'[i] = entry[i]
           /\ \A i \in Items : entry'[i].made = entry[i].made
           /\ \A i \in Items : entry'[i].state = "absent" => entry[i].state = "absent"
<1>1. <<q, j>> \in Items /\ entry[<<q, j>>] \in Entries
  BY DEF TypeOK, Items
<1>2. CASE entry[<<q, j>>].state # "absent"
  BY <1>2 DEF Add, TypeOK
<1>3. CASE entry[<<q, j>>].state = "absent"
  <2> DEFINE e == [entry[<<q, j>>] EXCEPT !.state = "waiting"]
  <2>1. e \in Entries /\ e.made = entry[<<q, j>>].made /\ e.state = "waiting"
    BY <1>1 DEF Entries
  <2>2. entry' = [entry EXCEPT ![<<q, j>>] = e]
    BY <1>3 DEF Add
  <2> HIDE DEF e
  <2> QED
    BY <1>1, <1>3, <2>1, <2>2 DEF TypeOK
<1> QED
  BY <1>2, <1>3

LEMMA AddQueueInv ==
    ASSUME TypeOK, QueueInv, NEW q \in Queues, NEW j \in Jobs, Add(q, j),
           \A h \in Handlers : run'[h].lock => run[h].lock
    PROVE  QueueInv'
<1>1. \A h \in Handlers : run[h].lock => entry[Item(h)].state = "active" /\ Item(h) \in Items
  BY HandlerItem DEF QueueInv
<1>2. \A h \in Handlers : run'[h].lock => entry'[Item(h)].state = "active"
  BY <1>1, AddEntry
<1>3. \A g, h \in Handlers : run'[g].lock /\ run'[h].lock /\ Item(g) = Item(h) => g = h
  BY DEF QueueInv
<1>4. \A i \in Items :
         entry'[i].state \in {"absent", "waiting", "active"} => entry'[i].made < MaxAttempts
  BY AddEntry DEF QueueInv
<1> QED
  BY <1>2, <1>3, <1>4 DEF QueueInv

\* The steps that add an entry and leave the jobs alone.
LEMMA AddInv ==
    ASSUME IInv, NEW q \in Queues, NEW j \in Jobs, Add(q, j),
           status[j] # "none", q = "verify" => Inserted(j),
           UNCHANGED <<status, found, leads, counts, refunded, run, onfailed, faults>>,
           sweep' \in [Jobs -> SUBSET Queues],
           \A k \in Jobs : sweep'[k] \subseteq sweep[k]
    PROVE  IInv'
<1>1. TypeOK'
  BY AddEntry DEF IInv, TypeOK
<1>2. QueueInv'
  BY AddQueueInv DEF IInv
<1>3. ASSUME NEW k \in Jobs PROVE (NothingBefore(k) /\ LeadsTruthful(k) /\ RowTruthful(k))'
  <2>1. WorkSame(k)
    BY DEF WorkSame
  <2>2. sweep'[k] \subseteq sweep[k]
    OBVIOUS
  <2>3. NothingBefore(k) /\ LeadsTruthful(k) /\ RowTruthful(k)
    BY DEF IInv, JobInv
  <2> QED
    BY <2>1, <2>2, <2>3, SameFacts DEF NothingBefore, RowTruthful, Tallied, WorkSame
<1>4. ASSUME NEW i \in Items PROVE ItemKnows(i)'
  <2>1. ItemKnows(i)
    BY DEF IInv, JobInv
  <2>2. CASE i = <<q, j>>
    BY <2>2 DEF ItemKnows, Inserted
  <2>3. CASE i # <<q, j>>
    <3>1. entry'[i] = entry[i]
      BY <2>3, AddEntry DEF IInv
    <3> QED
      BY <2>1, <3>1 DEF ItemKnows, Inserted
  <2> QED
    BY <2>2, <2>3
<1>5. ASSUME NEW g \in Handlers PROVE HandlerKnows(g)'
  BY HandlerSame DEF IInv, JobInv, WorkSame
<1> QED
  BY <1>1, <1>2, <1>3, <1>4, <1>5 DEF IInv, JobInv

LEMMA EnqueueDiscoverInv ==
    ASSUME IInv, NEW j \in Jobs, EnqueueDiscover(j)
    PROVE  IInv'
  BY AddInv DEF EnqueueDiscover, IInv, TypeOK, Queues

LEMMA SweepJobInv ==
    ASSUME IInv, NEW j \in Jobs, SweepJob(j)
    PROVE  IInv'
<1>1. PICK q \in sweep[j] :
        /\ Add(q, j)
        /\ sweep' = [sweep EXCEPT ![j] = @ \ {q}]
        /\ UNCHANGED <<status, found, leads, counts, refunded, run, onfailed, faults>>
  BY DEF SweepJob
<1>2. q \in Queues /\ status[j] # "none" /\ (q = "verify" => Inserted(j))
  BY <1>1 DEF IInv, TypeOK, JobInv, NothingBefore, RowTruthful
<1>3. sweep' \in [Jobs -> SUBSET Queues] /\ \A k \in Jobs : sweep'[k] \subseteq sweep[k]
  BY <1>1 DEF IInv, TypeOK
<1> QED
  BY <1>1, <1>2, <1>3, AddInv

\* The hand-off: the entry is added and the handler returns.
LEMMA EnqueueVerifyInv ==
    ASSUME IInv, NEW h \in Handlers, EnqueueVerify(h)
    PROVE  IInv'
<1> DEFINE j == h[2]
<1>1. PICK r \in Runs : /\ run' = [run EXCEPT ![h] = r]
                        /\ r.step = "done" /\ r.lock = run[h].lock /\ r.todo = {}
  BY ReturnRun DEF IInv, EnqueueVerify
<1>2. run'[h] = r /\ \A g \in Handlers : g # h => run'[g] = run[g]
  BY <1>1 DEF IInv, TypeOK
<1>3. j \in Jobs /\ status[j] # "none" /\ Inserted(j) /\ Add("verify", j) /\ "verify" \in Queues
  BY HandlerItem DEF IInv, JobInv, HandlerKnows, EnqueueVerify, Queues
<1>4. TypeOK'
  BY <1>1, <1>3, AddEntry DEF IInv, TypeOK, EnqueueVerify
<1>5. QueueInv'
  BY <1>1, <1>2, <1>3, AddQueueInv DEF IInv
<1>6. ASSUME NEW k \in Jobs PROVE (NothingBefore(k) /\ LeadsTruthful(k) /\ RowTruthful(k))'
  BY JobSame DEF IInv, JobInv, WorkSame, EnqueueVerify
<1>7. ASSUME NEW i \in Items PROVE ItemKnows(i)'
  <2>1. ItemKnows(i)
    BY DEF IInv, JobInv
  <2>2. CASE i = <<"verify", j>>
    BY <1>3, <2>2 DEF ItemKnows, Inserted, EnqueueVerify
  <2>3. CASE i # <<"verify", j>>
    <3>1. entry'[i] = entry[i]
      BY <1>3, <2>3, AddEntry DEF IInv
    <3> QED
      BY <2>1, <3>1 DEF ItemKnows, Inserted, EnqueueVerify
  <2> QED
    BY <2>2, <2>3
<1>8. ASSUME NEW g \in Handlers PROVE HandlerKnows(g)'
  <2>1. CASE g = h
    BY <2>1, <1>1, <1>2, <1>3 DEF HandlerKnows, VerifySteps, EnqueueVerify
  <2>2. CASE g # h
    BY <2>2, <1>2, HandlerSame DEF IInv, JobInv, WorkSame, EnqueueVerify
  <2> QED
    BY <2>1, <2>2
<1> QED
  BY <1>4, <1>5, <1>6, <1>7, <1>8 DEF IInv, JobInv

\* A handler starts, or it ends in whatever way: the jobs are left alone, and what must
\* be shown is that BullMQ's books stay in order.
LEMMA StartOrEnd ==
    ASSUME IInv, NEW h \in Handlers, NEW r \in Runs,
           run' = [run EXCEPT ![h] = r],
           r.todo = {}, r.step \in {"none", "d_find", "v_find"},
           r.step = "v_find" => Inserted(h[2]),
           r.step # "none" => status[h[2]] # "none",
           UNCHANGED <<status, found, leads, counts, refunded, sweep, faults>>,
           entry' \in [Items -> Entries],
           onfailed' \in [Items -> {"none", "read", "write"}],
           \A i \in Items : entry'[i].state # "absent" => entry[i].state # "absent",
           \A i \in Items : onfailed'[i] # "none" =>
                               onfailed[i] # "none" \/ entry[i].state # "absent",
           QueueInv'
    PROVE  IInv'
<1>1. TypeOK'
  BY DEF IInv, TypeOK
<1>2. ASSUME NEW k \in Jobs PROVE (NothingBefore(k) /\ LeadsTruthful(k) /\ RowTruthful(k))'
  BY JobSame DEF IInv, JobInv, WorkSame
<1>3. ASSUME NEW i \in Items PROVE ItemKnows(i)'
  BY DEF IInv, JobInv, ItemKnows, Inserted
<1>4. ASSUME NEW g \in Handlers PROVE HandlerKnows(g)'
  <2>1. CASE g = h
    <3>1. run'[h] = r
      BY DEF IInv, TypeOK
    <3> QED
      BY <2>1, <3>1 DEF HandlerKnows, VerifySteps, Inserted
  <2>2. CASE g # h
    BY <2>2, HandlerSame DEF IInv, JobInv, WorkSame, TypeOK
  <2> QED
    BY <2>1, <2>2
<1> QED
  BY <1>1, <1>2, <1>3, <1>4 DEF IInv, JobInv

LEMMA TakeInv ==
    ASSUME IInv, NEW h \in Handlers, Take(h)
    PROVE  IInv'
<1> DEFINE r == [NoRun EXCEPT !.step = IF h[1] = "discover" THEN "d_find" ELSE "v_find",
                              !.lock = TRUE]
           e == [entry[Item(h)] EXCEPT !.state = "active"]
<1>1. Item(h) \in Items /\ entry[Item(h)] \in Entries
  BY HandlerItem DEF IInv, TypeOK
<1>2. NoRun \in Runs /\ NoRun.todo = {}
  BY NoRunType DEF NoRun
<1>3. /\ r \in Runs /\ r.todo = {} /\ r.lock
      /\ r.step = IF h[1] = "discover" THEN "d_find" ELSE "v_find"
  BY <1>2 DEF Runs, HandlerSteps, DiscoverSteps, VerifySteps
<1>4. e \in Entries /\ e.state = "active" /\ e.made = entry[Item(h)].made
  BY <1>1 DEF Entries
<1>5. run' = [run EXCEPT ![h] = r] /\ entry' = [entry EXCEPT ![Item(h)] = e]
  BY DEF Take
<1> HIDE DEF r, e
<1>6. entry' \in [Items -> Entries] /\ \A i \in Items : entry'[i] = IF i = Item(h) THEN e ELSE entry[i]
  BY <1>1, <1>4, <1>5 DEF IInv, TypeOK
<1>7. run'[h] = r /\ \A g \in Handlers : g # h => run'[g] = run[g]
  BY <1>5 DEF IInv, TypeOK
<1>8. entry[Item(h)].state = "waiting"
  BY DEF Take
<1>9. QueueInv'
  <2>1. \A g \in Handlers : run[g].lock => Item(g) # Item(h)
    BY <1>8 DEF IInv, QueueInv
  <2> QED
    BY <2>1, <1>1, <1>4, <1>6, <1>7, <1>8, HandlerItem DEF IInv, QueueInv
<1>10. status[h[2]] # "none" /\ (h[1] = "verify" => Inserted(h[2]))
  BY <1>1, <1>8, HandlerItem DEF IInv, JobInv, ItemKnows
<1>11. h[1] \in {"discover", "verify"}
  BY HandlerItem DEF Queues
<1>12. \A i \in Items : entry'[i].state # "absent" => entry[i].state # "absent"
  BY <1>4, <1>6, <1>8
<1>13. /\ onfailed' \in [Items -> {"none", "read", "write"}]
       /\ onfailed' = onfailed
       /\ UNCHANGED <<status, found, leads, counts, refunded, sweep, faults>>
  BY DEF Take, IInv, TypeOK
<1> QED
  BY <1>3, <1>5, <1>6, <1>9, <1>10, <1>11, <1>12, <1>13, StartOrEnd

LEMMA FinishInv ==
    ASSUME IInv, NEW h \in Handlers, Finish(h)
    PROVE  IInv'
<1> DEFINE e == [entry[Item(h)] EXCEPT !.state = "completed"]
<1>1. Item(h) \in Items /\ entry[Item(h)] \in Entries
  BY HandlerItem DEF IInv, TypeOK
<1>2. e \in Entries /\ e.state = "completed"
  BY <1>1 DEF Entries
<1>3. entry' = IF run[h].lock THEN [entry EXCEPT ![Item(h)] = e] ELSE entry
  BY DEF Finish
<1> HIDE DEF e
<1>4. /\ entry' \in [Items -> Entries]
      /\ \A i \in Items : entry'[i] = IF i = Item(h) /\ run[h].lock THEN e ELSE entry[i]
  BY <1>1, <1>2, <1>3 DEF IInv, TypeOK
<1>5. NoRun \in Runs /\ NoRun.todo = {} /\ NoRun.step = "none" /\ ~ NoRun.lock
  BY NoRunType DEF NoRun
<1>6. run' = [run EXCEPT ![h] = NoRun]
  BY DEF Finish
<1>7. run'[h] = NoRun /\ \A g \in Handlers : g # h => run'[g] = run[g]
  BY <1>6 DEF IInv, TypeOK
<1>8. QueueInv'
  <2>1. \A g \in Handlers : run'[g].lock =>
           /\ g # h /\ run[g].lock /\ Item(g) \in Items
           /\ ~ (run[h].lock /\ Item(g) = Item(h))
    BY <1>5, <1>7, HandlerItem DEF IInv, QueueInv
  <2>2. \A g \in Handlers : run'[g].lock => entry'[Item(g)].state = "active"
    BY <1>4, <2>1 DEF IInv, QueueInv
  <2>3. \A f, g \in Handlers : run'[f].lock /\ run'[g].lock /\ Item(f) = Item(g) => f = g
    BY <2>1 DEF IInv, QueueInv
  <2>4. \A i \in Items :
           entry'[i].state \in {"absent", "waiting", "active"} => entry'[i].made < MaxAttempts
    BY <1>2, <1>4 DEF IInv, QueueInv
  <2> QED
    BY <2>2, <2>3, <2>4 DEF QueueInv
<1>9. \A i \in Items : entry'[i].state # "absent" => entry[i].state # "absent"
  BY <1>1, <1>4, HandlerItem DEF IInv, QueueInv
<1>10. /\ onfailed' \in [Items -> {"none", "read", "write"}]
       /\ onfailed' = onfailed
       /\ UNCHANGED <<status, found, leads, counts, refunded, sweep, faults>>
  BY DEF Finish, IInv, TypeOK
<1> QED
  BY <1>4, <1>5, <1>6, <1>8, <1>9, <1>10, StartOrEnd

\* An attempt that is over was one the entry had left; the entry is not active any more.
LEMMA FailedEntry ==
    ASSUME TypeOK, QueueInv, NEW i \in Items, entry[i].state = "active",
           NEW last \in BOOLEAN, entry[i].made + 1 >= MaxAttempts => last,
           FailAttempt(i, last)
    PROVE  /\ entry' \in [Items -> Entries]
           /\ \A k \in Items : k # i => entry'[k] = entry[k]
           /\ entry'[i].state \in {"waiting", "failed"}
           /\ entry'[i].state = "waiting" => entry'[i].made < MaxAttempts
           /\ onfailed' \in [Items -> {"none", "read", "write"}]
           /\ \A k \in Items : k # i => onfailed'[k] = onfailed[k]
<1> DEFINE made == entry[i].made + 1
           state == IF last THEN "failed" ELSE "waiting"
           e == [entry[i] EXCEPT !.made = made, !.state = state]
<1>1. /\ entry[i] \in Entries /\ made \in 0..MaxAttempts
      /\ state \in {"waiting", "failed"} /\ (state = "waiting" => made < MaxAttempts)
  BY PipelineAssumption DEF TypeOK, QueueInv, Entries
<1>2. entry' = [entry EXCEPT ![i] = e]
  BY DEF FailAttempt
<1> HIDE DEF made, state
<1>3. e \in Entries /\ e.made = made /\ e.state = state
  BY <1>1 DEF Entries
<1> HIDE DEF e
<1>4. entry' \in [Items -> Entries] /\ entry'[i] = e /\ \A k \in Items : k # i => entry'[k] = entry[k]
  BY <1>2, <1>3 DEF TypeOK
<1>5. entry'[i].state \in {"waiting", "failed"} /\
      (entry'[i].state = "waiting" => entry'[i].made < MaxAttempts)
  BY <1>1, <1>3, <1>4
<1>6. /\ onfailed' \in [Items -> {"none", "read", "write"}]
      /\ \A k \in Items : k # i => onfailed'[k] = onfailed[k]
  BY DEF FailAttempt, TypeOK
<1> QED
  BY <1>4, <1>5, <1>6

LEMMA ThrowInv ==
    ASSUME IInv, NEW h \in Handlers, Throw(h)
    PROVE  IInv'
<1>1. Item(h) \in Items
  BY HandlerItem
<1>2. NoRun \in Runs /\ NoRun.todo = {} /\ NoRun.step = "none" /\ ~ NoRun.lock
  BY NoRunType DEF NoRun
<1>3. run' = [run EXCEPT ![h] = NoRun]
  BY DEF Throw
<1>4. run'[h] = NoRun /\ \A g \in Handlers : g # h => run'[g] = run[g]
  BY <1>3 DEF IInv, TypeOK
<1>5. UNCHANGED <<status, found, leads, counts, refunded, sweep, faults>>
  BY DEF Throw
<1>6. CASE ~ run[h].lock
  <2>1. UNCHANGED <<entry, onfailed>>
    BY <1>6 DEF Throw
  <2>2. QueueInv'
    BY <1>2, <1>4, <2>1 DEF IInv, QueueInv
  <2> QED
    BY <1>2, <1>3, <1>5, <2>1, <2>2, StartOrEnd DEF IInv, TypeOK
<1>7. CASE run[h].lock
  <2>1. entry[Item(h)].state = "active"
    BY <1>7 DEF IInv, QueueInv
  <2>2. FailAttempt(Item(h), entry[Item(h)].made + 1 >= MaxAttempts)
    BY <1>7 DEF Throw
  <2>3. (entry[Item(h)].made + 1 >= MaxAttempts) \in BOOLEAN
    BY <1>1, PipelineAssumption DEF IInv, TypeOK, Entries
  <2>4. /\ entry' \in [Items -> Entries]
        /\ \A k \in Items : k # Item(h) => entry'[k] = entry[k]
        /\ entry'[Item(h)].state \in {"waiting", "failed"}
        /\ entry'[Item(h)].state = "waiting" => entry'[Item(h)].made < MaxAttempts
        /\ onfailed' \in [Items -> {"none", "read", "write"}]
        /\ \A k \in Items : k # Item(h) => onfailed'[k] = onfailed[k]
    BY <1>1, <2>1, <2>2, <2>3, FailedEntry DEF IInv
  <2>5. QueueInv'
    <3>1. \A g \in Handlers : run'[g].lock =>
             g # h /\ run[g].lock /\ Item(g) \in Items /\ Item(g) # Item(h)
      BY <1>2, <1>4, <1>7, HandlerItem DEF IInv, QueueInv
    <3>2. \A g \in Handlers : run'[g].lock => entry'[Item(g)].state = "active"
      BY <2>4, <3>1 DEF IInv, QueueInv
    <3>3. \A f, g \in Handlers : run'[f].lock /\ run'[g].lock /\ Item(f) = Item(g) => f = g
      BY <3>1 DEF IInv, QueueInv
    <3>4. \A i \in Items :
             entry'[i].state \in {"absent", "waiting", "active"} => entry'[i].made < MaxAttempts
      BY <2>4 DEF IInv, QueueInv
    <3> QED
      BY <3>2, <3>3, <3>4 DEF QueueInv
  <2>6. /\ \A i \in Items : entry'[i].state # "absent" => entry[i].state # "absent"
        /\ \A i \in Items : onfailed'[i] # "none" =>
                               onfailed[i] # "none" \/ entry[i].state # "absent"
    BY <2>1, <2>4
  <2> QED
    BY <1>2, <1>3, <1>5, <2>4, <2>5, <2>6, StartOrEnd
<1> QED
  BY <1>6, <1>7

LEMMA RecoverStalledInv ==
    ASSUME IInv, NEW i \in Items, RecoverStalled(i)
    PROVE  IInv'
<1>1. entry[i].state = "active" /\ entry[i] \in Entries
  BY DEF RecoverStalled, IInv, TypeOK
<1>2. /\ entry' \in [Items -> Entries]
      /\ \A k \in Items : k # i => entry'[k] = entry[k]
      /\ entry'[i].state \in {"waiting", "failed"}
      /\ entry'[i].state = "waiting" => entry'[i].made < MaxAttempts
      /\ onfailed' \in [Items -> {"none", "read", "write"}]
      /\ \A k \in Items : k # i => onfailed'[k] = onfailed[k]
  <2>1. CASE entry[i].stalls < MaxStalls
    <3> DEFINE e == [entry[i] EXCEPT !.state = "waiting", !.stalls = @ + 1]
    <3>1. entry[i].stalls + 1 \in 0..MaxStalls
      BY <1>1, <2>1, PipelineAssumption DEF Entries
    <3>2. e \in Entries /\ e.state = "waiting" /\ e.made = entry[i].made
      BY <1>1, <3>1 DEF Entries
    <3>3. entry' = [entry EXCEPT ![i] = e] /\ onfailed' = onfailed
      BY <2>1 DEF RecoverStalled
    <3> HIDE DEF e
    <3> QED
      BY <1>1, <3>2, <3>3 DEF IInv, TypeOK, QueueInv
  <2>2. CASE ~ (entry[i].stalls < MaxStalls)
    <3>1. FailAttempt(i, TRUE)
      BY <2>2 DEF RecoverStalled
    <3> QED
      BY <1>1, <3>1, FailedEntry DEF IInv
  <2> QED
    BY <2>1, <2>2
<1>3. UNCHANGED <<status, found, leads, counts, refunded, run, sweep, faults>>
  BY DEF RecoverStalled
<1>4. TypeOK'
  BY <1>2, <1>3 DEF IInv, TypeOK
<1>5. QueueInv'
  <2>1. \A g \in Handlers : run[g].lock => Item(g) \in Items /\ Item(g) # i
    BY HandlerItem DEF RecoverStalled
  <2>2. \A g \in Handlers : run'[g].lock => entry'[Item(g)].state = "active"
    BY <1>2, <1>3, <2>1 DEF IInv, QueueInv
  <2>3. \A k \in Items :
           entry'[k].state \in {"absent", "waiting", "active"} => entry'[k].made < MaxAttempts
    BY <1>2 DEF IInv, QueueInv
  <2> QED
    BY <1>3, <2>2, <2>3 DEF IInv, QueueInv
<1>6. ASSUME NEW k \in Jobs PROVE (NothingBefore(k) /\ LeadsTruthful(k) /\ RowTruthful(k))'
  BY <1>3, JobSame DEF IInv, JobInv, WorkSame
<1>7. ASSUME NEW k \in Items PROVE ItemKnows(k)'
  BY <1>1, <1>2, <1>3 DEF IInv, JobInv, ItemKnows, Inserted
<1>8. ASSUME NEW g \in Handlers PROVE HandlerKnows(g)'
  BY <1>3, HandlerSame DEF IInv, JobInv, WorkSame
<1> QED
  BY <1>4, <1>5, <1>6, <1>7, <1>8 DEF IInv, JobInv

\* The worker dies: what it knew is gone, and so are its locks.
LEMMA CrashInv ==
    ASSUME IInv, Crash
    PROVE  IInv'
<1>1. /\ \A h \in Handlers : run'[h] = NoRun
      /\ NoRun \in Runs /\ NoRun.todo = {} /\ NoRun.step = "none" /\ ~ NoRun.lock
      /\ \A i \in Items : onfailed'[i] = "none"
      /\ \A j \in Jobs : sweep'[j] = {}
  BY NoRunType DEF Crash, NoSweep, NoRun
<1>2. /\ UNCHANGED <<status, found, leads, counts, refunded, entry>>
      /\ faults' \in 0..MaxFaults
  <2>1. faults \in 0..MaxFaults /\ MaxFaults \in Nat
    BY PipelineAssumption DEF IInv, TypeOK
  <2>2. faults < MaxFaults /\ faults' = faults + 1
    BY DEF Crash, Fault
  <2>3. faults' \in 0..MaxFaults
    BY <2>1, <2>2
  <2> QED
    BY <2>3 DEF Crash
<1>3. TypeOK'
  BY <1>1, <1>2 DEF IInv, TypeOK, Crash, NoSweep
<1>4. QueueInv'
  BY <1>1, <1>2 DEF IInv, QueueInv
<1>5. ASSUME NEW k \in Jobs PROVE (NothingBefore(k) /\ LeadsTruthful(k) /\ RowTruthful(k))'
  BY <1>1, <1>2, SameFacts DEF IInv, JobInv, NothingBefore, RowTruthful, Tallied, WorkSame
<1>6. ASSUME NEW k \in Items PROVE ItemKnows(k)'
  BY <1>1, <1>2 DEF IInv, JobInv, ItemKnows, Inserted
<1>7. ASSUME NEW g \in Handlers PROVE HandlerKnows(g)'
  BY <1>1 DEF HandlerKnows, VerifySteps
<1> QED
  BY <1>3, <1>4, <1>5, <1>6, <1>7 DEF IInv, JobInv

LEMMA LoseLockInv ==
    ASSUME IInv, NEW h \in Handlers, LoseLock(h)
    PROVE  IInv'
<1> DEFINE r == [run[h] EXCEPT !.lock = FALSE]
<1>1. run[h] \in Runs
  BY DEF IInv, TypeOK
<1>2. /\ r \in Runs /\ ~ r.lock /\ r.step = run[h].step /\ r.read = run[h].read
      /\ r.todo = run[h].todo /\ r.tally = run[h].tally
  BY <1>1 DEF Runs
<1>3. run' = [run EXCEPT ![h] = r]
  BY DEF LoseLock
<1> HIDE DEF r
<1>4. faults' \in 0..MaxFaults
  BY PipelineAssumption DEF LoseLock, Fault, IInv, TypeOK
<1>5. HandlerKnows(h)'
  <2>1. run'[h] = r /\ WorkSame(h[2]) /\ status' = status /\ HandlerKnows(h)
    BY <1>3 DEF IInv, TypeOK, JobInv, LoseLock, WorkSame
  <2> QED
    BY <2>1, <1>2, SameFacts, HandlerItem DEF HandlerKnows, Tallied, WorkSame
<1> QED
  BY <1>2, <1>3, <1>4, <1>5, Silent DEF LoseLock

-----------------------------------------------------------------------------
(* The API, the 'failed' callback and the sweep.                           *)

\* Only the status of one job changes, to one at which the row claims nothing.
LEMMA StatusInv ==
    ASSUME IInv, NEW j \in Jobs, NEW to \in {"cancelled", "failed"},
           status' = [status EXCEPT ![j] = to], status[j] # "none",
           UNCHANGED <<found, leads, counts, entry, run, sweep, faults>>,
           onfailed' \in [Items -> {"none", "read", "write"}],
           \A i \in Items : onfailed'[i] # "none" => onfailed[i] # "none",
           refunded' \in SUBSET Jobs,
           \A k \in Jobs : k # j => (k \in refunded' <=> k \in refunded),
           to = "cancelled" => j \in refunded'
    PROVE  IInv'
<1>1. status'[j] = to /\ \A k \in Jobs : k # j => status'[k] = status[k]
  BY DEF IInv, TypeOK
<1>2. TypeOK'
  BY DEF IInv, TypeOK, Statuses, Terminal
<1>3. QueueInv'
  BY DEF IInv, QueueInv
<1>4. ASSUME NEW k \in Jobs PROVE (NothingBefore(k) /\ LeadsTruthful(k) /\ RowTruthful(k))'
  <2>1. CASE k # j
    BY <1>1, <2>1, JobSame DEF IInv, JobInv, WorkSame
  <2>2. CASE k = j
    BY <1>1, <2>2, SameFacts DEF IInv, JobInv, NothingBefore, RowTruthful, WorkSame
  <2> QED
    BY <2>1, <2>2
<1>5. ASSUME NEW i \in Items PROVE ItemKnows(i)'
  BY <1>1 DEF IInv, JobInv, ItemKnows, Inserted, Items
<1>6. ASSUME NEW g \in Handlers PROVE HandlerKnows(g)'
  BY <1>1, HandlerSame, HandlerItem DEF IInv, JobInv, WorkSame
<1> QED
  BY <1>2, <1>3, <1>4, <1>5, <1>6 DEF IInv, JobInv

LEMMA CancelInv ==
    ASSUME IInv, NEW j \in Jobs, Cancel(j)
    PROVE  IInv'
  BY StatusInv DEF Cancel, IInv, TypeOK, Running

LEMMA OnFailedWriteInv ==
    ASSUME IInv, NEW i \in Items, OnFailedWrite(i)
    PROVE  IInv'
<1>1. i[2] \in Jobs /\ status[i[2]] # "none"
  BY DEF IInv, JobInv, ItemKnows, OnFailedWrite, Items
<1>2. /\ onfailed' \in [Items -> {"none", "read", "write"}]
      /\ \A k \in Items : onfailed'[k] # "none" => onfailed[k] # "none"
  BY DEF OnFailedWrite, IInv, TypeOK
<1> QED
  BY <1>1, <1>2, StatusInv DEF OnFailedWrite, IInv, TypeOK

\* Nothing of the jobs and the handlers changes, and a sweep finds what the rows say.
LEMMA ElsewhereInv ==
    ASSUME IInv,
           UNCHANGED <<status, found, leads, counts, refunded, entry, run>>,
           faults' \in 0..MaxFaults,
           onfailed' \in [Items -> {"none", "read", "write"}],
           \A i \in Items : onfailed'[i] # "none" => onfailed[i] # "none",
           sweep' \in [Jobs -> SUBSET Queues],
           \A j \in Jobs : sweep'[j] # {} => status[j] # "none",
           \A j \in Jobs : "verify" \in sweep'[j] => Inserted(j)
    PROVE  IInv'
<1>1. TypeOK'
  BY DEF IInv, TypeOK
<1>2. QueueInv'
  BY DEF IInv, QueueInv
<1>3. ASSUME NEW k \in Jobs PROVE (NothingBefore(k) /\ LeadsTruthful(k) /\ RowTruthful(k))'
  BY SameFacts DEF IInv, JobInv, NothingBefore, RowTruthful, Tallied, WorkSame
<1>4. ASSUME NEW i \in Items PROVE ItemKnows(i)'
  BY DEF IInv, JobInv, ItemKnows, Inserted
<1>5. ASSUME NEW g \in Handlers PROVE HandlerKnows(g)'
  BY HandlerSame DEF IInv, JobInv, WorkSame
<1> QED
  BY <1>1, <1>2, <1>3, <1>4, <1>5 DEF IInv, JobInv

LEMMA OnFailedReadInv ==
    ASSUME IInv, NEW i \in Items, OnFailedRead(i)
    PROVE  IInv'
<1>1. /\ onfailed' \in [Items -> {"none", "read", "write"}]
      /\ \A k \in Items : onfailed'[k] # "none" => onfailed[k] # "none"
  BY DEF OnFailedRead, IInv, TypeOK
<1> QED
  BY <1>1, ElsewhereInv DEF OnFailedRead, IInv, TypeOK, JobInv, NothingBefore, RowTruthful

\* A sweep that finds a job verifying finds its leads inserted.
LEMMA SweepListInv ==
    ASSUME IInv, SweepList
    PROVE  IInv'
<1>1. \A j \in Jobs :
         sweep'[j] = IF status[j] \in Swept THEN sweep[j] \cup {StageOf(status[j])} ELSE sweep[j]
  BY DEF SweepList
<1>2. \A j \in Jobs : StageOf(status[j]) \in Queues
  BY DEF StageOf, Queues
<1>3. sweep' \in [Jobs -> SUBSET Queues]
  <2>1. \A j \in Jobs : sweep[j] \in SUBSET Queues
    BY DEF IInv, TypeOK
  <2>2. \A j \in Jobs :
           (IF status[j] \in Swept THEN sweep[j] \cup {StageOf(status[j])} ELSE sweep[j])
              \in SUBSET Queues
    BY <1>2, <2>1
  <2> QED
    BY <2>2 DEF SweepList
<1>4. \A j \in Jobs : /\ sweep[j] # {} => status[j] # "none"
                      /\ "verify" \in sweep[j] => Inserted(j)
                      /\ status[j] = "verifying" => Inserted(j)
  BY DEF IInv, JobInv, NothingBefore, RowTruthful
<1>5. ASSUME NEW j \in Jobs
      PROVE  (sweep'[j] # {} => status[j] # "none") /\ ("verify" \in sweep'[j] => Inserted(j))
  <2>1. CASE status[j] \notin Swept
    BY <2>1, <1>1, <1>4
  <2>2. CASE status[j] \in Swept
    <3>1. status[j] # "none" /\ sweep'[j] = sweep[j] \cup {StageOf(status[j])}
      BY <2>2, <1>1 DEF Swept
    <3>2. StageOf(status[j]) = "verify" => status[j] = "verifying"
      BY DEF StageOf
    <3> QED
      BY <3>1, <3>2, <1>4
  <2> QED
    BY <2>1, <2>2
<1> QED
  BY <1>3, <1>5, ElsewhereInv DEF SweepList, IInv, TypeOK

LEMMA SweepThrowsInv ==
    ASSUME IInv, SweepThrows
    PROVE  IInv'
<1>1. sweep' \in [Jobs -> SUBSET Queues] /\ \A j \in Jobs : sweep'[j] = {}
  BY DEF SweepThrows, NoSweep
<1>2. faults' \in 0..MaxFaults
  BY PipelineAssumption DEF SweepThrows, Fault, IInv, TypeOK
<1> QED
  BY <1>1, <1>2, ElsewhereInv DEF SweepThrows, IInv, TypeOK

\* Nothing was there for the job before, whatever is found for it now.
LEMMA SubmitInv ==
    ASSUME IInv, NEW j \in Jobs, Submit(j)
    PROVE  IInv'
<1>1. PICK S \in Results : found' = [found EXCEPT ![j] = S]
  BY DEF Submit
<1>2. /\ status' = [status EXCEPT ![j] = "queued"] /\ status[j] = "none"
      /\ UNCHANGED <<leads, counts, refunded, entry, run, onfailed, sweep, faults>>
  BY DEF Submit
<1>3. /\ status'[j] = "queued" /\ found'[j] = S
      /\ \A k \in Jobs : k # j => status'[k] = status[k] /\ found'[k] = found[k]
  BY <1>1, <1>2 DEF IInv, TypeOK
<1>4. NothingBefore(j) /\ found[j] = {} /\ sweep[j] = {} /\ j \notin refunded
  BY <1>2 DEF IInv, JobInv, NothingBefore
<1>5. \A k \in Jobs : k # j => WorkSame(k)
  BY <1>2, <1>3 DEF WorkSame
<1>6. TypeOK'
  BY <1>1, <1>2 DEF IInv, TypeOK, Statuses, Running
<1>7. QueueInv'
  BY <1>2 DEF IInv, QueueInv
<1>8. ASSUME NEW k \in Jobs PROVE (NothingBefore(k) /\ LeadsTruthful(k) /\ RowTruthful(k))'
  <2>1. CASE k # j
    BY <1>2, <1>3, <1>5, <2>1, JobSame DEF IInv, JobInv
  <2>2. CASE k = j
    BY <1>2, <1>3, <1>4, <2>2 DEF NothingBefore, LeadsTruthful, RowTruthful
  <2> QED
    BY <2>1, <2>2
<1>9. ASSUME NEW i \in Items PROVE ItemKnows(i)'
  <2>1. CASE i[2] # j
    BY <1>2, <1>3, <1>5, <2>1, SameFacts DEF IInv, JobInv, ItemKnows, Items
  <2>2. CASE i[2] = j
    BY <1>2, <1>3, <2>2 DEF IInv, JobInv, ItemKnows
  <2> QED
    BY <2>1, <2>2
<1>10. ASSUME NEW g \in Handlers PROVE HandlerKnows(g)'
  <2>1. CASE g[2] # j
    BY <1>2, <1>3, <1>5, <2>1, HandlerSame, HandlerItem DEF IInv, JobInv
  <2>2. CASE g[2] = j
    BY <1>2, <1>3, <1>4, <2>2 DEF IInv, JobInv, HandlerKnows, VerifySteps
  <2> QED
    BY <2>1, <2>2
<1> QED
  BY <1>6, <1>7, <1>8, <1>9, <1>10 DEF IInv, JobInv

-----------------------------------------------------------------------------
(* Every step.                                                             *)

LEMMA DiscoverStepInv ==
    ASSUME IInv, NEW h \in Handlers, DiscoverStep(h)
    PROVE  IInv'
<1>1. ASSUME SleepBeforeDiscover(h) PROVE IInv'
  BY <1>1, SleepInv DEF SleepBeforeDiscover, HandlerSteps, DiscoverSteps
<1> QED
  BY <1>1, FindForDiscoverInv, EnterInv, InsertInv, SetDiscoveredInv, CheckpointInv,
     EnqueueVerifyInv
  DEF DiscoverStep

LEMMA VerifyStepInv ==
    ASSUME IInv, NEW h \in Handlers, VerifyStep(h)
    PROVE  IInv'
<1>1. ASSUME SleepBeforeVerify(h) PROVE IInv'
  BY <1>1, SleepInv DEF SleepBeforeVerify, HandlerSteps, VerifySteps
<1> QED
  BY <1>1, FindForVerifyInv, ListInv, ScoreInv, TallyInv, SetVerifiedInv, CompleteInv
  DEF VerifyStep

LEMMA StepInv == IInv /\ [Next]_vars => IInv'
<1> SUFFICES ASSUME IInv, [Next]_vars PROVE IInv'
  OBVIOUS
<1>1. CASE \E j \in Jobs : Api(j) \/ SweepJob(j)
  BY <1>1, SubmitInv, EnqueueDiscoverInv, CancelInv, SweepJobInv DEF Api
<1>2. CASE \E h \in Handlers : Take(h) \/ HandlerStep(h) \/ Throw(h)
  BY <1>2, TakeInv, DiscoverStepInv, VerifyStepInv, FinishInv, ThrowInv DEF HandlerStep
<1>3. CASE \E i \in Items : RecoverStalled(i) \/ OnFailedRead(i) \/ OnFailedWrite(i)
  BY <1>3, RecoverStalledInv, OnFailedReadInv, OnFailedWriteInv
<1>4. CASE SweepList
  BY <1>4, SweepListInv
<1>5. CASE FaultStep
  BY <1>5, CrashInv, SweepThrowsInv, LoseLockInv DEF FaultStep
<1>6. CASE UNCHANGED vars
  BY <1>6, ElsewhereInv DEF vars, IInv, TypeOK, JobInv, NothingBefore, RowTruthful
<1> QED
  BY <1>1, <1>2, <1>3, <1>4, <1>5, <1>6 DEF Next

\* The inductive invariant.
THEOREM Invariant == Spec => []IInv
  BY InitIInv, StepInv, PTL DEF Spec

-----------------------------------------------------------------------------
(* What it says of the pipeline.                                           *)

\* Every row, entry, handler and callback is always of its type: in particular the
\* attempts and the stalls of an entry stay within their limits.
THEOREM TypeCorrect == Spec => []TypeOK
  BY Invariant, PTL DEF IInv

\* A job past the checkpoint has all its candidates as leads and has counted them,
\* whatever was retried, re-run or overlapped on the way.
THEOREM CheckpointCorrect == Spec => []CheckpointMeansDiscovered
<1>1. IInv => CheckpointMeansDiscovered
  BY DEF IInv, JobInv, RowTruthful, Inserted, Counted, CheckpointMeansDiscovered
<1> QED
  BY <1>1, Invariant, PTL

\* A completed job has settled and counted every one of its leads.
THEOREM CompletedCorrect == Spec => []CompletedMeansSettled
<1>1. ASSUME IInv, NEW j \in Jobs PROVE \A c \in Candidates \ found[j] : leads[j][c] = "none"
  BY <1>1 DEF IInv, JobInv, LeadsTruthful
<1>2. ASSUME IInv, NEW j \in Jobs, status[j] = "completed"
      PROVE  /\ AllSettled(j) /\ Counted(j)
             /\ counts[j].verified = Cardinality(LeadsIn(j, "verified"))
             /\ counts[j].rejected = Cardinality(LeadsIn(j, "rejected"))
  BY <1>2 DEF IInv, JobInv, RowTruthful, Tallied
<1>3. ASSUME IInv, NEW j \in Jobs, AllSettled(j)
      PROVE  Cardinality(LeadsIn(j, "verified")) + Cardinality(LeadsIn(j, "rejected"))
                = Cardinality(found[j])
  <2> DEFINE V == LeadsIn(j, "verified")
             R == LeadsIn(j, "rejected")
  <2>1. V \cup R = found[j]
    BY <1>3, FoundType DEF IInv, JobInv, LeadsTruthful, AllSettled, Settled, LeadsIn
  <2>2. V \cap R = {}
    BY DEF LeadsIn
  <2>3. /\ IsFiniteSet(V) /\ Cardinality(V) \in Nat
        /\ IsFiniteSet(R) /\ Cardinality(R) \in Nat
    BY LeadsInType
  <2> HIDE DEF V, R
  <2>4. Cardinality(V \cup R) = Cardinality(V) + Cardinality(R) - Cardinality(V \cap R)
    BY <2>3, FS_Union
  <2>5. Cardinality(V \cap R) = 0
    BY <2>2, FS_EmptySet
  <2>6. Cardinality(V \cup R) = Cardinality(V) + Cardinality(R)
    BY <2>3, <2>4, <2>5
  <2>7. Cardinality(V \cup R) = Cardinality(found[j])
    BY <2>1, Zenon
  <2>8. Cardinality(V) + Cardinality(R) = Cardinality(found[j])
    BY <2>6, <2>7
  <2> QED
    BY <2>8 DEF V, R
<1>4. IInv => CompletedMeansSettled
  BY <1>1, <1>2, <1>3 DEF CompletedMeansSettled, AllSettled, Counted
<1> QED
  BY <1>4, Invariant, PTL

\* A refunded job is never delivered and never runs again, and a cancelled job is
\* always refunded, whatever stage was at work when the cancel came.
THEOREM RefundCorrect == Spec => []RefundedNeverDelivered
<1>1. IInv => RefundedNeverDelivered
  BY DEF IInv, TypeOK, JobInv, RowTruthful, RefundedNeverDelivered
<1> QED
  BY <1>1, Invariant, PTL

-----------------------------------------------------------------------------
(* What a step never does.                                                 *)

\* The steps that write leads, and those that write the status of a job.
LEMMA LeadWriters ==
    ASSUME [Next]_vars
    PROVE  \/ leads' = leads
           \/ \E h \in Handlers : Insert(h)
           \/ \E h \in Handlers, c \in Candidates : Score(h, c)
<1>1. CASE \E j \in Jobs : Api(j) \/ SweepJob(j)
  BY <1>1 DEF Api, Submit, EnqueueDiscover, Cancel, SweepJob
<1>2. ASSUME NEW h \in Handlers, Take(h) \/ Finish(h) \/ Throw(h) PROVE leads' = leads
  BY <1>2 DEF Take, Finish, Throw
<1>3. ASSUME NEW h \in Handlers, DiscoverStep(h) PROVE Insert(h) \/ leads' = leads
  BY <1>3 DEF DiscoverStep, FindForDiscover, Enter, SleepBeforeDiscover, Sleep, SetDiscovered,
              Checkpoint, EnqueueVerify
<1>4. ASSUME NEW h \in Handlers, VerifyStep(h)
      PROVE  (\E c \in Candidates : Score(h, c)) \/ leads' = leads
  BY <1>4 DEF VerifyStep, FindForVerify, List, SleepBeforeVerify, Sleep, Tally, SetVerified,
              Complete
<1>5. CASE \E i \in Items : RecoverStalled(i) \/ OnFailedRead(i) \/ OnFailedWrite(i)
  BY <1>5 DEF RecoverStalled, OnFailedRead, OnFailedWrite
<1>6. CASE SweepList \/ FaultStep \/ UNCHANGED vars
  BY <1>6 DEF SweepList, FaultStep, Crash, SweepThrows, LoseLock, vars
<1> QED
  BY <1>1, <1>2, <1>3, <1>4, <1>5, <1>6 DEF Next, HandlerStep

LEMMA StatusWriters ==
    ASSUME [Next]_vars
    PROVE  \/ status' = status
           \/ \E j \in Jobs : Submit(j) \/ Cancel(j)
           \/ \E h \in Handlers : Enter(h) \/ Checkpoint(h) \/ Complete(h)
           \/ \E i \in Items : OnFailedWrite(i)
<1>1. CASE \E j \in Jobs : Api(j) \/ SweepJob(j)
  BY <1>1 DEF Api, EnqueueDiscover, SweepJob
<1>2. ASSUME NEW h \in Handlers, Take(h) \/ Finish(h) \/ Throw(h) PROVE status' = status
  BY <1>2 DEF Take, Finish, Throw
<1>3. ASSUME NEW h \in Handlers, DiscoverStep(h) PROVE Enter(h) \/ Checkpoint(h) \/ status' = status
  BY <1>3 DEF DiscoverStep, FindForDiscover, SleepBeforeDiscover, Sleep, Insert, SetDiscovered,
              EnqueueVerify
<1>4. ASSUME NEW h \in Handlers, VerifyStep(h) PROVE Complete(h) \/ status' = status
  BY <1>4 DEF VerifyStep, FindForVerify, List, SleepBeforeVerify, Sleep, Score, Tally, SetVerified
<1>5. CASE \E i \in Items : RecoverStalled(i) \/ OnFailedRead(i) \/ OnFailedWrite(i)
  BY <1>5 DEF RecoverStalled, OnFailedRead
<1>6. CASE SweepList \/ FaultStep \/ UNCHANGED vars
  BY <1>6 DEF SweepList, FaultStep, Crash, SweepThrows, LoseLock, vars
<1> QED
  BY <1>1, <1>2, <1>3, <1>4, <1>5, <1>6 DEF Next, HandlerStep

\* A settled lead keeps its verdict: an insert finds it there, and a second verdict is
\* the first.
THEOREM VerdictsKept == Spec => SettledLeadsKept
<1>1. ASSUME IInv, [Next]_vars, NEW j \in Jobs, NEW c \in Candidates, leads[j][c] \in Settled
      PROVE  leads'[j][c] = leads[j][c]
  <2> USE <1>1
  <2>1. CASE leads' = leads
    BY <2>1
  <2>2. ASSUME NEW h \in Handlers, Insert(h) PROVE leads'[j][c] = leads[j][c]
    BY <2>2 DEF IInv, TypeOK, Insert, WithCandidates, Settled
  <2>3. ASSUME NEW h \in Handlers, NEW d \in Candidates, Score(h, d)
        PROVE  leads'[j][c] = leads[j][c]
    <3>1. leads[j][c] = IF c \in Accepted THEN "verified" ELSE "rejected"
      BY DEF IInv, JobInv, LeadsTruthful, Settled
    <3>2. /\ leads[j] \in [Candidates -> LeadStates]
          /\ leads'[j] = IF j = h[2]
                         THEN [leads[j] EXCEPT ![d] = IF d \in Accepted THEN "verified" ELSE "rejected"]
                         ELSE leads[j]
      BY <2>3, HandlerItem DEF IInv, TypeOK, Score
    <3> QED
      BY <3>1, <3>2
  <2> QED
    BY <2>1, <2>2, <2>3, LeadWriters
<1>2. IInv /\ [Next]_vars =>
        [\A j \in Jobs, c \in Candidates :
            leads[j][c] \in Settled => leads'[j][c] = leads[j][c]]_vars
  BY <1>1
<1> QED
  BY <1>2, Invariant, PTL DEF Spec, SettledLeadsKept

\* A job leaves a terminal status only to be relabelled failed: every handler that
\* advances a row does so from the running status it names.
THEOREM EndedStayEnded == Spec => EndedJobsStayEnded
<1>1. ASSUME IInv, [Next]_vars, NEW j \in Jobs, status[j] \in Terminal
      PROVE  status'[j] \in {status[j], "failed"}
  <2> USE <1>1
  <2>1. CASE status' = status
    BY <2>1
  <2>2. ASSUME NEW k \in Jobs, Submit(k) \/ Cancel(k) PROVE status'[j] = status[j]
    BY <2>2 DEF IInv, TypeOK, Submit, Cancel, Running, Terminal
  <2>3. ASSUME NEW h \in Handlers, Enter(h) \/ Checkpoint(h) \/ Complete(h)
        PROVE  status'[j] = status[j]
    <3>1. Enter(h) => run[h].read \in Running
      BY DEF IInv, JobInv, HandlerKnows, Enter
    <3>2. \/ status' = status
          \/ status[h[2]] \in Running /\ \E to \in Statuses : status' = [status EXCEPT ![h[2]] = to]
      BY <2>3, <3>1 DEF Enter, Checkpoint, Complete, AdvanceOr, StillIn, Statuses, Running, Terminal
    <3> QED
      BY <3>2, HandlerItem DEF IInv, TypeOK, Running, Terminal
  <2>4. ASSUME NEW i \in Items, OnFailedWrite(i) PROVE status'[j] \in {status[j], "failed"}
    BY <2>4 DEF IInv, TypeOK, OnFailedWrite
  <2> QED
    BY <2>1, <2>2, <2>3, <2>4, StatusWriters
<1>2. IInv /\ [Next]_vars =>
        [\A j \in Jobs : status[j] \in Terminal => status'[j] \in {status[j], "failed"}]_vars
  BY <1>1
<1> QED
  BY <1>2, Invariant, PTL DEF Spec, EndedJobsStayEnded

=============================================================================
