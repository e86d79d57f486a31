------------------------------ MODULE MockApi ------------------------------
(***************************************************************************)
(* The in-browser mock of the API (src/mocks): one store, handlers that    *)
(* await the body of a request between reading the session and acting on   *)
(* it, and jobs whose progress is a function of the clock.                 *)
(*                                                                         *)
(* Time is counted in ticks; a handler that has its body runs to its end   *)
(* within one.                                                             *)
(***************************************************************************)
EXTENDS Providers, JobStatus, FiniteSets, TLC

CONSTANTS
    Users, Orgs,         \* users and organizations
    Memberships,         \* pairs of a user and an organization
    InitialCredits,      \* the credits each organization is seeded with
    Keys,                \* idempotency keys
    Requests,            \* the requests tried: companies and roles
    Calls,               \* requests in flight
    TQueued, TDiscoverEnd, TVerifyEnd,   \* progression thresholds, in ticks
    MaxClock, MaxJobs,   \* bounds
    Null                 \* an absent value

ASSUME ThresholdAssumption ==
    /\ {TQueued, TDiscoverEnd, TVerifyEnd} \subseteq Nat
    /\ TQueued < TDiscoverEnd /\ TDiscoverEnd < TVerifyEnd
ASSUME CreditsAssumption == InitialCredits \in [Orgs -> Nat]
ASSUME KeysAssumption == MaxJobs \in Nat /\ Keys \cap 1..MaxJobs = {}
ASSUME RequestAssumption ==
    \A r \in Requests : r.companies \in Seq(Companies) /\ r.roles \in Seq(Titles)

VARIABLES
    session,   \* store.session
    credits,   \* the credits of store.orgs
    jobs,      \* store.jobs
    replays,   \* store.idempotency: the job of an organization and a key
    calls,     \* the handlers that wait for their body
    clock

vars == <<session, credits, jobs, replays, calls, clock>>

OrgsOf(u) == {o \in Orgs : <<u, o>> \in Memberships}

Idle == [op |-> "idle", user |-> Null, org |-> Null]

Init ==
    /\ session = Null
    /\ credits = InitialCredits
    /\ jobs = <<>>
    /\ replays = [s \in Orgs \X Keys |-> 0]
    /\ calls = [c \in Calls |-> Idle]
    /\ clock = 0

-----------------------------------------------------------------------------
(* Sessions.                                                               *)

\* A handler starts to read its body, with what it took from the session before.
Await(c, op, user, org) ==
    /\ calls[c] = Idle
    /\ calls' = [calls EXCEPT ![c] = [op |-> op, user |-> user, org |-> org]]
    /\ UNCHANGED <<session, credits, jobs, replays, clock>>

Return(c) == calls' = [calls EXCEPT ![c] = Idle]

LoginStart(c) == Await(c, "login", Null, Null)

Login(c) ==
    /\ calls[c].op = "login"
    /\ \E u \in Users :
        session' = [user |-> u,
                    org |-> IF Cardinality(OrgsOf(u)) = 1 THEN CHOOSE o \in OrgsOf(u) : TRUE
                                                          ELSE Null]
    /\ Return(c)
    /\ UNCHANGED <<credits, jobs, replays, clock>>

Logout ==
    /\ session' = Null
    /\ UNCHANGED <<credits, jobs, replays, calls, clock>>

ActiveOrgStart(c) ==
    /\ session # Null
    /\ Await(c, "active-org", session.user, Null)

\* The membership is that of the user before the await, the session that of now.
ActiveOrg(c) ==
    /\ calls[c].op = "active-org"
    /\ \E o \in Orgs :
        session' = IF <<calls[c].user, o>> \in Memberships /\ session # Null
                   THEN [session EXCEPT !.org = o] ELSE session
    /\ Return(c)
    /\ UNCHANGED <<credits, jobs, replays, clock>>

-----------------------------------------------------------------------------
(* Searches.                                                               *)

\* Neither a cap nor the blank companies are looked at here; a clean lead is verified.
Generated(request, dice) ==
    FlattenSeq([ci \in 1..Len(request.companies) |->
        ContactsOf(request.companies[ci], ci, dice[ci], request.roles)])

Outcome(companies) ==
    CASE "fail" \in ToSet(companies)  -> "fail"
      [] "empty" \in ToSet(companies) -> "empty"
      [] OTHER                        -> "ok"

DiceFor(request) ==
    [1..Len(request.companies) -> UNION {Rolls(count) : count \in Fanout}]

LeadsOf(request, dice) ==
    IF Outcome(request.companies) = "ok" THEN Generated(request, dice) ELSE <<>>

\* requireActiveOrg: the session's organization, without a look at the memberships.
SearchStart(c) ==
    /\ session # Null /\ session.org # Null
    /\ Await(c, "search", Null, session.org)

\* Mutant of Replayed: every submit is a new one.
ReplayedNever(o, k) == FALSE

Replayed(o, k) == k # Null /\ replays[<<o, k>>] # 0

Enough(o) == credits[o] >= 1

\* createSearch, in the same turn as the checks before it.
CreateSearch(o, k) ==
    /\ Len(jobs) < MaxJobs
    /\ credits' = [credits EXCEPT ![o] = @ - 1]
    /\ \E request \in Requests : \E dice \in DiceFor(request) :
        jobs' = Append(jobs, [org |-> o, key |-> k, created |-> clock,
                              outcome |-> Outcome(request.companies),
                              leads |-> LeadsOf(request, dice)])
    /\ replays' = IF k = Null THEN replays ELSE [replays EXCEPT ![<<o, k>>] = Len(jobs) + 1]

Searches(c) ==
    /\ calls[c].op = "search"
    /\ \E k \in Keys \cup {Null} :
        IF Replayed(calls[c].org, k) \/ ~Enough(calls[c].org)
        THEN UNCHANGED <<credits, jobs, replays>>
        ELSE CreateSearch(calls[c].org, k)
    /\ Return(c)
    /\ UNCHANGED <<session, clock>>

\* A body that is not valid ends a handler without an effect.
Invalid(c) ==
    /\ calls[c] # Idle
    /\ Return(c)
    /\ UNCHANGED <<session, credits, jobs, replays, clock>>

-----------------------------------------------------------------------------
(* Progress, as the clock tells it.                                        *)

Tick ==
    /\ clock < MaxClock
    /\ clock' = clock + 1
    /\ UNCHANGED <<session, credits, jobs, replays, calls>>

\* Math.round of the share of total that is due.
Ramp(elapsed, start, end, total) ==
    CASE elapsed <= start -> 0
      [] elapsed >= end   -> total
      [] OTHER            -> (2 * (elapsed - start) * total + (end - start)) \div (2 * (end - start))

Elapsed(j) == clock - j.created

\* Mutant of StatusOf: a failed search is taken up again once its time is over.
StatusOfForgetful(j) ==
    LET ran == Elapsed(j)
    IN  CASE ran < TQueued                           -> "queued"
          [] TQueued <= ran /\ ran < TDiscoverEnd    -> "discovering"
          [] TDiscoverEnd <= ran /\ ran < TVerifyEnd -> IF j.outcome = "fail" THEN "failed"
                                                                            ELSE "verifying"
          [] TVerifyEnd <= ran                       -> "completed"

StatusOf(j) ==
    LET ran == Elapsed(j)
    IN  CASE ran < TQueued                           -> "queued"
          [] TQueued <= ran /\ ran < TDiscoverEnd    -> "discovering"
          [] TDiscoverEnd <= ran /\ ran < TVerifyEnd -> IF j.outcome = "fail" THEN "failed"
                                                                            ELSE "verifying"
          [] TVerifyEnd <= ran                       -> IF j.outcome = "fail" THEN "failed"
                                                                            ELSE "completed"

\* Mutant of Resolved: the ramp of the leads starts with the discovery.
ResolvedEarly(j) == Ramp(Elapsed(j), TQueued, TVerifyEnd, Len(j.leads))

Discovered(j) == Ramp(Elapsed(j), TQueued, TDiscoverEnd, Len(j.leads))
Resolved(j) == Ramp(Elapsed(j), TDiscoverEnd, TVerifyEnd, Len(j.leads))

Clean(c) == c.mailbox # "junk"
CleanIn(s) == Cardinality({i \in DOMAIN s : Clean(s[i])})

\* deriveStatus: what GET /api/jobs/:id answers.
Counts(j) ==
    LET total == Len(j.leads)
        none == [discovered |-> 0, verified |-> 0, rejected |-> 0]
        of(done) == LET verified == CleanIn(SubSeq(j.leads, 1, done))
                    IN  [discovered |-> total, verified |-> verified, rejected |-> done - verified]
    IN  CASE StatusOf(j) \in {"queued", "failed"} -> none
          [] StatusOf(j) = "discovering"          -> [none EXCEPT !.discovered = Discovered(j)]
          [] StatusOf(j) = "verifying"            -> of(Ramp(Elapsed(j), TDiscoverEnd, TVerifyEnd, total))
          [] StatusOf(j) = "completed"            -> of(total)

\* deriveLeadsFor: what GET /api/leads lists of a job.
Listed(j) ==
    [i \in 1..Discovered(j) |->
        IF i > Resolved(j) THEN "unverified_raw"
        ELSE IF Clean(j.leads[i]) THEN "verified" ELSE "rejected"]

-----------------------------------------------------------------------------

Next ==
    \/ \E c \in Calls :
        \/ LoginStart(c) \/ Login(c) \/ ActiveOrgStart(c) \/ ActiveOrg(c)
        \/ SearchStart(c) \/ Searches(c) \/ Invalid(c)
    \/ Logout \/ Tick

Spec == Init /\ [][Next]_vars

-----------------------------------------------------------------------------

\* The two views of a job agree at every moment: a lead is listed as it is counted
\* (db.ts:350-413, 447-457).
JobAgreesWithLeads ==
    \A n \in DOMAIN jobs :
        LET rows == Listed(jobs[n])
            states(st) == Cardinality({i \in DOMAIN rows : rows[i] = st})
        IN  /\ Counts(jobs[n]).discovered = Len(rows)
            /\ Counts(jobs[n]).verified = states("verified")
            /\ Counts(jobs[n]).rejected = states("rejected")

\* Time never takes back what a poll has seen: the status only moves on, by steps that the
\* state machine of the worker allows, and no count shrinks (state-machine.ts, db.ts:350-413).
ProgressForward ==
    [][\A n \in DOMAIN jobs :
        /\ CanTransition(StatusOf(jobs[n]), StatusOf(jobs[n])')
        /\ \A f \in DOMAIN Counts(jobs[n]) : Counts(jobs[n])[f] <= Counts(jobs[n])'[f]]_vars

-----------------------------------------------------------------------------

\* A search without a key is a search of its own.
Charged ==
    {<<jobs[n].org, IF jobs[n].key = Null THEN n ELSE jobs[n].key>> : n \in DOMAIN jobs}

Ledger == INSTANCE CreditLedger WITH
    Keys <- Keys \cup 1..MaxJobs, charged <- Charged, refunded <- {}

\* The mock charges as the real API promises to: once for an organization and a key, and
\* never below zero, although a handler awaits its body amid it (handlers.ts:93-119).
ImplementsLedger == Ledger!Spec

=============================================================================
