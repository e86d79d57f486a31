--------------------------- MODULE MockApiProofs ---------------------------
(***************************************************************************)
(* Any users, organizations, requests, calls and thresholds: the mock's    *)
(* two views of a job agree, its progress never goes back, and it charges  *)
(* as the ledger does.                                                     *)
(*                                                                         *)
(* SessionInv says what a handler that comes back from its await can rely  *)
(* on, StoreInv ties the idempotency map to the jobs.  CountsAt is the     *)
(* form that the two views of a job have in common.  The induction, the    *)
(* concatenation and the quotient are done as in InboxProofs.              *)
(***************************************************************************)
EXTENDS MockApi, FiniteSetTheorems, SequenceTheorems, WellFoundedInduction, TLAPS

-----------------------------------------------------------------------------
(* Induction over the natural numbers, with the property given as a set.   *)

LEMMA Smallest ==
    ASSUME NEW T \in SUBSET Nat, T # {}
    PROVE  \E m \in T : \A k \in T : m <= k
<1> DEFINE R == OpToRel(<, Nat)
<1>1. IsWellFoundedOn(R, Nat)
  BY NatLessThanWellFounded
<1>2. \A k, m \in Nat : k < m => <<k, m>> \in R
  BY DEF OpToRel
<1> HIDE DEF R
<1>3. PICK m \in T : \A k \in T : <<k, m>> \notin R
  BY <1>1, WFMin
<1>4. \A k \in T : ~(k < m)
  BY <1>2, <1>3
<1> QED
  BY <1>3, <1>4

LEMMA Induction ==
    ASSUME NEW S, NEW a \in Nat, NEW b \in Nat, a \in S,
           \A n \in a..b : n \in S /\ n < b => n + 1 \in S
    PROVE  a..b \subseteq S
<1> DEFINE T == {n \in a..b : n \notin S}
<1> SUFFICES ASSUME T # {} PROVE FALSE
  OBVIOUS
<1>1. PICK m \in T : \A k \in T : m <= k
  <2>1. T \in SUBSET Nat
    OBVIOUS
  <2> HIDE DEF T
  <2> QED
    BY <2>1, Smallest
<1>2. m # a /\ m - 1 \in a..b /\ m - 1 < b
  BY <1>1
<1>3. m - 1 \in S
  BY <1>1, <1>2
<1> QED
  BY <1>1, <1>2, <1>3

-----------------------------------------------------------------------------
(* FlattenSeq gives a sequence.                                            *)

\* g tells what the first sequences give, up to each of them.
Joins(seqs, g) ==
    /\ g[1] = seqs[1]
    /\ \A i \in 2..Len(seqs) : g[i] = g[i - 1] \o seqs[i]

Up(X, n) == [1..n -> Seq(X)]

\* The prefixes exist, the definition of FlattenSeq is about them, and there is one way
\* only to have them.
LEMMA Flattened ==
    ASSUME NEW X, NEW seqs \in Seq(Seq(X)), seqs # <<>>
    PROVE  \E g \in Up(X, Len(seqs)) : Joins(seqs, g) /\ FlattenSeq(seqs) = g[Len(seqs)]
<1> DEFINE n == Len(seqs)
<1>1. n \in Nat /\ n >= 1 /\ seqs \in [1..n -> Seq(X)]
  BY LenProperties, EmptySeq
<1> HIDE DEF n
<1> DEFINE Good(g, k) == /\ g \in Up(X, k)
                         /\ g[1] = seqs[1]
                         /\ \A i \in 2..k : g[i] = g[i - 1] \o seqs[i]
           S == {k \in 1..n : \E g : Good(g, k)}
<1>2. 1 \in S
  <2> DEFINE g == [i \in 1..1 |-> seqs[1]]
  <2>1. g \in Up(X, 1)
    BY <1>1 DEF Up
  <2>2. g[1] = seqs[1] /\ 2..1 = {}
    OBVIOUS
  <2> HIDE DEF g
  <2>3. Good(g, 1)
    BY <2>1, <2>2
  <2>4. \E h : Good(h, 1)
    BY <2>3
  <2> HIDE DEF Good
  <2> QED
    BY <1>1, <2>4
<1>3. ASSUME NEW k \in 1..n, k \in S, k < n
      PROVE  k + 1 \in S
  <2>1. PICK g : Good(g, k)
    BY <1>3
  <2> DEFINE h == [i \in 1..(k + 1) |-> IF i = k + 1 THEN g[k] \o seqs[k + 1] ELSE g[i]]
  <2>2. k + 1 \in 1..n
    BY <1>1, <1>3
  <2>3. g[k] \o seqs[k + 1] \in Seq(X)
    <3>1. g[k] \in Seq(X) /\ seqs[k + 1] \in Seq(X)
      BY <1>1, <2>1, <2>2 DEF Up
    <3> QED
      BY <3>1, ConcatProperties
  <2>4. \A i \in 1..(k + 1) : i # k + 1 => i \in 1..k
    BY <1>1
  <2>5. h \in Up(X, k + 1)
    BY <2>1, <2>3, <2>4 DEF Up
  <2>6. \A i \in 1..k : h[i] = g[i]
    BY <1>1
  <2>7. h[k + 1] = g[k] \o seqs[k + 1]
    <3>1. k + 1 \in 1..(k + 1)
      BY <1>1
    <3> QED
      BY <3>1, Zenon
  <2> HIDE DEF h
  <2>8. \A i \in 2..(k + 1) : h[i] = h[i - 1] \o seqs[i]
    <3> SUFFICES ASSUME NEW i \in 2..(k + 1) PROVE h[i] = h[i - 1] \o seqs[i]
      OBVIOUS
    <3>1. CASE i = k + 1
      <4>1. h[k] = g[k] /\ i - 1 = k
        BY <2>6, <3>1
      <4> QED
        BY <2>7, <3>1, <4>1
    <3>2. CASE i # k + 1
      <4>1. i \in 2..k /\ i - 1 \in 1..k /\ i \in 1..k
        BY <3>2
      <4> QED
        BY <2>1, <2>6, <4>1
    <3> QED
      BY <3>1, <3>2
  <2>9. h[1] = seqs[1]
    BY <2>1, <2>6
  <2> QED
    BY <2>2, <2>5, <2>8, <2>9
<1>4. n \in S
  <2> HIDE DEF S
  <2>1. 1..n \subseteq S
    BY <1>1, <1>2, <1>3, Induction
  <2> QED
    BY <1>1, <2>1
<1>5. PICK g : Good(g, n)
  BY <1>4
<1>6. g = [i \in 1..n |-> IF i = 1 THEN seqs[i] ELSE g[i - 1] \o seqs[i]]
  <2>1. \A i \in 1..n : g[i] = IF i = 1 THEN seqs[i] ELSE g[i - 1] \o seqs[i]
    <3>1. \A i \in 1..n : i # 1 => i \in 2..n
      BY <1>1
    <3> QED
      BY <1>5, <3>1
  <2> QED
    BY <1>5, <2>1 DEF Up
<1> DEFINE f == CHOOSE f : f = [i \in 1..n |-> IF i = 1 THEN seqs[i] ELSE f[i - 1] \o seqs[i]]
<1>7. FlattenSeq(seqs) = f[n]
  BY <1>1 DEF FlattenSeq, n
<1>8. f = [i \in 1..n |-> IF i = 1 THEN seqs[i] ELSE f[i - 1] \o seqs[i]]
  <2> HIDE DEF Good
  <2> QED
    BY <1>6
<1> HIDE DEF f
<1> DEFINE E == {k \in 1..n : f[k] = g[k]}
<1>9. 1 \in E
  BY <1>1, <1>5, <1>8
<1>10. ASSUME NEW k \in 1..n, k \in E, k < n
       PROVE  k + 1 \in E
  <2>1. k + 1 \in 1..n /\ k + 1 \in 2..n /\ (k + 1) - 1 = k /\ k + 1 # 1
    BY <1>1, <1>10
  <2>2. f[k + 1] = f[k] \o seqs[k + 1]
    BY <1>8, <2>1
  <2>3. g[k + 1] = g[k] \o seqs[k + 1]
    BY <1>5, <2>1
  <2> QED
    BY <1>10, <2>1, <2>2, <2>3
<1>11. n \in E
  <2> HIDE DEF E
  <2>1. 1..n \subseteq E
    BY <1>1, <1>9, <1>10, Induction
  <2> QED
    BY <1>1, <2>1
<1>12. FlattenSeq(seqs) = g[n]
  BY <1>7, <1>11
<1> QED
  BY <1>5, <1>12 DEF Joins, n

LEMMA FlatTyped ==
    ASSUME NEW X, NEW seqs \in Seq(Seq(X))
    PROVE  FlattenSeq(seqs) \in Seq(X)
<1>1. CASE seqs = <<>>
  <2>1. FlattenSeq(seqs) = <<>>
    BY <1>1 DEF FlattenSeq
  <2> QED
    BY <2>1, EmptySeq
<1>2. CASE seqs # <<>>
  <2>1. PICK g \in Up(X, Len(seqs)) : FlattenSeq(seqs) = g[Len(seqs)]
    BY <1>2, Flattened
  <2>2. Len(seqs) \in Nat \ {0}
    BY <1>2, EmptySeq
  <2>3. Len(seqs) \in 1..Len(seqs)
    BY <2>2
  <2> QED
    BY <2>1, <2>3 DEF Up
<1> QED
  BY <1>1, <1>2

-----------------------------------------------------------------------------
(* The inductive invariant.                                                *)

Contacts ==
    [ci : Nat, i : Nat, mailbox : {"junk", "named"}, domain : Companies, title : Titles,
     fullName : BOOLEAN, sourceUrl : BOOLEAN]

JobRows ==
    {j \in [org : Orgs, key : Keys \cup {Null}, created : Nat, outcome : {"ok", "empty", "fail"},
            leads : Seq(Contacts)] :
        j.outcome = "fail" => j.leads = <<>>}

\* Who is logged in, and what the handlers took from the session.
SessionInv ==
    /\ session = Null \/ session \in [user : Users, org : Orgs \cup {Null}]
    /\ calls \in [Calls -> [op : {"idle", "login", "active-org", "search"},
                            user : Users \cup {Null}, org : Orgs \cup {Null}]]
    /\ \A c \in Calls : calls[c].op = "search" => calls[c].org \in Orgs

\* A key without an entry has no job.
StoreInv ==
    /\ credits \in [Orgs -> Nat]
    /\ jobs \in Seq(JobRows)
    /\ replays \in [Orgs \X Keys -> Nat]
    /\ \A o \in Orgs, k \in Keys \ {Null} :
        replays[<<o, k>>] = 0 => \A n \in 1..Len(jobs) : ~(jobs[n].org = o /\ jobs[n].key = k)

ClockInv ==
    /\ clock \in Nat
    /\ \A n \in 1..Len(jobs) : jobs[n].created <= clock

MockInv == SessionInv /\ StoreInv /\ ClockInv

-----------------------------------------------------------------------------
(* The leads of a search.                                                  *)

LEMMA ContactTyped ==
    ASSUME NEW company \in Companies, NEW ci \in Nat, NEW i \in Nat \ {0},
           NEW mailbox \in {"junk", "named"}, NEW roles \in Seq(Titles)
    PROVE  Contact(company, ci, i, mailbox, roles) \in Contacts
<1>1. (IF roles = <<>> THEN {4} ELSE roles[((i - 1) % Len(roles)) + 1]) \in Titles
  <2>1. CASE roles = <<>>
    BY <2>1 DEF Titles, Tiers
  <2>2. CASE roles # <<>>
    <3> DEFINE L == Len(roles)
    <3>1. L \in Nat \ {0} /\ roles \in [1..L -> Titles]
      BY <2>2, EmptySeq, LenProperties
    <3> HIDE DEF L
    <3>2. (i - 1) % L \in 0..(L - 1)
      BY <3>1
    <3>3. ((i - 1) % L) + 1 \in 1..L
      BY <3>1, <3>2
    <3> QED
      BY <2>2, <3>1, <3>3 DEF L
  <2> QED
    BY <2>1, <2>2
<1> QED
  BY <1>1 DEF Contact, Contacts

\* A search that fails has no leads.
LEMMA LeadsTyped ==
    ASSUME NEW r \in Requests, NEW dice \in DiceFor(r)
    PROVE  /\ LeadsOf(r, dice) \in Seq(Contacts)
           /\ Outcome(r.companies) \in {"ok", "empty", "fail"}
           /\ Outcome(r.companies) = "fail" => LeadsOf(r, dice) = <<>>
<1> DEFINE n == Len(r.companies)
           seqs == [ci \in 1..n |-> ContactsOf(r.companies[ci], ci, dice[ci], r.roles)]
<1>1. r.companies \in Seq(Companies) /\ r.roles \in Seq(Titles) /\ n \in Nat
  BY RequestAssumption, LenProperties
<1>2. ASSUME NEW ci \in 1..n
      PROVE  ContactsOf(r.companies[ci], ci, dice[ci], r.roles) \in Seq(Contacts)
  <2> DEFINE company == r.companies[ci]
             roll == dice[ci]
             s == ContactsOf(company, ci, roll, r.roles)
  <2>1. company \in Companies /\ ci \in Nat
    BY <1>1, ElementOfSeq
  <2>2. PICK count \in Fanout : roll \in [1..count -> {"junk", "named"}]
    BY DEF DiceFor, Rolls
  <2>3. count \in Nat /\ Len(roll) = count
    BY <2>2, FanoutAssumption
  <2> HIDE DEF company, roll
  <2>4. \A i \in 1..count : Contact(company, ci, i, roll[i], r.roles) \in Contacts
    BY <1>1, <2>1, <2>2, <2>3, ContactTyped
  <2>5. s = [i \in 1..count |-> Contact(company, ci, i, roll[i], r.roles)]
    BY <2>3 DEF ContactsOf
  <2> HIDE DEF s
  <2>6. s \in [1..count -> Contacts]
    BY <2>4, <2>5
  <2>7. s \in Seq(Contacts)
    BY <2>3, <2>6
  <2> QED
    BY <2>7 DEF s, company, roll
<1>3. seqs \in [1..n -> Seq(Contacts)]
  BY <1>2
<1>4. Generated(r, dice) = FlattenSeq(seqs)
  BY DEF Generated
<1> HIDE DEF n, seqs
<1>5. seqs \in Seq(Seq(Contacts))
  BY <1>1, <1>3
<1>6. Generated(r, dice) \in Seq(Contacts)
  BY <1>4, <1>5, FlatTyped
<1> QED
  BY <1>6, EmptySeq DEF LeadsOf, Outcome


-----------------------------------------------------------------------------
(* Every step keeps MockInv.                                               *)

LEMMA MockStart ==
    Init => MockInv
<1> SUFFICES ASSUME Init PROVE MockInv
  OBVIOUS
<1>1. SessionInv
  BY DEF Init, SessionInv, Idle
<1>2. jobs = <<>> /\ jobs \in Seq(JobRows) /\ Len(jobs) = 0
  BY EmptySeq DEF Init
<1>3. 1..Len(jobs) = {}
  BY <1>2
<1>4. StoreInv
  BY <1>2, <1>3, CreditsAssumption DEF Init, StoreInv
<1>5. ClockInv
  BY <1>3 DEF Init, ClockInv
<1> QED
  BY <1>1, <1>4, <1>5 DEF MockInv

\* What a login, a logout or another session step leaves alone.
LEMMA StoreKept ==
    ASSUME MockInv, UNCHANGED <<credits, jobs, replays, clock>>
    PROVE  StoreInv' /\ ClockInv'
BY DEF MockInv, StoreInv, ClockInv

LEMMA Called ==
    ASSUME MockInv, NEW c \in Calls, NEW op \in {"login", "active-org", "search"},
           NEW user \in Users \cup {Null}, NEW org \in Orgs \cup {Null},
           op = "search" => org \in Orgs, Await(c, op, user, org)
    PROVE  MockInv'
<1>1. SessionInv'
  BY DEF MockInv, SessionInv, Await
<1> QED
  BY <1>1, StoreKept DEF MockInv, Await

LEMMA Returned ==
    ASSUME SessionInv, NEW c \in Calls, Return(c),
           session' = Null \/ session' \in [user : Users, org : Orgs \cup {Null}]
    PROVE  SessionInv'
BY DEF SessionInv, Return, Idle

LEMMA LoginKeeps ==
    ASSUME MockInv, NEW c \in Calls, Login(c)
    PROVE  MockInv'
<1>1. PICK u \in Users :
        session' = [user |-> u,
                    org |-> IF Cardinality(OrgsOf(u)) = 1 THEN CHOOSE o \in OrgsOf(u) : TRUE
                                                          ELSE Null]
  BY DEF Login
<1>2. Cardinality(OrgsOf(u)) = 1 => (CHOOSE o \in OrgsOf(u) : TRUE) \in Orgs
  <2> SUFFICES ASSUME Cardinality(OrgsOf(u)) = 1
               PROVE  (CHOOSE o \in OrgsOf(u) : TRUE) \in Orgs
    OBVIOUS
  <2>1. OrgsOf(u) # {}
    BY FS_EmptySet
  <2>2. (CHOOSE o \in OrgsOf(u) : TRUE) \in OrgsOf(u)
    BY <2>1
  <2> QED
    BY <2>2 DEF OrgsOf
<1>3. session' \in [user : Users, org : Orgs \cup {Null}]
  BY <1>1, <1>2
<1>4. SessionInv'
  BY <1>3, Returned DEF Login, MockInv
<1> QED
  BY <1>4, StoreKept DEF MockInv, Login

LEMMA ActiveOrgKeeps ==
    ASSUME MockInv, NEW c \in Calls, ActiveOrg(c)
    PROVE  MockInv'
<1>1. PICK o \in Orgs :
        session' = IF <<calls[c].user, o>> \in Memberships /\ session # Null
                   THEN [session EXCEPT !.org = o] ELSE session
  BY DEF ActiveOrg
<1>2. session' = Null \/ session' \in [user : Users, org : Orgs \cup {Null}]
  BY <1>1 DEF MockInv, SessionInv
<1>3. SessionInv'
  BY <1>2, Returned DEF ActiveOrg, MockInv
<1> QED
  BY <1>3, StoreKept DEF MockInv, ActiveOrg

\* The row that createSearch appends.
LEMMA NewJob ==
    ASSUME MockInv, NEW o \in Orgs, NEW k \in Keys \cup {Null}, CreateSearch(o, k)
    PROVE  \E j \in JobRows : /\ jobs' = Append(jobs, j)
                              /\ j.org = o /\ j.key = k /\ j.created = clock
<1>1. PICK request \in Requests : \E dice \in DiceFor(request) :
        jobs' = Append(jobs, [org |-> o, key |-> k, created |-> clock,
                              outcome |-> Outcome(request.companies),
                              leads |-> LeadsOf(request, dice)])
  BY DEF CreateSearch
<1>2. PICK dice \in DiceFor(request) :
        jobs' = Append(jobs, [org |-> o, key |-> k, created |-> clock,
                              outcome |-> Outcome(request.companies),
                              leads |-> LeadsOf(request, dice)])
  BY <1>1
<1> DEFINE j == [org |-> o, key |-> k, created |-> clock,
                 outcome |-> Outcome(request.companies), leads |-> LeadsOf(request, dice)]
<1>3. /\ LeadsOf(request, dice) \in Seq(Contacts)
      /\ Outcome(request.companies) \in {"ok", "empty", "fail"}
      /\ Outcome(request.companies) = "fail" => LeadsOf(request, dice) = <<>>
  BY LeadsTyped
<1>4. clock \in Nat
  BY DEF MockInv, ClockInv
<1>5. j \in JobRows
  BY <1>3, <1>4 DEF JobRows
<1> QED
  BY <1>2, <1>5

LEMMA CreateKeeps ==
    ASSUME MockInv, NEW o \in Orgs, NEW k \in Keys \cup {Null}, CreateSearch(o, k), Enough(o),
           UNCHANGED clock
    PROVE  StoreInv' /\ ClockInv'
<1>1. PICK j \in JobRows : jobs' = Append(jobs, j) /\ j.org = o /\ j.key = k /\ j.created = clock
  BY NewJob
<1> DEFINE L == Len(jobs)
<1>2. jobs \in Seq(JobRows) /\ L \in Nat
  BY LenProperties DEF MockInv, StoreInv
<1>3. /\ jobs' \in Seq(JobRows) /\ Len(jobs') = L + 1
      /\ \A i \in 1..L : jobs'[i] = jobs[i]
      /\ jobs'[L + 1] = j
  BY <1>1, <1>2, AppendProperties
<1>4. replays' = IF k = Null THEN replays ELSE [replays EXCEPT ![<<o, k>>] = L + 1]
  BY DEF CreateSearch
<1> HIDE DEF L
<1>5. \A n \in 1..(L + 1) : n # L + 1 => n \in 1..L
  BY <1>2
<1>6. credits' \in [Orgs -> Nat]
  <2>1. credits \in [Orgs -> Nat] /\ credits[o] >= 1
    BY DEF MockInv, StoreInv, Enough
  <2>2. credits' = [credits EXCEPT ![o] = @ - 1]
    BY DEF CreateSearch
  <2> QED
    BY <2>1, <2>2
<1>7. replays \in [Orgs \X Keys -> Nat]
  BY DEF MockInv, StoreInv
<1>8. replays' \in [Orgs \X Keys -> Nat]
  BY <1>2, <1>4, <1>7
<1>9. ASSUME NEW p \in Orgs, NEW q \in Keys \ {Null}, replays'[<<p, q>>] = 0,
             NEW n \in 1..Len(jobs')
      PROVE  ~(jobs'[n].org = p /\ jobs'[n].key = q)
  <2>1. CASE p = o /\ q = k
    <3>1. replays'[<<p, q>>] = L + 1
      BY <1>4, <1>7, <2>1
    <3> QED
      BY <1>2, <1>9, <3>1
  <2>2. CASE ~(p = o /\ q = k)
    <3>1. replays[<<p, q>>] = 0
      BY <1>4, <1>7, <1>9, <2>2
    <3>2. \A m \in 1..L : ~(jobs[m].org = p /\ jobs[m].key = q)
      BY <3>1 DEF MockInv, StoreInv, L
    <3>3. CASE n = L + 1
      BY <1>1, <1>3, <2>2, <3>3
    <3>4. CASE n # L + 1
      BY <1>3, <1>5, <3>2, <3>4
    <3> QED
      BY <3>3, <3>4
  <2> QED
    BY <2>1, <2>2
<1>10. StoreInv'
  BY <1>3, <1>6, <1>8, <1>9 DEF StoreInv
<1>11. ClockInv'
  <2>1. clock' = clock /\ clock \in Nat /\ \A n \in 1..L : jobs[n].created <= clock
    BY DEF MockInv, ClockInv, L
  <2>2. ASSUME NEW n \in 1..Len(jobs')
        PROVE  jobs'[n].created <= clock'
    BY <1>1, <1>3, <1>5, <2>1
  <2> QED
    BY <2>1, <2>2 DEF ClockInv
<1> QED
  BY <1>10, <1>11

\* The search either changes nothing or creates a job it has a credit for.
LEMMA SearchCases ==
    ASSUME MockInv, NEW c \in Calls, Searches(c)
    PROVE  \/ UNCHANGED <<credits, jobs, replays>>
           \/ \E o \in Orgs, k \in Keys \cup {Null} :
                CreateSearch(o, k) /\ Enough(o) /\ ~Replayed(o, k)
<1>1. calls[c].org \in Orgs
  BY DEF MockInv, SessionInv, Searches
<1> QED
  BY <1>1 DEF Searches

LEMMA SearchesKeeps ==
    ASSUME MockInv, NEW c \in Calls, Searches(c)
    PROVE  MockInv'
<1>1. SessionInv'
  <2>1. session' = session /\ Return(c)
    BY DEF Searches
  <2> QED
    BY <2>1, Returned DEF MockInv, SessionInv
<1>2. UNCHANGED clock
  BY DEF Searches
<1>3. CASE UNCHANGED <<credits, jobs, replays>>
  BY <1>1, <1>2, <1>3, StoreKept DEF MockInv
<1>4. CASE \E o \in Orgs, k \in Keys \cup {Null} :
             CreateSearch(o, k) /\ Enough(o) /\ ~Replayed(o, k)
  BY <1>1, <1>2, <1>4, CreateKeeps DEF MockInv
<1> QED
  BY <1>3, <1>4, SearchCases

LEMMA MockStep ==
    MockInv /\ [Next]_vars => MockInv'
<1> SUFFICES ASSUME MockInv, [Next]_vars PROVE MockInv'
  OBVIOUS
<1>1. ASSUME NEW c \in Calls, LoginStart(c) PROVE MockInv'
  BY <1>1, Called DEF LoginStart
<1>2. ASSUME NEW c \in Calls, Login(c) PROVE MockInv'
  BY <1>2, LoginKeeps
<1>3. ASSUME NEW c \in Calls, ActiveOrgStart(c) PROVE MockInv'
  <2>1. session.user \in Users
    BY <1>3 DEF ActiveOrgStart, MockInv, SessionInv
  <2> QED
    BY <1>3, <2>1, Called DEF ActiveOrgStart
<1>4. ASSUME NEW c \in Calls, ActiveOrg(c) PROVE MockInv'
  BY <1>4, ActiveOrgKeeps
<1>5. ASSUME NEW c \in Calls, SearchStart(c) PROVE MockInv'
  <2>1. session.org \in Orgs
    BY <1>5 DEF SearchStart, MockInv, SessionInv
  <2> QED
    BY <1>5, <2>1, Called DEF SearchStart
<1>6. ASSUME NEW c \in Calls, Searches(c) PROVE MockInv'
  BY <1>6, SearchesKeeps
<1>7. ASSUME NEW c \in Calls, Invalid(c) PROVE MockInv'
  <2>1. SessionInv'
    BY <1>7, Returned DEF Invalid, MockInv, SessionInv
  <2> QED
    BY <1>7, <2>1, StoreKept DEF Invalid, MockInv
<1>8. CASE Logout
  <2>1. SessionInv'
    BY <1>8 DEF Logout, MockInv, SessionInv
  <2> QED
    BY <1>8, <2>1, StoreKept DEF Logout, MockInv
<1>9. CASE Tick
  <2>1. SessionInv' /\ StoreInv'
    BY <1>9 DEF Tick, MockInv, SessionInv, StoreInv
  <2>2. clock \in Nat /\ clock' = clock + 1 /\ jobs' = jobs
    BY <1>9 DEF Tick, MockInv, ClockInv
  <2>3. \A n \in 1..Len(jobs) : jobs[n].created \in Nat /\ jobs[n].created <= clock
    <3>1. \A n \in 1..Len(jobs) : jobs[n] \in JobRows
      BY ElementOfSeq DEF MockInv, StoreInv
    <3> QED
      BY <3>1 DEF MockInv, ClockInv, JobRows
  <2>4. ClockInv'
    BY <2>2, <2>3 DEF ClockInv
  <2> QED
    BY <2>1, <2>4 DEF MockInv
<1>10. CASE UNCHANGED vars
  <2>1. SessionInv'
    BY <1>10 DEF vars, MockInv, SessionInv
  <2> QED
    BY <1>10, <2>1, StoreKept DEF vars, MockInv
<1> QED
  BY <1>1, <1>2, <1>3, <1>4, <1>5, <1>6, <1>7, <1>8, <1>9, <1>10 DEF Next

\* The handlers, each cut in two by its await, and the clock keep MockInv
\* (handlers.ts:54-119, db.ts:290-343).
THEOREM MockInductive == Spec => []MockInv
BY MockStart, MockStep, PTL DEF Spec


-----------------------------------------------------------------------------
(* The mock charges as the ledger does.                                    *)

\* The pair that a job of organization o under key k, the n-th one, is charged as.
Paid(o, k, n) == <<o, IF k = Null THEN n ELSE k>>

\* The pair of a new job is one that no job has: a key without an entry in replays has no
\* job, and the number of a job is no key.
LEMMA NewlyPaid ==
    ASSUME MockInv, NEW o \in Orgs, NEW k \in Keys \cup {Null}, ~Replayed(o, k),
           Len(jobs) < MaxJobs
    PROVE  Paid(o, k, Len(jobs) + 1) \notin Charged
<1> DEFINE L == Len(jobs)
<1>1. jobs \in Seq(JobRows) /\ L \in Nat /\ DOMAIN jobs = 1..L
  BY LenProperties DEF MockInv, StoreInv
<1>2. \A n \in 1..L : jobs[n].key \in Keys \cup {Null}
  <2>1. \A n \in 1..L : jobs[n] \in JobRows
    BY <1>1, ElementOfSeq
  <2> QED
    BY <2>1 DEF JobRows
<1>3. k # Null => \A n \in 1..L : ~(jobs[n].org = o /\ jobs[n].key = k)
  BY DEF Replayed, MockInv, StoreInv
<1> HIDE DEF L
<1>4. L + 1 \in 1..MaxJobs /\ \A n \in 1..L : n \in 1..MaxJobs /\ n # L + 1
  BY <1>1, KeysAssumption DEF L
<1>5. ASSUME NEW n \in 1..L,
             Paid(o, k, L + 1) = <<jobs[n].org, IF jobs[n].key = Null THEN n ELSE jobs[n].key>>
      PROVE  FALSE
  <2> DEFINE p == jobs[n].org
             q == jobs[n].key
  <2>1. p = o /\ (IF k = Null THEN L + 1 ELSE k) = (IF q = Null THEN n ELSE q)
    BY <1>5 DEF Paid
  <2>2. q \in Keys \cup {Null} /\ (k # Null => ~(p = o /\ q = k))
    BY <1>2, <1>3
  <2>3. n \in 1..MaxJobs /\ n # L + 1 /\ L + 1 \in 1..MaxJobs
    BY <1>4
  <2> HIDE DEF p, q
  <2> QED
    BY <2>1, <2>2, <2>3, KeysAssumption
<1> QED
  BY <1>1, <1>5 DEF Charged, L

LEMMA CreateCharges ==
    ASSUME MockInv, NEW o \in Orgs, NEW k \in Keys \cup {Null}, CreateSearch(o, k),
           Enough(o), ~Replayed(o, k)
    PROVE  Ledger!Next
<1> DEFINE L == Len(jobs)
           s == Paid(o, k, L + 1)
<1>1. PICK j \in JobRows : jobs' = Append(jobs, j) /\ j.org = o /\ j.key = k /\ j.created = clock
  BY NewJob
<1>2. jobs \in Seq(JobRows) /\ L \in Nat /\ DOMAIN jobs = 1..L
  BY LenProperties DEF MockInv, StoreInv
<1>3. /\ jobs' \in Seq(JobRows) /\ Len(jobs') = L + 1
      /\ \A i \in 1..L : jobs'[i] = jobs[i]
      /\ jobs'[L + 1] = j
  BY <1>1, <1>2, AppendProperties
<1>4. DOMAIN jobs' = 1..(L + 1)
  BY <1>3, LenProperties
<1>5. L < MaxJobs /\ MaxJobs \in Nat
  BY KeysAssumption DEF CreateSearch
<1>6. s \notin Charged
  BY <1>5, NewlyPaid
<1>7. s[1] = o /\ s \in Ledger!Searches
  BY <1>2, <1>5 DEF Paid, Ledger!Searches
<1>8. Charged' = Charged \cup {s}
  <2> DEFINE pair(J, n) == <<J[n].org, IF J[n].key = Null THEN n ELSE J[n].key>>
  <2>1. 1..(L + 1) = (1..L) \cup {L + 1}
    BY <1>2
  <2>2. \A n \in 1..L : pair(jobs', n) = pair(jobs, n)
    BY <1>3
  <2>3. pair(jobs', L + 1) = s
    BY <1>1, <1>3 DEF Paid
  <2>4. Charged = {pair(jobs, n) : n \in 1..L}
    BY <1>2 DEF Charged
  <2>5. Charged' = {pair(jobs', n) : n \in 1..(L + 1)}
    BY <1>4 DEF Charged
  <2> HIDE DEF pair, s, L
  <2> QED
    BY <2>1, <2>2, <2>3, <2>4, <2>5
<1> HIDE DEF s
<1>9. Ledger!Charge(s)
  BY <1>6, <1>7, <1>8 DEF Ledger!Charge, CreateSearch, Enough
<1> QED
  BY <1>7, <1>9 DEF Ledger!Next

LEMMA LedgerStart ==
    Init => Ledger!Init
<1> SUFFICES ASSUME Init PROVE Ledger!Init
  OBVIOUS
<1>1. DOMAIN jobs = {}
  BY DEF Init
<1> QED
  BY <1>1 DEF Init, Ledger!Init, Charged

LEMMA LedgerStep ==
    MockInv /\ [Next]_vars => [Ledger!Next]_Ledger!vars
<1> SUFFICES ASSUME MockInv, [Next]_vars PROVE [Ledger!Next]_Ledger!vars
  OBVIOUS
<1>1. UNCHANGED <<credits, jobs>> => UNCHANGED Ledger!vars
  BY DEF Ledger!vars, Charged
<1>2. ASSUME NEW c \in Calls, Searches(c)
      PROVE  [Ledger!Next]_Ledger!vars
  BY <1>1, <1>2, SearchCases, CreateCharges
<1>3. CASE ~(\E c \in Calls : Searches(c))
  <2>1. UNCHANGED <<credits, jobs>>
    BY <1>3 DEF Next, vars, LoginStart, Login, ActiveOrgStart, ActiveOrg, SearchStart, Invalid,
                Await, Logout, Tick
  <2> QED
    BY <1>1, <2>1
<1> QED
  BY <1>2, <1>3

\* The mock implements the ledger: an organization and a key are charged once, and no more
\* than there is, although a handler awaits its body amid it (handlers.ts:93-119).
THEOREM MockChargesAsLedger == Spec => ImplementsLedger
<1>1. Spec => Ledger!Spec
  BY MockInductive, LedgerStart, LedgerStep, PTL DEF Spec, Ledger!Spec
<1> QED
  BY <1>1 DEF ImplementsLedger


-----------------------------------------------------------------------------
(* The ramp of the counts.                                                 *)

LEMMA Quotient ==
    ASSUME NEW x \in Nat, NEW P \in Nat \ {0}
    PROVE  x \div P \in Nat /\ (x \div P) * P <= x /\ x < (x \div P) * P + P
<1>1. x \div P \in Int /\ x % P \in 0..(P - 1) /\ x = P * (x \div P) + (x % P)
  OBVIOUS
<1> DEFINE d == x \div P
<1>2. d \in Int /\ P * d <= x /\ x < P * d + P /\ d * P = P * d
  BY <1>1
<1> HIDE DEF d
<1>3. d >= 0
  <2> SUFFICES ASSUME d <= -1 PROVE FALSE
    BY <1>2
  <2>1. P * d <= P * (-1)
    BY <1>2
  <2> QED
    BY <1>2, <2>1
<1> QED
  BY <1>2, <1>3 DEF d

\* A larger number has no smaller quotient.
LEMMA QuotientGrows ==
    ASSUME NEW x \in Nat, NEW y \in Nat, NEW P \in Nat \ {0}, x <= y
    PROVE  x \div P <= y \div P
<1> DEFINE d == x \div P
           e == y \div P
<1>1. d \in Nat /\ d * P <= x
  BY Quotient
<1>2. e \in Nat /\ y < e * P + P
  BY Quotient
<1> HIDE DEF d, e
<1> SUFFICES ASSUME e + 1 <= d PROVE FALSE
  BY <1>1, <1>2 DEF d, e
<1>3. (e + 1) * P <= d * P
  BY <1>1, <1>2
<1>4. (e + 1) * P = e * P + P
  BY <1>2
<1> QED
  BY <1>1, <1>2, <1>3, <1>4

\* Between its two ends, the ramp is a rounded share of the total.
LEMMA RampBetween ==
    ASSUME NEW elapsed \in Int, NEW start \in Nat, NEW end \in Nat, NEW total \in Nat,
           start < elapsed, elapsed < end
    PROVE  LET x == 2 * (elapsed - start) * total + (end - start)
               P == 2 * (end - start)
           IN  /\ Ramp(elapsed, start, end, total) = x \div P
               /\ x \in Nat /\ P \in Nat \ {0}
               /\ x \div P \in 0..total
<1> DEFINE a == elapsed - start
           w == end - start
           x == 2 * a * total + w
           P == 2 * w
<1>1. a \in Nat /\ w \in Nat /\ 1 <= a /\ a + 1 <= w
  OBVIOUS
<1>2. Ramp(elapsed, start, end, total) = x \div P
  BY DEF Ramp
<1> HIDE DEF a, w
<1>3. a * total \in Nat /\ w * total \in Nat /\ a * total <= w * total
      /\ 2 * a * total = 2 * (a * total)
  BY <1>1
<1>4. x \in Nat /\ P \in Nat \ {0}
  BY <1>1, <1>3
<1>5. x \div P <= total
  <2> DEFINE q == x \div P
  <2>1. q \in Nat /\ q * P <= x
    BY <1>4, Quotient
  <2>2. x <= 2 * (w * total) + w
    BY <1>1, <1>3
  <2> HIDE DEF q, x
  <2> SUFFICES ASSUME total + 1 <= q PROVE FALSE
    BY <2>1 DEF q
  <2>3. (total + 1) * P <= q * P
    BY <1>4, <2>1
  <2>4. (total + 1) * P = 2 * (w * total) + 2 * w
    BY <1>1
  <2>5. x \in Nat /\ P \in Nat /\ q * P \in Nat
    BY <1>4, <2>1
  <2> QED
    BY <1>1, <1>3, <2>1, <2>2, <2>3, <2>4, <2>5
<1>6. x \div P \in Nat
  BY <1>4, Quotient
<1>7. x \div P \in 0..total
  BY <1>5, <1>6
<1> QED
  BY <1>2, <1>4, <1>7 DEF a, w

\* The ramp stays within the total, and its ends are flat.
LEMMA RampBounds ==
    ASSUME NEW elapsed \in Int, NEW start \in Nat, NEW end \in Nat, NEW total \in Nat,
           start < end
    PROVE  /\ Ramp(elapsed, start, end, total) \in 0..total
           /\ elapsed <= start => Ramp(elapsed, start, end, total) = 0
           /\ elapsed >= end => Ramp(elapsed, start, end, total) = total
<1>1. elapsed <= start => Ramp(elapsed, start, end, total) = 0
  BY DEF Ramp
<1>2. elapsed >= end => Ramp(elapsed, start, end, total) = total
  BY DEF Ramp
<1>3. start < elapsed /\ elapsed < end => Ramp(elapsed, start, end, total) \in 0..total
  BY RampBetween
<1> QED
  BY <1>1, <1>2, <1>3

\* The ramp never goes down.
LEMMA RampGrows ==
    ASSUME NEW elapsed \in Int, NEW start \in Nat, NEW end \in Nat, NEW total \in Nat,
           start < end
    PROVE  Ramp(elapsed, start, end, total) <= Ramp(elapsed + 1, start, end, total)
<1> DEFINE r == Ramp(elapsed, start, end, total)
           s == Ramp(elapsed + 1, start, end, total)
<1>1. r \in 0..total /\ (elapsed <= start => r = 0) /\ (elapsed >= end => r = total)
  BY RampBounds
<1>2. s \in 0..total /\ (elapsed + 1 >= end => s = total)
  BY RampBounds
<1>3. CASE start < elapsed /\ elapsed + 1 < end
  <2> DEFINE w == end - start
             a == elapsed - start
             b == (elapsed + 1) - start
             x == 2 * a * total + w
             y == 2 * b * total + w
             P == 2 * w
  <2>1. r = x \div P /\ x \in Nat /\ P \in Nat \ {0}
    BY <1>3, RampBetween
  <2>2. s = y \div P /\ y \in Nat
    BY <1>3, RampBetween
  <2>3. a \in Nat /\ b = a + 1 /\ w \in Nat
    BY <1>3
  <2> HIDE DEF r, s, a, b, w
  <2>4. x <= y
    BY <2>3
  <2> HIDE DEF x, y, P
  <2>5. x \div P <= y \div P
    BY <2>1, <2>2, <2>4, QuotientGrows
  <2> QED
    BY <2>1, <2>2, <2>5 DEF r, s
<1>4. CASE ~(start < elapsed /\ elapsed + 1 < end)
  <2> HIDE DEF r, s
  <2>1. r <= s
    BY <1>1, <1>2, <1>4
  <2> QED
    BY <2>1 DEF r, s
<1> QED
  BY <1>3, <1>4


-----------------------------------------------------------------------------
(* The counts of a job, from the time it ran.                              *)

\* The leads among the first n that are clean, and those that are not.
Good(s, n) == {i \in 1..n : Clean(s[i])}
Junk(s, n) == {i \in 1..n : ~Clean(s[i])}

LEMMA Parted ==
    ASSUME NEW s, NEW n \in Nat
    PROVE  /\ Cardinality(Good(s, n)) \in 0..n
           /\ Cardinality(Junk(s, n)) \in 0..n
           /\ Cardinality(Junk(s, n)) = n - Cardinality(Good(s, n))
<1> DEFINE G == Good(s, n)
           J == Junk(s, n)
<1>1. IsFiniteSet(1..n) /\ Cardinality(1..n) = n
  BY FS_Interval
<1>2. G \in SUBSET (1..n) /\ J \in SUBSET (1..n) /\ G \cup J = 1..n /\ G \cap J = {}
  BY DEF Good, Junk
<1> HIDE DEF G, J
<1>3. /\ IsFiniteSet(G) /\ Cardinality(G) <= n
      /\ IsFiniteSet(J) /\ Cardinality(J) <= n
  BY <1>1, <1>2, FS_Subset
<1>4. Cardinality(G) \in Nat /\ Cardinality(J) \in Nat
  BY <1>3, FS_CardinalityType
<1>5. n = Cardinality(G) + Cardinality(J) - Cardinality(G \cap J)
  BY <1>1, <1>2, <1>3, FS_Union
<1>6. Cardinality(G \cap J) = 0
  BY <1>2, FS_EmptySet
<1> QED
  BY <1>3, <1>4, <1>5, <1>6 DEF G, J

\* More leads hold no fewer clean ones, and no fewer others.
LEMMA PartsGrow ==
    ASSUME NEW s, NEW m \in Nat, NEW n \in Nat, m <= n
    PROVE  /\ Cardinality(Good(s, m)) <= Cardinality(Good(s, n))
           /\ Cardinality(Junk(s, m)) <= Cardinality(Junk(s, n))
<1>1. IsFiniteSet(1..n)
  BY FS_Interval
<1>2. IsFiniteSet(Good(s, n)) /\ IsFiniteSet(Junk(s, n))
  <2>1. Good(s, n) \in SUBSET (1..n) /\ Junk(s, n) \in SUBSET (1..n)
    BY DEF Good, Junk
  <2> QED
    BY <1>1, <2>1, FS_Subset
<1>3. Good(s, m) \in SUBSET Good(s, n) /\ Junk(s, m) \in SUBSET Junk(s, n)
  BY DEF Good, Junk
<1> QED
  BY <1>2, <1>3, FS_Subset

LEMMA FirstClean ==
    ASSUME NEW X, NEW s \in Seq(X), NEW n \in 0..Len(s)
    PROVE  CleanIn(SubSeq(s, 1, n)) = Cardinality(Good(s, n))
<1> DEFINE t == SubSeq(s, 1, n)
<1>1. n \in Int /\ \A i \in 1..n : s[i] \in X
  BY LenProperties, ElementOfSeq
<1>2. t \in Seq(X) /\ Len(t) = n /\ \A i \in 1..n : t[i] = s[i]
  <2>1. /\ t \in Seq(X)
        /\ Len(t) = IF 1 <= n THEN n - 1 + 1 ELSE 0
        /\ \A i \in 1..(n - 1 + 1) : t[i] = s[1 + i - 1]
    <3>1. 1 \in Int
      OBVIOUS
    <3> QED
      BY <1>1, <3>1, SubSeqProperties
  <2>2. \A i \in 1..n : i \in 1..(n - 1 + 1) /\ 1 + i - 1 = i
    BY <1>1
  <2>3. n >= 0 /\ (n >= 1 => n - 1 + 1 = n)
    BY <1>1
  <2> QED
    BY <1>1, <2>1, <2>2, <2>3
<1>3. DOMAIN t = 1..n
  BY <1>2, LenProperties
<1> HIDE DEF t
<1>4. {i \in DOMAIN t : Clean(t[i])} = Good(s, n)
  BY <1>2, <1>3 DEF Good
<1> QED
  BY <1>4 DEF CleanIn, t

\* What deriveStatus answers of a job that ran for so long.
StatusAt(ran, outcome) ==
    IF ran < TQueued THEN "queued"
    ELSE IF ran < TDiscoverEnd THEN "discovering"
    ELSE IF outcome = "fail" THEN "failed"
    ELSE IF ran < TVerifyEnd THEN "verifying" ELSE "completed"

FoundAt(ran, total) == Ramp(ran, TQueued, TDiscoverEnd, total)
ResolvedAt(ran, total) == Ramp(ran, TDiscoverEnd, TVerifyEnd, total)

CountsAt(ran, leads) ==
    [discovered |-> FoundAt(ran, Len(leads)),
     verified |-> Cardinality(Good(leads, ResolvedAt(ran, Len(leads)))),
     rejected |-> Cardinality(Junk(leads, ResolvedAt(ran, Len(leads))))]

\* A lead is resolved only after the last one is discovered.
LEMMA RampsAt ==
    ASSUME NEW ran \in Int, NEW total \in Nat
    PROVE  /\ FoundAt(ran, total) \in 0..total
           /\ ResolvedAt(ran, total) \in 0..total
           /\ ResolvedAt(ran, total) <= FoundAt(ran, total)
           /\ ran < TQueued => FoundAt(ran, total) = 0
           /\ ran < TDiscoverEnd => ResolvedAt(ran, total) = 0
           /\ TDiscoverEnd <= ran => FoundAt(ran, total) = total
           /\ TVerifyEnd <= ran => ResolvedAt(ran, total) = total
<1>1. /\ TQueued \in Nat /\ TDiscoverEnd \in Nat /\ TVerifyEnd \in Nat
      /\ TQueued < TDiscoverEnd /\ TDiscoverEnd < TVerifyEnd
  BY ThresholdAssumption
<1>2. /\ FoundAt(ran, total) \in 0..total
      /\ ran <= TQueued => FoundAt(ran, total) = 0
      /\ TDiscoverEnd <= ran => FoundAt(ran, total) = total
  BY <1>1, RampBounds DEF FoundAt
<1>3. /\ ResolvedAt(ran, total) \in 0..total
      /\ ran <= TDiscoverEnd => ResolvedAt(ran, total) = 0
      /\ TVerifyEnd <= ran => ResolvedAt(ran, total) = total
  BY <1>1, RampBounds DEF ResolvedAt
<1> QED
  BY <1>1, <1>2, <1>3


LEMMA StatusNow ==
    ASSUME NEW j \in JobRows, clock \in Nat
    PROVE  Elapsed(j) \in Int /\ StatusOf(j) = StatusAt(Elapsed(j), j.outcome)
<1> DEFINE ran == Elapsed(j)
<1>1. ran \in Int
  BY DEF Elapsed, JobRows
<1>2. /\ TQueued \in Nat /\ TDiscoverEnd \in Nat /\ TVerifyEnd \in Nat
      /\ TQueued < TDiscoverEnd /\ TDiscoverEnd < TVerifyEnd
  BY ThresholdAssumption
<1>3. StatusOf(j) =
        CASE ran < TQueued                           -> "queued"
          [] TQueued <= ran /\ ran < TDiscoverEnd    -> "discovering"
          [] TDiscoverEnd <= ran /\ ran < TVerifyEnd -> IF j.outcome = "fail" THEN "failed"
                                                                            ELSE "verifying"
          [] TVerifyEnd <= ran                       -> IF j.outcome = "fail" THEN "failed"
                                                                            ELSE "completed"
  BY DEF StatusOf
<1> HIDE DEF ran
<1>4. StatusOf(j) = StatusAt(ran, j.outcome)
  BY <1>1, <1>2, <1>3 DEF StatusAt
<1> QED
  BY <1>1, <1>4 DEF ran

\* The counts that go by the status are the ramps of the elapsed time.
LEMMA CountsNow ==
    ASSUME NEW j \in JobRows, clock \in Nat
    PROVE  Counts(j) = CountsAt(Elapsed(j), j.leads)
<1> DEFINE ran == Elapsed(j)
           s == j.leads
           total == Len(s)
           R == ResolvedAt(ran, total)
           none == [discovered |-> 0, verified |-> 0, rejected |-> 0]
           of(done) == LET verified == CleanIn(SubSeq(s, 1, done))
                       IN  [discovered |-> total, verified |-> verified,
                            rejected |-> done - verified]
<1>1. ran \in Int /\ StatusOf(j) = StatusAt(ran, j.outcome)
  BY StatusNow
<1>2. s \in Seq(Contacts) /\ total \in Nat /\ (j.outcome = "fail" => total = 0)
  <2>1. s \in Seq(Contacts) /\ (j.outcome = "fail" => s = <<>>)
    BY DEF JobRows
  <2> QED
    BY <2>1, EmptySeq, LenProperties
<1>3. /\ TQueued \in Nat /\ TDiscoverEnd \in Nat /\ TVerifyEnd \in Nat
      /\ TQueued < TDiscoverEnd /\ TDiscoverEnd < TVerifyEnd
  BY ThresholdAssumption
<1>4. /\ FoundAt(ran, total) \in 0..total
      /\ R \in 0..total
      /\ R <= FoundAt(ran, total)
      /\ ran < TQueued => FoundAt(ran, total) = 0
      /\ ran < TDiscoverEnd => R = 0
      /\ TDiscoverEnd <= ran => FoundAt(ran, total) = total
      /\ TVerifyEnd <= ran => R = total
  BY <1>1, <1>2, RampsAt
<1>5. \A done \in 0..total : of(done) = [discovered |-> total,
                                         verified |-> Cardinality(Good(s, done)),
                                         rejected |-> Cardinality(Junk(s, done))]
  <2> SUFFICES ASSUME NEW done \in 0..total
               PROVE  /\ CleanIn(SubSeq(s, 1, done)) = Cardinality(Good(s, done))
                      /\ done - CleanIn(SubSeq(s, 1, done)) = Cardinality(Junk(s, done))
    OBVIOUS
  <2>1. CleanIn(SubSeq(s, 1, done)) = Cardinality(Good(s, done))
    BY <1>2, FirstClean
  <2>2. Cardinality(Junk(s, done)) = done - Cardinality(Good(s, done))
    <3> HIDE DEF s, total
    <3>1. done \in Nat
      BY <1>2
    <3> QED
      BY <3>1, Parted
  <2> QED
    BY <2>1, <2>2
<1>6. Cardinality(Good(s, 0)) = 0 /\ Cardinality(Junk(s, 0)) = 0
  <2> HIDE DEF s
  <2> QED
    BY Parted
<1>7. Counts(j) =
        CASE StatusOf(j) \in {"queued", "failed"} -> none
          [] StatusOf(j) = "discovering" -> [none EXCEPT !.discovered = FoundAt(ran, total)]
          [] StatusOf(j) = "verifying"   -> of(R)
          [] StatusOf(j) = "completed"   -> of(total)
  BY DEF Counts, Discovered, FoundAt, ResolvedAt
<1>8. CountsAt(ran, s) = [discovered |-> FoundAt(ran, total),
                          verified |-> Cardinality(Good(s, R)),
                          rejected |-> Cardinality(Junk(s, R))]
  BY DEF CountsAt
<1> HIDE DEF ran, s, total, R, of
<1>9. CASE ran < TQueued
  <2>1. StatusOf(j) = "queued" /\ FoundAt(ran, total) = 0 /\ R = 0
    BY <1>1, <1>3, <1>4, <1>9 DEF StatusAt
  <2> QED
    BY <1>6, <1>7, <1>8, <2>1 DEF ran, s
<1>10. CASE TQueued <= ran /\ ran < TDiscoverEnd
  <2>1. StatusOf(j) = "discovering" /\ R = 0
    BY <1>1, <1>3, <1>4, <1>10 DEF StatusAt
  <2> QED
    BY <1>6, <1>7, <1>8, <2>1 DEF ran, s
<1>11. CASE TDiscoverEnd <= ran /\ j.outcome = "fail"
  <2>1. StatusOf(j) = "failed" /\ FoundAt(ran, total) = 0 /\ R = 0
    BY <1>1, <1>2, <1>3, <1>4, <1>11 DEF StatusAt
  <2> QED
    BY <1>6, <1>7, <1>8, <2>1 DEF ran, s
<1>12. CASE TDiscoverEnd <= ran /\ ran < TVerifyEnd /\ j.outcome # "fail"
  <2>1. StatusOf(j) = "verifying" /\ FoundAt(ran, total) = total
    BY <1>1, <1>3, <1>4, <1>12 DEF StatusAt
  <2> QED
    BY <1>4, <1>5, <1>7, <1>8, <2>1 DEF ran, s
<1>13. CASE TVerifyEnd <= ran /\ j.outcome # "fail"
  <2>1. StatusOf(j) = "completed" /\ FoundAt(ran, total) = total /\ R = total
    BY <1>1, <1>3, <1>4, <1>13 DEF StatusAt
  <2> QED
    BY <1>4, <1>5, <1>7, <1>8, <2>1 DEF ran, s
<1> QED
  BY <1>1, <1>3, <1>9, <1>10, <1>11, <1>12, <1>13

LEMMA RowAgrees ==
    ASSUME NEW j \in JobRows, clock \in Nat
    PROVE  LET rows == Listed(j)
               states(st) == Cardinality({i \in DOMAIN rows : rows[i] = st})
           IN  /\ Counts(j).discovered = Len(rows)
               /\ Counts(j).verified = states("verified")
               /\ Counts(j).rejected = states("rejected")
<1> DEFINE rows == Listed(j)
           s == j.leads
           D == FoundAt(Elapsed(j), Len(s))
           R == ResolvedAt(Elapsed(j), Len(s))
<1>1. /\ Counts(j).discovered = D
      /\ Counts(j).verified = Cardinality(Good(s, R))
      /\ Counts(j).rejected = Cardinality(Junk(s, R))
  BY CountsNow DEF CountsAt
<1>2. D \in Nat /\ R \in Nat /\ R <= D
  <2>1. Elapsed(j) \in Int
    BY StatusNow
  <2>2. Len(s) \in Nat
    BY LenProperties DEF JobRows
  <2>3. D \in 0..Len(s) /\ R \in 0..Len(s) /\ R <= D
    BY <2>1, <2>2, RampsAt
  <2> HIDE DEF s, D, R
  <2> QED
    BY <2>2, <2>3
<1>3. rows = [i \in 1..D |-> IF i > R THEN "unverified_raw"
                             ELSE IF Clean(s[i]) THEN "verified" ELSE "rejected"]
  BY DEF Listed, Discovered, Resolved, FoundAt, ResolvedAt
<1> HIDE DEF rows, s, D, R
<1>4. DOMAIN rows = 1..D /\ Len(rows) = D
  BY <1>2, <1>3
<1>5. {i \in DOMAIN rows : rows[i] = "verified"} = Good(s, R)
  BY <1>2, <1>3, <1>4 DEF Good
<1>6. {i \in DOMAIN rows : rows[i] = "rejected"} = Junk(s, R)
  BY <1>2, <1>3, <1>4 DEF Junk
<1> QED
  BY <1>1, <1>4, <1>5, <1>6 DEF rows

LEMMA RowsAre ==
    ASSUME MockInv
    PROVE  clock \in Nat /\ DOMAIN jobs = 1..Len(jobs) /\ \A n \in DOMAIN jobs : jobs[n] \in JobRows
<1>1. clock \in Nat /\ jobs \in Seq(JobRows)
  BY DEF MockInv, ClockInv, StoreInv
<1> QED
  BY <1>1, LenProperties, ElementOfSeq

LEMMA JobsAgree ==
    MockInv => JobAgreesWithLeads
<1> SUFFICES ASSUME MockInv, NEW n \in DOMAIN jobs
             PROVE  LET rows == Listed(jobs[n])
                        states(st) == Cardinality({i \in DOMAIN rows : rows[i] = st})
                    IN  /\ Counts(jobs[n]).discovered = Len(rows)
                        /\ Counts(jobs[n]).verified = states("verified")
                        /\ Counts(jobs[n]).rejected = states("rejected")
  BY DEF JobAgreesWithLeads
<1> DEFINE j == jobs[n]
<1>1. j \in JobRows /\ clock \in Nat
  BY RowsAre
<1> HIDE DEF j
<1>2. LET rows == Listed(j)
          states(st) == Cardinality({i \in DOMAIN rows : rows[i] = st})
      IN  /\ Counts(j).discovered = Len(rows)
          /\ Counts(j).verified = states("verified")
          /\ Counts(j).rejected = states("rejected")
  BY <1>1, RowAgrees
<1> QED
  BY <1>2 DEF j

\* The counts of a job and the list of its leads agree at every moment, for any leads and
\* thresholds (db.ts:350-413, 447-457).
THEOREM JobAlwaysAgrees == Spec => []JobAgreesWithLeads
BY MockInductive, JobsAgree, PTL


-----------------------------------------------------------------------------
(* Progress never goes back.                                               *)

\* The job, at a row whose time is ran.
AtTime(j, ran) == StatusOf(j) = StatusAt(ran, j.outcome) /\ Counts(j) = CountsAt(ran, j.leads)

OnTime == \A n \in DOMAIN jobs : AtTime(jobs[n], clock - jobs[n].created)

LEMMA OnTimeNow ==
    MockInv => OnTime
<1> SUFFICES ASSUME MockInv, NEW n \in DOMAIN jobs
             PROVE  AtTime(jobs[n], clock - jobs[n].created)
  BY DEF OnTime
<1> DEFINE j == jobs[n]
<1>1. j \in JobRows /\ clock \in Nat
  BY RowsAre
<1> HIDE DEF j
<1>2. AtTime(j, clock - j.created)
  BY <1>1, StatusNow, CountsNow DEF AtTime, Elapsed
<1> QED
  BY <1>2 DEF j

LEMMA OnTimeNext ==
    MockInv' => OnTime'
BY OnTimeNow, PTL

\* One tick takes a status no further than the state machine of the worker does: no
\* threshold is skipped, as they differ.
LEMMA StatusMoves ==
    ASSUME NEW ran \in Int, NEW later \in {ran, ran + 1}, NEW outcome
    PROVE  CanTransition(StatusAt(ran, outcome), StatusAt(later, outcome))
<1> DEFINE from == StatusAt(ran, outcome)
           to == StatusAt(later, outcome)
<1>1. /\ TQueued \in Nat /\ TDiscoverEnd \in Nat /\ TVerifyEnd \in Nat
      /\ TQueued < TDiscoverEnd /\ TDiscoverEnd < TVerifyEnd
  BY ThresholdAssumption
<1>2. \/ from = to
      \/ from = "queued" /\ to = "discovering"
      \/ from = "discovering" /\ to \in {"verifying", "failed"}
      \/ from = "verifying" /\ to = "completed"
  BY <1>1 DEF StatusAt
<1>3. /\ Transitions["queued"] = {"discovering", "failed", "cancelled"}
      /\ Transitions["discovering"] = {"verifying", "failed", "cancelled"}
      /\ Transitions["verifying"] = {"completed", "failed", "cancelled"}
  BY DEF Transitions, Statuses, Running, Terminal
<1> HIDE DEF from, to
<1>4. CanTransition(from, to)
  BY <1>2, <1>3 DEF CanTransition
<1> QED
  BY <1>4 DEF from, to

LEMMA CountsGrow ==
    ASSUME NEW ran \in Int, NEW later \in {ran, ran + 1}, NEW leads \in Seq(Contacts)
    PROVE  \A f \in {"discovered", "verified", "rejected"} :
             CountsAt(ran, leads)[f] <= CountsAt(later, leads)[f]
<1> DEFINE total == Len(leads)
           D == FoundAt(ran, total)
           E == FoundAt(later, total)
           R == ResolvedAt(ran, total)
           S == ResolvedAt(later, total)
<1>1. total \in Nat /\ later \in Int
  BY LenProperties
<1> HIDE DEF total
<1>2. D \in 0..total /\ E \in 0..total /\ R \in 0..total /\ S \in 0..total
  BY <1>1, RampsAt
<1>3. /\ TQueued \in Nat /\ TDiscoverEnd \in Nat /\ TVerifyEnd \in Nat
      /\ TQueued < TDiscoverEnd /\ TDiscoverEnd < TVerifyEnd
  BY ThresholdAssumption
<1>4. D <= E /\ R <= S
  <2>1. CASE later = ran
    BY <1>1, <1>2, <2>1
  <2>2. CASE later = ran + 1
    <3>1. FoundAt(ran, total) <= FoundAt(ran + 1, total)
      BY <1>1, <1>3, RampGrows DEF FoundAt
    <3>2. ResolvedAt(ran, total) <= ResolvedAt(ran + 1, total)
      BY <1>1, <1>3, RampGrows DEF ResolvedAt
    <3> QED
      BY <2>2, <3>1, <3>2
  <2> QED
    BY <2>1, <2>2
<1>5. /\ CountsAt(ran, leads) =
           [discovered |-> D, verified |-> Cardinality(Good(leads, R)),
            rejected |-> Cardinality(Junk(leads, R))]
      /\ CountsAt(later, leads) =
           [discovered |-> E, verified |-> Cardinality(Good(leads, S)),
            rejected |-> Cardinality(Junk(leads, S))]
  BY DEF CountsAt, total
<1> HIDE DEF D, E, R, S
<1>6. /\ Cardinality(Good(leads, R)) <= Cardinality(Good(leads, S))
      /\ Cardinality(Junk(leads, R)) <= Cardinality(Junk(leads, S))
  <2>1. R \in Nat /\ S \in Nat
    BY <1>1, <1>2
  <2> QED
    BY <1>4, <2>1, PartsGrow
<1> QED
  BY <1>4, <1>5, <1>6

\* No step touches a job that is there, and the clock moves by one tick at most.
LEMMA JobsStay ==
    ASSUME MockInv, [Next]_vars
    PROVE  /\ \A n \in DOMAIN jobs : n \in DOMAIN jobs' /\ jobs'[n] = jobs[n]
           /\ clock' = clock \/ clock' = clock + 1
<1>1. clock' = clock \/ clock' = clock + 1
  BY DEF Next, vars, LoginStart, Login, ActiveOrgStart, ActiveOrg, SearchStart, Searches,
         Invalid, Await, Logout, Tick
<1>2. ASSUME NEW c \in Calls, Searches(c)
      PROVE  \A n \in DOMAIN jobs : n \in DOMAIN jobs' /\ jobs'[n] = jobs[n]
  <2>1. CASE UNCHANGED <<credits, jobs, replays>>
    BY <2>1
  <2>2. ASSUME NEW o \in Orgs, NEW k \in Keys \cup {Null}, CreateSearch(o, k)
        PROVE  \A n \in DOMAIN jobs : n \in DOMAIN jobs' /\ jobs'[n] = jobs[n]
    <3>1. PICK j \in JobRows : jobs' = Append(jobs, j)
      BY <2>2, NewJob
    <3>2. jobs \in Seq(JobRows)
      BY DEF MockInv, StoreInv
    <3> DEFINE L == Len(jobs)
    <3>3. /\ jobs' \in Seq(JobRows) /\ Len(jobs') = L + 1
          /\ \A i \in 1..L : jobs'[i] = jobs[i]
      BY <3>1, <3>2, AppendProperties
    <3>4. DOMAIN jobs = 1..L /\ DOMAIN jobs' = 1..(L + 1) /\ L \in Nat
      BY <3>2, <3>3, LenProperties
    <3> HIDE DEF L
    <3>5. \A n \in 1..L : n \in 1..(L + 1)
      BY <3>4
    <3> QED
      BY <3>3, <3>4, <3>5
  <2> QED
    BY <1>2, <2>1, <2>2, SearchCases
<1>3. CASE ~(\E c \in Calls : Searches(c))
  <2>1. jobs' = jobs
    BY <1>3 DEF Next, vars, LoginStart, Login, ActiveOrgStart, ActiveOrg, SearchStart, Invalid,
                Await, Logout, Tick
  <2> QED
    BY <1>1, <2>1
<1> QED
  BY <1>1, <1>2, <1>3

LEMMA ProgressStep ==
    MockInv /\ MockInv' /\ [Next]_vars =>
        [\A n \in DOMAIN jobs :
            /\ CanTransition(StatusOf(jobs[n]), StatusOf(jobs[n])')
            /\ \A f \in DOMAIN Counts(jobs[n]) : Counts(jobs[n])[f] <= Counts(jobs[n])'[f]]_vars
<1> SUFFICES ASSUME MockInv, MockInv', [Next]_vars, NEW n \in DOMAIN jobs
             PROVE  /\ CanTransition(StatusOf(jobs[n]), StatusOf(jobs[n])')
                    /\ \A f \in DOMAIN Counts(jobs[n]) :
                         Counts(jobs[n])[f] <= Counts(jobs[n])'[f]
  OBVIOUS
<1> DEFINE j == jobs[n]
           ran == clock - j.created
           later == clock' - j.created
<1>1. j \in JobRows /\ clock \in Nat
  BY RowsAre
<1>2. /\ n \in DOMAIN jobs' /\ jobs'[n] = j
      /\ clock' = clock \/ clock' = clock + 1
  BY JobsStay
<1>3. StatusOf(jobs[n]) = StatusAt(ran, j.outcome) /\ Counts(jobs[n]) = CountsAt(ran, j.leads)
  BY OnTimeNow DEF OnTime, AtTime
<1>4. StatusOf(jobs[n])' = StatusAt(later, j.outcome) /\ Counts(jobs[n])' = CountsAt(later, j.leads)
  <2>1. AtTime(jobs[n], clock - jobs[n].created)'
    BY <1>2, OnTimeNext DEF OnTime
  <2>2. /\ StatusOf(jobs[n])' = StatusAt(clock' - jobs'[n].created, jobs'[n].outcome)
        /\ Counts(jobs[n])' = CountsAt(clock' - jobs'[n].created, jobs'[n].leads)
    BY <2>1 DEF AtTime
  <2> QED
    BY <1>2, <2>2
<1>5. ran \in Int /\ later \in {ran, ran + 1}
  BY <1>1, <1>2 DEF JobRows
<1>6. j.leads \in Seq(Contacts)
  BY <1>1 DEF JobRows
<1> HIDE DEF j, ran, later
<1>7. CanTransition(StatusAt(ran, j.outcome), StatusAt(later, j.outcome))
  BY <1>5, StatusMoves
<1>8. \A f \in {"discovered", "verified", "rejected"} :
        CountsAt(ran, j.leads)[f] <= CountsAt(later, j.leads)[f]
  BY <1>5, <1>6, CountsGrow
<1>9. DOMAIN CountsAt(ran, j.leads) = {"discovered", "verified", "rejected"}
  BY DEF CountsAt
<1> QED
  BY <1>3, <1>4, <1>7, <1>8, <1>9

\* Time never takes back what a poll has seen: the status moves by steps the worker's state
\* machine allows, and no count shrinks (state-machine.ts, db.ts:350-413).
THEOREM ProgressAlwaysForward == Spec => ProgressForward
BY MockInductive, ProgressStep, PTL DEF Spec, ProgressForward

=============================================================================
