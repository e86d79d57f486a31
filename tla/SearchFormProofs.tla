-------------------------- MODULE SearchFormProofs --------------------------
(***************************************************************************)
(* The submits of the search form and the limiter in front of startSearch, *)
(* for any number of tabs, organizations and calls.                        *)
(*                                                                         *)
(* LInv says what each counter of the limiter stands for: a call in a      *)
(* window has passed its INCR for that organization, and those that may    *)
(* go on are no more than the counter has counted, nor than the cap.       *)
(* WindowFixed is inductive above it: who owes a counter its end is the    *)
(* one call that made it, alive or not.                                    *)
(*                                                                         *)
(* KeyInv ties a key to one search: the one its minting call was sent for. *)
(* That alone, with JobInv, says whose job a submit is answered with.      *)
(* That a search is charged once needs more: OneKeyInv, that its submits   *)
(* carry one key, and SessionInv, that the server acts for one             *)
(* organization in all of them, for the browser picks the key by its own   *)
(* copy of /api/me and the server the organization by the session's row.   *)
(***************************************************************************)
EXTENDS SearchForm, FiniteSetTheorems, TLAPS

-----------------------------------------------------------------------------
(* The window of the rate limiter, on its own.                             *)

\* The calls of the window of o that may go on to startSearch.
Passed(o) == {c \in window[o] : at[c] \in {"pexpire", "admitted"}}

\* A call that has entered acts for an organization, and is counted for that one only.
Counted ==
    /\ \A c \in Calls : at[c] \in {"incr", "pexpire"} => org[c] \in Orgs
    /\ \A o \in Orgs : \A c \in window[o] : org[c] = o /\ at[c] \notin {"idle", "incr"}

\* Those that may go on were counted, and none beyond the cap.
Bounded ==
    MaxPerWindow > 0 =>
        \A o \in Orgs :
            Cardinality(Passed(o)) <= count[o] /\ Cardinality(Passed(o)) <= MaxPerWindow

LInv == LimiterTypeOK /\ Counted

LEMMA LimiterInductive == LInv /\ [LimiterNext]_limiter => LInv'
<1> SUFFICES ASSUME LInv, [LimiterNext]_limiter
             PROVE  LInv'
  OBVIOUS
<1> USE DEF LInv, LimiterTypeOK, Counted, Steps, Running
<1>1. ASSUME NEW c \in Calls, NEW o \in Orgs, Arrive(c, o)
      PROVE  LInv'
  BY <1>1 DEF Arrive, Goto
<1>2. ASSUME NEW c \in Calls, Incr(c)
      PROVE  LInv'
  <2>1. org[c] \in Orgs
    BY <1>2 DEF Incr
  <2> QED
    BY <1>2, <2>1 DEF Incr, Goto, Verdict
<1>3. ASSUME NEW c \in Calls, PExpire(c)
      PROVE  LInv'
  <2>1. org[c] \in Orgs
    BY <1>3 DEF PExpire
  <2> QED
    BY <1>3, <2>1 DEF PExpire, Goto, Verdict
<1>4. ASSUME NEW c \in Calls, Die(c)
      PROVE  LInv'
  BY <1>4 DEF Die, Goto
<1>5. ASSUME NEW o \in Orgs, Expire(o)
      PROVE  LInv'
  BY <1>5 DEF Expire
<1>6. CASE UNCHANGED limiter
  BY <1>6 DEF limiter
<1> QED
  BY <1>1, <1>2, <1>3, <1>4, <1>5, <1>6 DEF LimiterNext

LEMMA LimiterInvariant == LimiterSpec => []LInv
<1>1. LimiterInit => LInv
  BY DEF LimiterInit, LInv, LimiterTypeOK, Counted, Steps, Running
<1> QED
  BY <1>1, LimiterInductive, PTL DEF LimiterSpec

-----------------------------------------------------------------------------

LEMMA PassedFinite ==
    ASSUME LInv, NEW o \in Orgs
    PROVE  IsFiniteSet(Passed(o)) /\ Cardinality(Passed(o)) \in Nat
<1>1. Passed(o) \subseteq Calls
  BY DEF Passed, LInv, LimiterTypeOK
<1> QED
  BY <1>1, CallsFinite, FS_Subset, FS_CardinalityType

LEMMA BoundedInductive == LInv /\ LInv' /\ Bounded /\ [LimiterNext]_limiter => Bounded'
<1> SUFFICES ASSUME LInv, LInv', Bounded, [LimiterNext]_limiter, MaxPerWindow > 0, NEW o \in Orgs
             PROVE  /\ Cardinality(Passed(o)') <= count'[o]
                    /\ Cardinality(Passed(o)') <= MaxPerWindow
  BY DEF Bounded, Passed
<1>1. /\ IsFiniteSet(Passed(o)) /\ Cardinality(Passed(o)) \in Nat
      /\ Cardinality(Passed(o)) <= count[o] /\ Cardinality(Passed(o)) <= MaxPerWindow
      /\ count[o] \in Nat /\ count'[o] \in Nat /\ MaxPerWindow \in Nat
  BY PassedFinite, MaxAssumption DEF Bounded, LInv, LimiterTypeOK
\* A step that lets no one join keeps the bounds, unless the counter goes down.
<1>2. ASSUME Passed(o)' \subseteq Passed(o), count'[o] >= count[o]
      PROVE  /\ Cardinality(Passed(o)') <= count'[o]
             /\ Cardinality(Passed(o)') <= MaxPerWindow
  <2>1. Cardinality(Passed(o)') \in Nat /\ Cardinality(Passed(o)') <= Cardinality(Passed(o))
    BY <1>1, <1>2, FS_Subset, FS_CardinalityType
  <2> QED
    BY <1>1, <1>2, <2>1
<1>3. ASSUME NEW c \in Calls, NEW p \in Orgs, Arrive(c, p)
      PROVE  Passed(o)' \subseteq Passed(o) /\ count'[o] >= count[o]
  BY <1>1, <1>3 DEF Arrive, Goto, Passed, LInv, LimiterTypeOK, Counted
<1>4. ASSUME NEW c \in Calls, Incr(c)
      PROVE  /\ Cardinality(Passed(o)') <= count'[o]
             /\ Cardinality(Passed(o)') <= MaxPerWindow
  <2>1. CASE org[c] # o \/ count[o] + 1 > MaxPerWindow
    <3>1. Passed(o)' \subseteq Passed(o)
      <4>1. org[c] # o => c \notin window[o]
        BY DEF LInv, Counted
      <4>2. org[c] = o /\ count[o] + 1 > MaxPerWindow => at'[c] = "blocked"
        <5>1. org[c] = o /\ count[o] + 1 > MaxPerWindow => ~FirstHit(count[o] + 1)
          BY <1>1 DEF FirstHit
        <5> QED
          BY <1>1, <1>4, <5>1 DEF Incr, Goto, Verdict, OverCap, LInv, LimiterTypeOK
      <4> QED
        BY <2>1, <1>4, <4>1, <4>2 DEF Incr, Goto, Passed, LInv, LimiterTypeOK
    <3>2. count'[o] >= count[o]
      BY <1>1, <1>4 DEF Incr, LInv, LimiterTypeOK
    <3> QED
      BY <1>2, <3>1, <3>2
  <2>2. CASE org[c] = o /\ count[o] + 1 <= MaxPerWindow
    <3>1. count'[o] = count[o] + 1
      BY <1>4, <2>2 DEF Incr, LInv, LimiterTypeOK
    <3>2. Passed(o)' \subseteq Passed(o) \cup {c}
      BY <1>4, <2>2 DEF Incr, Goto, Passed, LInv, LimiterTypeOK
    <3>3. /\ IsFiniteSet(Passed(o) \cup {c}) /\ Cardinality(Passed(o) \cup {c}) \in Nat
          /\ Cardinality(Passed(o) \cup {c}) <= Cardinality(Passed(o)) + 1
      <4> DEFINE P == Passed(o)
                 Q == P \cup {c}
      <4>1. IsFiniteSet(P) /\ Cardinality(P) \in Nat
        BY <1>1
      <4>2. c \notin P
        BY <1>4 DEF Passed, Incr
      <4> HIDE DEF P
      <4>3. IsFiniteSet(P \cup {c}) /\ Cardinality(P \cup {c}) = Cardinality(P) + 1
        BY <4>1, <4>2, FS_AddElement, Zenon
      <4> HIDE DEF Q
      <4>4. IsFiniteSet(Q) /\ Cardinality(Q) = Cardinality(P) + 1
        BY <4>3 DEF Q
      <4>5. Cardinality(Q) \in Nat /\ Cardinality(Q) <= Cardinality(P) + 1
        BY <4>1, <4>4
      <4> QED
        BY <4>4, <4>5 DEF P, Q
    <3>4. /\ Cardinality(Passed(o)') \in Nat
          /\ Cardinality(Passed(o)') <= Cardinality(Passed(o) \cup {c})
      BY <3>2, <3>3, FS_Subset, FS_CardinalityType
    <3> QED
      BY <1>1, <2>2, <3>1, <3>3, <3>4
  <2> QED
    BY <1>1, <2>1, <2>2
<1>5. ASSUME NEW c \in Calls, PExpire(c)
      PROVE  Passed(o)' \subseteq Passed(o) /\ count'[o] >= count[o]
  BY <1>1, <1>5 DEF PExpire, Goto, Passed, LInv, LimiterTypeOK
<1>6. ASSUME NEW c \in Calls, Die(c)
      PROVE  Passed(o)' \subseteq Passed(o) /\ count'[o] >= count[o]
  BY <1>1, <1>6 DEF Die, Goto, Passed, LInv, LimiterTypeOK
<1>7. ASSUME NEW p \in Orgs, Expire(p)
      PROVE  /\ Cardinality(Passed(o)') <= count'[o]
             /\ Cardinality(Passed(o)') <= MaxPerWindow
  <2>1. CASE p = o
    <3>1. Passed(o)' = {} /\ count'[o] = 0
      BY <1>7, <2>1 DEF Expire, Passed, LInv, LimiterTypeOK
    <3> QED
      BY <1>1, <3>1, FS_EmptySet
  <2>2. CASE p # o
    <3>1. Passed(o)' \subseteq Passed(o) /\ count'[o] >= count[o]
      BY <1>1, <1>7, <2>2 DEF Expire, Passed, LInv, LimiterTypeOK
    <3> QED
      BY <1>2, <3>1
  <2> QED
    BY <2>1, <2>2
<1>8. CASE UNCHANGED limiter
  BY <1>1, <1>8 DEF limiter, Passed
<1> QED
  BY <1>2, <1>3, <1>4, <1>5, <1>6, <1>7, <1>8 DEF LimiterNext

\* "max MAX searches per WINDOW" (rate-limiter.ts:24-36): whatever the order in which any
\* number of calls run their INCR and PEXPIRE, and wherever a process dies, one window lets at
\* most MaxPerWindow calls go on.
THEOREM WindowCapped == LimiterSpec => []WindowCap
<1>1. LimiterInit => Bounded
  <2> SUFFICES ASSUME LimiterInit, MaxPerWindow > 0, NEW o \in Orgs
               PROVE  Cardinality(Passed(o)) <= count[o] /\ Cardinality(Passed(o)) <= MaxPerWindow
    BY DEF Bounded
  <2>1. Passed(o) = {} /\ count[o] = 0
    BY DEF LimiterInit, Passed
  <2> QED
    BY <2>1, FS_EmptySet, MaxAssumption
<1>2. LInv /\ Bounded => WindowCap
  BY DEF Bounded, WindowCap, Passed
<1> QED
  BY <1>1, <1>2, LimiterInvariant, BoundedInductive, PTL DEF LimiterSpec

-----------------------------------------------------------------------------

LEMMA FixedInductive == LInv /\ WindowFixed /\ [LimiterNext]_limiter => WindowFixed'
<1> SUFFICES ASSUME LInv, WindowFixed, [LimiterNext]_limiter, NEW o \in Orgs
             PROVE  /\ o \in expiring' => count'[o] > 0
                    /\ IF count'[o] > 0 /\ o \notin expiring'
                       THEN \E c \in window'[o] : Openers(o)' = {c}
                       ELSE Openers(o)' = {}
  BY DEF WindowFixed
<1>t. /\ count \in [Orgs -> Nat] /\ at \in [Calls -> Steps] /\ org \in [Calls -> Orgs \cup {Null}]
      /\ window \in [Orgs -> SUBSET Calls] /\ count[o] \in Nat
  BY DEF LInv, LimiterTypeOK
<1>o. /\ o \in expiring => count[o] > 0
      /\ count[o] > 0 /\ o \notin expiring => \E c \in window[o] : Openers(o) = {c}
      /\ ~(count[o] > 0 /\ o \notin expiring) => Openers(o) = {}
  BY DEF WindowFixed
\* A step after which the same calls owe the same counter its end.
<1>s. ASSUME Openers(o)' = Openers(o), window[o] \subseteq window'[o],
             o \in expiring' <=> o \in expiring, count'[o] > 0 <=> count[o] > 0
      PROVE  /\ o \in expiring' => count'[o] > 0
             /\ IF count'[o] > 0 /\ o \notin expiring'
                THEN \E c \in window'[o] : Openers(o)' = {c}
                ELSE Openers(o)' = {}
  BY <1>o, <1>s
<1>1. ASSUME NEW c \in Calls, NEW p \in Orgs, Arrive(c, p)
      PROVE  /\ Openers(o)' = Openers(o) /\ window'[o] = window[o]
             /\ expiring' = expiring /\ count' = count
  BY <1>t, <1>1 DEF Arrive, Goto, Openers
<1>2. ASSUME NEW c \in Calls, Incr(c)
      PROVE  /\ o \in expiring' => count'[o] > 0
             /\ IF count'[o] > 0 /\ o \notin expiring'
                THEN \E d \in window'[o] : Openers(o)' = {d}
                ELSE Openers(o)' = {}
  <2>1. org[c] \in Orgs /\ at[c] = "incr" /\ expiring' = expiring /\ org' = org
    BY <1>2 DEF Incr, LInv, Counted
  <2>2. CASE org[c] # o
    <3>1. count'[o] = count[o] /\ window'[o] = window[o]
      BY <1>t, <1>2, <2>2 DEF Incr
    <3>2. Openers(o)' = Openers(o)
      BY <1>t, <1>2, <2>1, <2>2 DEF Incr, Goto, Openers
    <3> QED
      BY <1>s, <2>1, <3>1, <3>2
  <2>3. CASE org[c] = o /\ count[o] > 0
    <3>1. count'[o] = count[o] + 1 /\ window[o] \subseteq window'[o]
      BY <1>t, <1>2, <2>3 DEF Incr
    <3>2. at'[c] \in {"admitted", "blocked"} /\ \A d \in Calls \ {c} : at'[d] = at[d]
      <4>1. ~FirstHit(count[o] + 1)
        BY <1>t, <2>3 DEF FirstHit
      <4> QED
        BY <1>t, <1>2, <2>3, <4>1 DEF Incr, Goto, Verdict
    <3>3. Openers(o)' = Openers(o)
      BY <2>1, <3>2 DEF Openers
    <3> QED
      BY <1>s, <1>t, <2>1, <2>3, <3>1, <3>3
  <2>4. CASE org[c] = o /\ ~(count[o] > 0)
    <3>1. count[o] = 0 /\ o \notin expiring /\ Openers(o) = {}
      BY <1>t, <1>o, <2>4
    <3>2. count'[o] = 1 /\ c \in window'[o]
      BY <1>t, <1>2, <2>4, <3>1 DEF Incr
    <3>3. at'[c] = "pexpire" /\ \A d \in Calls \ {c} : at'[d] = at[d]
      <4>1. FirstHit(count[o] + 1)
        BY <3>1 DEF FirstHit
      <4> QED
        BY <1>t, <1>2, <2>4, <4>1 DEF Incr, Goto
    <3>4. Openers(o)' = {c}
      BY <2>1, <2>4, <3>1, <3>3 DEF Openers
    <3> QED
      BY <2>1, <3>1, <3>2, <3>4
  <2> QED
    BY <2>2, <2>3, <2>4
<1>3. ASSUME NEW c \in Calls, PExpire(c)
      PROVE  /\ o \in expiring' => count'[o] > 0
             /\ IF count'[o] > 0 /\ o \notin expiring'
                THEN \E d \in window'[o] : Openers(o)' = {d}
                ELSE Openers(o)' = {}
  <2>1. /\ count' = count /\ window' = window /\ org' = org /\ at[c] = "pexpire"
        /\ expiring' = expiring \cup {org[c]}
    BY <1>3 DEF PExpire
  <2>2. at'[c] \in {"admitted", "blocked"} /\ \A d \in Calls \ {c} : at'[d] = at[d]
    BY <1>t, <1>3 DEF PExpire, Goto, Verdict
  <2>3. CASE org[c] # o
    <3>1. Openers(o)' = Openers(o)
      BY <2>1, <2>2, <2>3 DEF Openers
    <3> QED
      BY <1>s, <2>1, <2>3, <3>1
  <2>4. CASE org[c] = o
    <3>1. c \in Openers(o)
      BY <2>1, <2>4 DEF Openers
    <3>2. count[o] > 0 /\ Openers(o) = {c}
      BY <1>o, <3>1
    <3>3. Openers(o)' = {}
      BY <2>1, <2>2, <3>2 DEF Openers
    <3> QED
      BY <2>1, <2>4, <3>2, <3>3
  <2> QED
    BY <2>3, <2>4
<1>4. ASSUME NEW c \in Calls, Die(c)
      PROVE  /\ Openers(o)' = Openers(o) /\ window'[o] = window[o]
             /\ expiring' = expiring /\ count' = count
  <2>1. /\ at'[c] = IF at[c] = "pexpire" THEN "endless" ELSE "dead"
        /\ at[c] # "endless" /\ \A d \in Calls \ {c} : at'[d] = at[d]
    BY <1>t, <1>4, MayDieAssumption DEF Die, Goto, Running
  <2> QED
    BY <1>4, <2>1 DEF Die, Openers
<1>5. ASSUME NEW p \in Orgs, Expire(p)
      PROVE  /\ o \in expiring' => count'[o] > 0
             /\ IF count'[o] > 0 /\ o \notin expiring'
                THEN \E d \in window'[o] : Openers(o)' = {d}
                ELSE Openers(o)' = {}
  <2>1. Openers(o)' = Openers(o) /\ expiring' = expiring \ {p} /\ p \in expiring
    BY <1>5 DEF Expire, Openers
  <2>2. CASE p = o
    BY <1>t, <1>o, <1>5, <2>1, <2>2 DEF Expire
  <2>3. CASE p # o
    <3>1. count'[o] = count[o] /\ window'[o] = window[o]
      BY <1>t, <1>5, <2>3 DEF Expire
    <3> QED
      BY <1>s, <2>1, <2>3, <3>1
  <2> QED
    BY <2>2, <2>3
<1>6. CASE UNCHANGED limiter
  <2>1. Openers(o)' = Openers(o)
    BY <1>6 DEF limiter, Openers
  <2> QED
    BY <1>s, <1>6, <2>1 DEF limiter
<1> QED
  BY <1>s, <1>1, <1>2, <1>3, <1>4, <1>5, <1>6 DEF LimiterNext

\* "the window then stays fixed" (rate-limiter.ts:23-26): whatever the order of the commands
\* and wherever a process dies, a counter that runs has its end and nobody puts it off, or
\* exactly one of the calls it counts owes it that end.  So the only way to a counter
\* without an end is the death of that one call before its PEXPIRE.
THEOREM WindowStaysFixed == LimiterSpec => []WindowFixed
<1>1. LimiterInit => WindowFixed
  BY DEF LimiterInit, WindowFixed, Openers
<1> QED
  BY <1>1, LimiterInvariant, FixedInductive, PTL DEF LimiterSpec

-----------------------------------------------------------------------------
(* The form around it.                                                     *)

\* The call was submitted.
Sent(c) == client[c] # "idle"

Submits == [tab : Tabs, org : Orgs, key : Calls, round : Nat]

\* A call enters the limiter only after it was sent, acts for an organization from then on,
\* and is answered only after that; a job it is answered with is that of some call.
CallInv ==
    \A c \in Calls :
        /\ Sent(c) => asked[c] \in Submits
        /\ ~Sent(c) => at[c] = "idle"
        /\ at[c] = "idle" => reply[c] = NoReply
        /\ at[c] # "idle" => org[c] \in Orgs
        /\ reply[c].kind = "accepted" => reply[c].job \in Calls

FInv == Counted /\ TypeOK /\ CallInv

-----------------------------------------------------------------------------
(* The limiter under the form.                                             *)

LEMMA LimiterStep ==
    ASSUME TypeOK, [Next]_vars
    PROVE  [LimiterNext]_limiter
<1>1. ASSUME NEW c \in Calls, Context(c)
      PROVE  LimiterNext
  BY <1>1 DEF Context, LimiterNext, TypeOK
<1>2. CASE Limit
  BY <1>2 DEF Limit, LimiterNext
<1>3. ASSUME NEW c \in Calls, Serve(c)
      PROVE  UNCHANGED limiter
  BY <1>3 DEF Serve, RespondLimited, RespondFailed, Replay, Charge, Respond
<1>4. ASSUME NEW c \in Calls, Receive(c)
      PROVE  UNCHANGED limiter
  BY <1>4 DEF Receive, Accepted, Insufficient, TooMany, Failed, RefreshAfterAccepted,
              RefreshAfter402, server
<1>5. ASSUME NEW t \in Tabs,
             \/ RefreshMe(t) \/ RemoveJob(t) \/ CooldownOver(t) \/ Leave(t)
             \/ \E c \in Calls : Submit(t, c)
             \/ \E o \in Orgs : SwitchOrg(t, o)
      PROVE  UNCHANGED limiter
  BY <1>5 DEF RefreshMe, RemoveJob, CooldownOver, Leave, Submit, SwitchOrg, server
<1>6. CASE UNCHANGED vars
  BY <1>6 DEF vars, server
<1> QED
  BY <1>1, <1>2, <1>3, <1>4, <1>5, <1>6 DEF Next

-----------------------------------------------------------------------------
(* Types.                                                                  *)

LEMMA FormInit == Init => FInv
<1> SUFFICES ASSUME Init
             PROVE  FInv
  OBVIOUS
<1>1. LimiterTypeOK /\ Counted
  BY DEF Init, LimiterInit, LimiterTypeOK, Counted, Steps, Running
<1>2. sessionOrg \in Orgs /\ credits \in [Orgs -> Nat]
  BY CreditsAssumption DEF Init
<1>3. TypeOK
  BY <1>1, <1>2 DEF Init, TypeOK, NotAsked, NoReply, ReplyKinds, ClientSteps, Messages
<1>4. CallInv
  BY DEF Init, LimiterInit, CallInv, Sent, NoReply
<1> QED
  BY <1>1, <1>3, <1>4 DEF FInv

\* The limiter lets no call back to where it has not arrived.
LEMMA LimitKeeps ==
    ASSUME TypeOK, Limit
    PROVE  \A d \in Calls : (at'[d] = "idle" <=> at[d] = "idle") /\ org'[d] = org[d]
<1> USE DEF TypeOK, LimiterTypeOK, Goto, Verdict
<1>1. ASSUME NEW e \in Calls, Incr(e)
      PROVE  \A d \in Calls : (at'[d] = "idle" <=> at[d] = "idle") /\ org'[d] = org[d]
  BY <1>1 DEF Incr
<1>2. ASSUME NEW e \in Calls, PExpire(e)
      PROVE  \A d \in Calls : (at'[d] = "idle" <=> at[d] = "idle") /\ org'[d] = org[d]
  BY <1>2 DEF PExpire
<1>3. ASSUME NEW e \in Calls, Die(e)
      PROVE  \A d \in Calls : (at'[d] = "idle" <=> at[d] = "idle") /\ org'[d] = org[d]
  <2>1. at[e] # "idle"
    BY <1>3, MayDieAssumption DEF Die, Running
  <2> QED
    BY <1>3, <2>1 DEF Die
<1>4. ASSUME NEW o \in Orgs, Expire(o)
      PROVE  \A d \in Calls : (at'[d] = "idle" <=> at[d] = "idle") /\ org'[d] = org[d]
  BY <1>4 DEF Expire
<1> QED
  BY <1>1, <1>2, <1>3, <1>4 DEF Limit

\* The route keeps the types.
LEMMA ServerTypes ==
    ASSUME FInv, LInv', Limit \/ \E c \in Calls : Context(c) \/ Serve(c)
    PROVE  FInv'
<1> USE DEF FInv
<1>1. ASSUME NEW c \in Calls, Context(c)
      PROVE  FInv'
  <2>1. TypeOK'
    BY <1>1 DEF Context, TypeOK, browser, page, LInv
  <2>2. CallInv'
    BY <1>1 DEF Context, Arrive, Goto, CallInv, Sent, TypeOK, LimiterTypeOK, browser
  <2> QED
    BY <2>1, <2>2 DEF LInv
<1>2. CASE Limit
  <2>1. TypeOK'
    BY <1>2 DEF Limit, TypeOK, browser, page, LInv
  <2>2. \A d \in Calls : (at'[d] = "idle" <=> at[d] = "idle") /\ org'[d] = org[d]
    BY <1>2, LimitKeeps
  <2>3. UNCHANGED <<asked, reply, client>>
    BY <1>2 DEF Limit, browser
  <2>4. CallInv'
    BY <2>2, <2>3 DEF CallInv, Sent
  <2> QED
    BY <2>1, <2>4 DEF LInv
<1>3. ASSUME NEW c \in Calls, Serve(c)
      PROVE  FInv'
  <2>1. UNCHANGED <<browser, limiter, sessionOrg>>
    BY <1>3 DEF Serve, RespondLimited, RespondFailed, Replay, Charge, Respond
  <2>2. PICK kind \in ReplyKinds, j \in Calls \cup {Null} :
            /\ reply' = [reply EXCEPT ![c] = [kind |-> kind, job |-> j]]
            /\ kind = "accepted" => j \in Calls
    BY <1>3 DEF Serve, RespondLimited, RespondFailed, Replay, Charge, Respond, ReplyKinds, JobsUnder
  <2>3. at[c] # "idle" /\ org[c] \in Orgs /\ asked[c] \in Submits
    BY <1>3 DEF Serve, RespondLimited, RespondFailed, Replay, Charge, CallInv
  <2>4. credits' \in [Orgs -> Nat]
    <3>1. credits' = credits \/ (credits[org[c]] >= 1 /\ credits' = [credits EXCEPT ![org[c]] = @ - 1])
      BY <1>3 DEF Serve, RespondLimited, RespondFailed, Replay, Charge, CanPay
    <3>2. credits[org[c]] >= 1 => credits[org[c]] - 1 \in Nat
      BY <2>3 DEF TypeOK
    <3> QED
      BY <2>3, <3>1, <3>2 DEF TypeOK
  <2>5. jobs' \in [Calls -> [org : Orgs, key : Calls] \cup {Null}]
    <3> DEFINE row == [org |-> org[c], key |-> asked[c].key]
    <3>1. jobs' = jobs \/ jobs' = [jobs EXCEPT ![c] = row]
      BY <1>3 DEF Serve, RespondLimited, RespondFailed, Replay, Charge
    <3>2. row \in [org : Orgs, key : Calls]
      BY <2>3 DEF Submits
    <3> HIDE DEF row
    <3> QED
      BY <3>1, <3>2 DEF TypeOK
  <2>6. reply' \in [Calls -> [kind : ReplyKinds, job : Calls \cup {Null}]]
    BY <2>2 DEF TypeOK
  <2>7. LimiterTypeOK' /\ Counted'
    BY DEF LInv
  <2>8. TypeOK'
    BY <2>1, <2>4, <2>5, <2>6, <2>7 DEF TypeOK, browser, page
  <2>9. CallInv'
    BY <2>1, <2>2, <2>3 DEF CallInv, Sent, TypeOK, browser, limiter
  <2> QED
    BY <2>7, <2>8, <2>9
<1> QED
  BY <1>1, <1>2, <1>3

LEMMA SubmitTypes ==
    ASSUME FInv, NEW t \in Tabs, NEW c \in Calls, Submit(t, c)
    PROVE  FInv'
<1> DEFINE o == me[t].org
           k == GetIdemKey(t, o, c)
           sent == [tab |-> t, org |-> o, key |-> k, round |-> round[t][o]]
<1> USE DEF FInv
<1>1. o \in Orgs /\ k \in Calls /\ round[t][o] \in Nat
  BY DEF TypeOK, GetIdemKey
<1>2. sent \in Submits
  BY <1>1 DEF Submits
<1>3. /\ stored' = (IF StorageWorks THEN [stored EXCEPT ![t][o] = k] ELSE stored)
      /\ asked' = [asked EXCEPT ![c] = sent]
      /\ client' = [client EXCEPT ![c] = "waiting"] /\ client[c] = "idle"
      /\ mounted' = mounted \cup {c} /\ message' = [message EXCEPT ![t] = "none"]
      /\ UNCHANGED <<server, me, cards, cooldown, round>>
  BY DEF Submit, Say
<1> HIDE DEF k, o, sent
<1>4. stored' \in [Tabs -> [Orgs -> Calls \cup {Null}]]
  BY <1>1, <1>3 DEF TypeOK
<1>5. asked' \in [Calls -> Submits \cup {NotAsked}]
  BY <1>2, <1>3 DEF TypeOK, Submits
<1>6. TypeOK'
  BY <1>3, <1>4, <1>5
     DEF TypeOK, ClientSteps, Messages, server, limiter, LimiterTypeOK, Submits
<1>7. CallInv'
  BY <1>2, <1>3 DEF CallInv, Sent, TypeOK, server, limiter
<1>8. Counted'
  BY <1>3 DEF Counted, server, limiter
<1> QED
  BY <1>6, <1>7, <1>8

\* What goes on on the page and is not a submit: the calls, their keys and answers stay.
Around ==
    \/ \E c \in Calls : Receive(c)
    \/ \E t \in Tabs :
        \/ RefreshMe(t) \/ RemoveJob(t) \/ CooldownOver(t) \/ Leave(t)
        \/ \E o \in Orgs : SwitchOrg(t, o)

LEMMA AroundKeeps ==
    ASSUME TypeOK, Around
    PROVE  /\ UNCHANGED <<limiter, credits, jobs, reply, asked>>
           /\ \A c \in Calls : Sent(c)' <=> Sent(c)
<1>1. UNCHANGED <<limiter, credits, jobs, reply, asked>>
  BY DEF Around, Receive, Accepted, Insufficient, TooMany, Failed, RefreshAfterAccepted,
         RefreshAfter402, RefreshMe, RemoveJob, CooldownOver, Leave, SwitchOrg, server
<1>2. \/ UNCHANGED client
      \/ \E c \in Calls, step \in ClientSteps \ {"idle"} :
            Sent(c) /\ client' = [client EXCEPT ![c] = step]
  <2>1. ASSUME NEW c \in Calls, Receive(c)
        PROVE  Sent(c) /\ \E step \in {"refresh", "refresh402", "done", "threw"} :
                              client' = [client EXCEPT ![c] = step]
    BY <2>1 DEF Receive, Accepted, Insufficient, TooMany, Failed, RefreshAfterAccepted,
                RefreshAfter402, Finish, Sent
  <2>2. CASE \E t \in Tabs :
                \/ RefreshMe(t) \/ RemoveJob(t) \/ CooldownOver(t) \/ Leave(t)
                \/ \E o \in Orgs : SwitchOrg(t, o)
    BY <2>2 DEF RefreshMe, RemoveJob, CooldownOver, Leave, SwitchOrg
  <2> QED
    BY <2>1, <2>2 DEF Around, ClientSteps
<1>3. \A c \in Calls : Sent(c)' <=> Sent(c)
  BY <1>2 DEF Sent, TypeOK
<1> QED
  BY <1>1, <1>3

LEMMA AdoptTypes ==
    ASSUME FInv, NEW t \in Tabs, Adopt(t)
    PROVE  /\ me' \in [Tabs -> [org : Orgs, credits : Nat]]
           /\ mounted' \subseteq Calls /\ cards' \in [Tabs -> SUBSET Calls] /\ cooldown' \subseteq Tabs
<1>1. [org |-> sessionOrg, credits |-> credits[sessionOrg]] \in [org : Orgs, credits : Nat]
  BY DEF FInv, TypeOK
<1> QED
  BY <1>1 DEF Adopt, FInv, TypeOK

\* The types of what the page and the browser keep.
PageTypes ==
    /\ sessionOrg \in Orgs
    /\ me \in [Tabs -> [org : Orgs, credits : Nat]]
    /\ stored \in [Tabs -> [Orgs -> Calls \cup {Null}]]
    /\ client \in [Calls -> ClientSteps]
    /\ mounted \subseteq Calls
    /\ cards \in [Tabs -> SUBSET Calls]
    /\ message \in [Tabs -> Messages]
    /\ cooldown \subseteq Tabs
    /\ round \in [Tabs -> [Orgs -> Nat]]

LEMMA ReceiveTypes ==
    ASSUME FInv, NEW c \in Calls, Receive(c)
    PROVE  PageTypes'
<1> USE DEF FInv, PageTypes
<1> DEFINE t == asked[c].tab
           o == asked[c].org
<1>1. Sent(c)
  BY DEF Receive, Accepted, Insufficient, TooMany, Failed, RefreshAfterAccepted, RefreshAfter402, Sent
<1>2. t \in Tabs /\ o \in Orgs
  BY <1>1 DEF CallInv, Submits
<1>3. PageTypes
  BY DEF TypeOK
<1>4. CASE Accepted(c)
  <2>1. reply[c].job \in Calls
    BY <1>4 DEF Accepted, CallInv
  <2>2. stored' = [stored EXCEPT ![t][o] = Null] /\ round' = [round EXCEPT ![t][o] = @ + 1]
    BY <1>4 DEF Accepted, Rotated
  <2> DEFINE n == round[t][o] + 1
  <2>3. round' = [round EXCEPT ![t][o] = n] /\ n \in Nat
    BY <1>2, <1>3, <2>2
  <2> HIDE DEF n
  <2>4. stored' \in [Tabs -> [Orgs -> Calls \cup {Null}]] /\ round' \in [Tabs -> [Orgs -> Nat]]
    BY <1>2, <1>3, <2>2, <2>3
  <2>5. /\ cards' = cards \/ cards' = [cards EXCEPT ![t] = @ \cup {reply[c].job}]
        /\ cooldown' = cooldown \/ cooldown' = cooldown \ {t}
        /\ client' = [client EXCEPT ![c] = "refresh"]
        /\ UNCHANGED <<sessionOrg, me, mounted, message>>
    BY <1>4 DEF Accepted, server
  <2> HIDE DEF t, o
  <2>6. cards' \in [Tabs -> SUBSET Calls]
    <3> DEFINE shown == cards[t] \cup {reply[c].job}
    <3>1. shown \in SUBSET Calls
      BY <1>2, <1>3, <2>1
    <3>2. cards' = cards \/ cards' = [cards EXCEPT ![t] = shown]
      BY <2>5
    <3> HIDE DEF shown
    <3> QED
      BY <1>3, <3>1, <3>2
  <2>7. cooldown' \subseteq Tabs /\ client' \in [Calls -> ClientSteps]
    BY <1>3, <2>5 DEF ClientSteps
  <2> QED
    BY <1>3, <2>4, <2>5, <2>6, <2>7
<1>5. CASE Insufficient(c)
  BY <1>3, <1>5 DEF Insufficient, ClientSteps, server, page
<1>6. CASE TooMany(c)
  BY <1>2, <1>3, <1>6 DEF TooMany, Finish, Countdown, ClientSteps, server
<1>7. CASE Failed(c)
  BY <1>2, <1>3, <1>7 DEF Failed, Finish, Say, ClientSteps, Messages, server
<1>8. MessageAfterAdopt(t) \in Messages
  BY <1>2 DEF MessageAfterAdopt, TypeOK, Messages
<1>9. CASE RefreshAfterAccepted(c)
  <2>1. CASE Adopt(t) /\ Say(t, MessageAfterAdopt(t))
    BY <1>2, <1>3, <1>8, <1>9, <2>1, AdoptTypes
       DEF RefreshAfterAccepted, Finish, Say, ClientSteps, server
  <2>2. CASE UNCHANGED <<me, mounted, page>>
    BY <1>3, <1>9, <2>2 DEF RefreshAfterAccepted, Finish, ClientSteps, server, page
  <2> QED
    BY <1>9, <2>1, <2>2 DEF RefreshAfterAccepted
<1>10. CASE RefreshAfter402(c)
  <2>1. CASE Adopt(t) /\ Finish(c)
    BY <1>2, <1>3, <1>8, <1>10, <2>1, AdoptTypes
       DEF RefreshAfter402, Finish, Say, ClientSteps, Messages, server, page
  <2>2. CASE client' = [client EXCEPT ![c] = "threw"] /\ UNCHANGED <<me, mounted, page>>
    BY <1>3, <1>10, <2>2 DEF RefreshAfter402, ClientSteps, server, page
  <2> QED
    BY <1>10, <2>1, <2>2 DEF RefreshAfter402
<1> QED
  BY <1>4, <1>5, <1>6, <1>7, <1>9, <1>10 DEF Receive

LEMMA PageSteps ==
    ASSUME FInv, NEW t \in Tabs,
           \/ RefreshMe(t) \/ RemoveJob(t) \/ CooldownOver(t) \/ Leave(t)
           \/ \E o \in Orgs : SwitchOrg(t, o)
    PROVE  PageTypes'
<1> USE DEF FInv, PageTypes, Messages
<1>1. PageTypes
  BY DEF TypeOK
<1>2. CASE RefreshMe(t)
  <2>1. MessageAfterAdopt(t) \in Messages
    BY DEF MessageAfterAdopt, TypeOK
  <2> QED
    BY <1>1, <1>2, <2>1, AdoptTypes DEF RefreshMe, Say, server
<1>3. CASE RemoveJob(t)
  BY <1>1, <1>3 DEF RemoveJob, Say, server
<1>4. CASE CooldownOver(t)
  BY <1>1, <1>4 DEF CooldownOver, server
<1>5. CASE Leave(t)
  BY <1>1, <1>5 DEF Leave, Say, server
<1>6. ASSUME NEW o \in Orgs, SwitchOrg(t, o)
      PROVE  PageTypes'
  <2>1. [org |-> o, credits |-> credits[o]] \in [org : Orgs, credits : Nat]
    BY DEF TypeOK
  <2> QED
    BY <1>1, <1>6, <2>1 DEF SwitchOrg, Say
<1> QED
  BY <1>2, <1>3, <1>4, <1>5, <1>6

LEMMA AroundTypes ==
    ASSUME FInv, Around
    PROVE  FInv'
<1>1. PageTypes'
  BY ReceiveTypes, PageSteps DEF Around
<1>2. /\ UNCHANGED <<limiter, credits, jobs, reply, asked>>
      /\ \A c \in Calls : Sent(c)' <=> Sent(c)
  BY AroundKeeps DEF FInv
<1>3. TypeOK'
  BY <1>1, <1>2 DEF FInv, TypeOK, PageTypes, limiter, LimiterTypeOK
<1>4. CallInv' /\ Counted'
  BY <1>2 DEF FInv, CallInv, Counted, limiter
<1> QED
  BY <1>3, <1>4 DEF FInv

LEMMA FormInductive ==
    ASSUME FInv, LInv', [Next]_vars
    PROVE  FInv'
<1>1. CASE UNCHANGED vars
  BY <1>1 DEF vars, server, browser, page, limiter, FInv, TypeOK, LimiterTypeOK, CallInv, Sent, Counted
<1>2. CASE Limit \/ \E c \in Calls : Context(c) \/ Serve(c)
  BY <1>2, ServerTypes
<1>3. CASE \E t \in Tabs, c \in Calls : Submit(t, c)
  BY <1>3, SubmitTypes
<1>4. CASE Around
  BY <1>4, AroundTypes
<1> QED
  BY <1>1, <1>2, <1>3, <1>4 DEF Next, Around

-----------------------------------------------------------------------------
(* Keys, jobs and the session's organization.                              *)

\* A key belongs to one search: the one its minting call was sent for.  In storage it is the key
\* of the search that is not acknowledged yet.
KeyInv ==
    /\ \A c \in Calls :
        Sent(c) => LET k == asked[c].key
                   IN  Sent(k) /\ asked[k].key = k /\ SameSearch(c, k)
    /\ \A t \in Tabs, o \in Orgs :
        stored[t][o] # Null =>
            LET k == stored[t][o]
            IN  Sent(k) /\ asked[k] = [tab |-> t, org |-> o, key |-> k, round |-> round[t][o]]
    /\ \A c \in Calls : Sent(c) => asked[c].round <= round[asked[c].tab][asked[c].org]

\* A job carries the organization and the key of the call that inserted it, which no other job
\* has; a call is answered with a job under its own key.
JobInv ==
    /\ \A j \in Calls :
        jobs[j] # Null => /\ Sent(j) /\ at[j] # "idle"
                          /\ jobs[j] = [org |-> org[j], key |-> asked[j].key]
    /\ \A i, j \in Calls : jobs[i] # Null /\ jobs[j] # Null /\ jobs[i] = jobs[j] => i = j
    /\ \A c \in Calls :
        reply[c].kind = "accepted" =>
            Sent(c) /\ Sent(reply[c].job) /\ asked[reply[c].job].key = asked[c].key

\* With a storage that works, the submits of one search carry one key.
OneKeyInv ==
    /\ \A c \in Calls :
        Sent(c) /\ asked[c].round = round[asked[c].tab][asked[c].org]
            => stored[asked[c].tab][asked[c].org] = asked[c].key
    /\ \A c, d \in Calls : Sent(c) /\ Sent(d) /\ SameSearch(c, d) => asked[c].key = asked[d].key

\* Some call under key k has yet to reach the server, or may still be submitted.
Live(k) ==
    \/ \E d \in Calls : Sent(d) /\ at[d] = "idle" /\ asked[d].key = k
    \/ \E t \in Tabs, o \in Orgs : stored[t][o] = k

\* While the organization stays for as long as a search is not acknowledged, the server acts
\* for one organization in all calls of one key: the session's, as long as the key is live.
SessionInv ==
    /\ \A c, d \in Calls :
        at[c] # "idle" /\ at[d] # "idle" /\ asked[c].key = asked[d].key => org[c] = org[d]
    /\ \A c \in Calls : at[c] # "idle" /\ Live(asked[c].key) => org[c] = sessionOrg

-----------------------------------------------------------------------------
(* What the steps do to calls, keys and organizations.                     *)

Sending(t, c) ==
    [tab |-> t, org |-> me[t].org, key |-> GetIdemKey(t, me[t].org, c), round |-> round[t][me[t].org]]

LEMMA SubmitDoes ==
    ASSUME FInv, NEW t \in Tabs, NEW c \in Calls, Submit(t, c)
    PROVE  LET m == Sending(t, c)
           IN  /\ m \in Submits /\ m.tab = t /\ m.round = round[t][m.org]
               /\ m.key = (IF stored[t][m.org] # Null THEN stored[t][m.org] ELSE c)
               /\ ~Sent(c) /\ at[c] = "idle"
               /\ \A d \in Calls : Sent(d)' <=> Sent(d) \/ d = c
               /\ asked'[c] = m /\ \A d \in Calls \ {c} : asked'[d] = asked[d]
               /\ \A u \in Tabs, o \in Orgs :
                    stored'[u][o] = IF StorageWorks /\ u = t /\ o = m.org THEN m.key ELSE stored[u][o]
               /\ UNCHANGED <<round, at, org, jobs, reply, sessionOrg>>
<1> DEFINE o == me[t].org
           k == GetIdemKey(t, o, c)
           m == Sending(t, c)
<1> USE DEF FInv
<1>1. o \in Orgs /\ k \in Calls /\ round[t][o] \in Nat
  BY DEF TypeOK, GetIdemKey
<1>2. m \in Submits /\ m.tab = t /\ m.org = o /\ m.key = k /\ m.round = round[t][o]
  BY <1>1 DEF Submits, Sending
<1>3. k = (IF stored[t][o] # Null THEN stored[t][o] ELSE c)
  BY DEF GetIdemKey
<1>4. /\ stored' = (IF StorageWorks THEN [stored EXCEPT ![t][o] = k] ELSE stored)
      /\ asked' = [asked EXCEPT ![c] = m]
      /\ client' = [client EXCEPT ![c] = "waiting"] /\ client[c] = "idle"
      /\ UNCHANGED <<server, round>>
  BY DEF Submit, Sending
<1> HIDE DEF k, o, m
<1>5. ~Sent(c) /\ at[c] = "idle"
  BY <1>4 DEF Sent, CallInv
<1>6. \A d \in Calls : Sent(d)' <=> Sent(d) \/ d = c
  BY <1>4 DEF Sent, TypeOK
<1>7. asked'[c] = m /\ \A d \in Calls \ {c} : asked'[d] = asked[d]
  BY <1>4 DEF TypeOK
<1>8. \A u \in Tabs, p \in Orgs :
         stored'[u][p] = IF StorageWorks /\ u = t /\ p = o THEN k ELSE stored[u][p]
  BY <1>1, <1>4 DEF TypeOK
<1>9. UNCHANGED <<round, at, org, jobs, reply, sessionOrg>>
  BY <1>4 DEF server, limiter
<1> QED
  BY <1>2, <1>3, <1>5, <1>6, <1>7, <1>8, <1>9 DEF m

LEMMA AcceptedDoes ==
    ASSUME FInv, NEW c \in Calls, Accepted(c)
    PROVE  LET t == asked[c].tab
               o == asked[c].org
           IN  /\ t \in Tabs /\ o \in Orgs /\ round[t][o] \in Nat
               /\ \A u \in Tabs, p \in Orgs :
                    /\ stored'[u][p] = IF u = t /\ p = o THEN Null ELSE stored[u][p]
                    /\ round'[u][p] = IF u = t /\ p = o THEN round[t][o] + 1 ELSE round[u][p]
               /\ \A d \in Calls : Sent(d)' <=> Sent(d)
               /\ UNCHANGED <<asked, at, org, jobs, reply, sessionOrg>>
<1> DEFINE t == asked[c].tab
           o == asked[c].org
           n == round[t][o] + 1
<1> USE DEF FInv
<1>1. Sent(c) /\ client' = [client EXCEPT ![c] = "refresh"]
  BY DEF Accepted, Sent
<1>2. t \in Tabs /\ o \in Orgs
  BY <1>1 DEF CallInv, Submits
<1>3. /\ stored' = [stored EXCEPT ![t][o] = Null]
      /\ round' = [round EXCEPT ![t][o] = n]
  BY DEF Accepted, Rotated
<1>4. UNCHANGED <<asked, at, org, jobs, reply, sessionOrg>>
  BY DEF Accepted, server, limiter
<1>5. round[t][o] \in Nat
  BY <1>2 DEF TypeOK
<1> HIDE DEF n
<1>6. \A u \in Tabs, p \in Orgs :
         /\ stored'[u][p] = IF u = t /\ p = o THEN Null ELSE stored[u][p]
         /\ round'[u][p] = IF u = t /\ p = o THEN n ELSE round[u][p]
  BY <1>2, <1>3 DEF TypeOK
<1>7. \A d \in Calls : Sent(d)' <=> Sent(d)
  BY <1>1 DEF Sent, TypeOK
<1> QED
  BY <1>2, <1>4, <1>5, <1>6, <1>7 DEF n

\* The call enters: by now it acts for the session's organization.
LEMMA ContextDoes ==
    ASSUME FInv, NEW c \in Calls, Context(c)
    PROVE  /\ Sent(c) /\ at[c] = "idle" /\ at'[c] # "idle" /\ org'[c] = sessionOrg
           /\ \A d \in Calls \ {c} : at'[d] = at[d] /\ org'[d] = org[d]
           /\ \A d \in Calls : Sent(d)' <=> Sent(d)
           /\ UNCHANGED <<asked, stored, round, jobs, reply, sessionOrg>>
<1> USE DEF FInv
<1>1. Sent(c) /\ at[c] = "idle" /\ UNCHANGED <<asked, stored, round, jobs, reply, sessionOrg, client>>
  BY DEF Context, Arrive, Sent, browser
<1>2. /\ at' = [at EXCEPT ![c] = IF MaxPerWindow = 0 THEN "admitted" ELSE "incr"]
      /\ org' = [org EXCEPT ![c] = sessionOrg]
  BY DEF Context, Arrive, Goto
<1> QED
  BY <1>1, <1>2 DEF Sent, TypeOK, LimiterTypeOK

LEMMA ServeDoes ==
    ASSUME FInv, NEW c \in Calls, Serve(c)
    PROVE  /\ Sent(c) /\ at[c] # "idle"
           /\ \A d \in Calls : Sent(d)' <=> Sent(d)
           /\ \A d \in Calls \ {c} : jobs'[d] = jobs[d] /\ reply'[d] = reply[d]
           /\ \/ jobs'[c] = jobs[c] /\ reply'[c].kind # "accepted"
              \/ /\ jobs'[c] = jobs[c]
                 /\ \E j \in JobsUnder(org[c], asked[c].key) : reply'[c].job = j
              \/ /\ JobsUnder(org[c], asked[c].key) = {}
                 /\ jobs'[c] = [org |-> org[c], key |-> asked[c].key]
                 /\ reply'[c].job = c
           /\ UNCHANGED <<asked, stored, round, at, org, sessionOrg>>
<1> USE DEF FInv
<1>1. Sent(c) /\ at[c] # "idle"
  BY DEF Serve, RespondLimited, RespondFailed, Replay, Charge, CallInv
<1>2. UNCHANGED <<asked, stored, round, at, org, sessionOrg, client>>
  BY DEF Serve, RespondLimited, RespondFailed, Replay, Charge, Respond, browser, limiter
<1>3. CASE RespondLimited(c) \/ RespondFailed(c)
  <2>1. /\ jobs' = jobs
        /\ \E kind \in {"limited", "failed"} :
                reply' = [reply EXCEPT ![c] = [kind |-> kind, job |-> Null]]
    BY <1>3 DEF RespondLimited, RespondFailed, Respond
  <2> QED
    BY <1>1, <1>2, <2>1 DEF Sent, TypeOK
<1>4. CASE Replay(c)
  <2>1. jobs' = jobs
    BY <1>4 DEF Replay
  <2>2. PICK j \in JobsUnder(org[c], asked[c].key) :
            reply' = [reply EXCEPT ![c] = [kind |-> "accepted", job |-> j]]
    BY <1>4 DEF Replay, Respond
  <2> QED
    BY <1>1, <1>2, <2>1, <2>2 DEF Sent, TypeOK
<1>5. CASE Charge(c) /\ CanPay(org[c])
  <2> DEFINE row == [org |-> org[c], key |-> asked[c].key]
  <2>1. /\ JobsUnder(org[c], asked[c].key) = {}
        /\ jobs' = [jobs EXCEPT ![c] = row]
        /\ reply' = [reply EXCEPT ![c] = [kind |-> "accepted", job |-> c]]
    BY <1>5 DEF Charge, Respond
  <2> HIDE DEF row
  <2>2. jobs'[c] = row /\ \A d \in Calls \ {c} : jobs'[d] = jobs[d] /\ reply'[d] = reply[d]
    BY <2>1 DEF TypeOK
  <2>3. reply'[c].job = c
    BY <2>1 DEF TypeOK
  <2> QED
    BY <1>1, <1>2, <2>1, <2>2, <2>3 DEF Sent, row
<1>6. CASE Charge(c) /\ ~CanPay(org[c])
  <2>1. jobs' = jobs /\ reply' = [reply EXCEPT ![c] = [kind |-> "insufficient", job |-> Null]]
    BY <1>6 DEF Charge, Respond
  <2> QED
    BY <1>1, <1>2, <2>1 DEF Sent, TypeOK
<1> QED
  BY <1>3, <1>4, <1>5, <1>6 DEF Serve

\* A step that leaves keys, jobs and organizations to themselves.
Quiet ==
    /\ UNCHANGED <<asked, stored, round, jobs, reply, sessionOrg>>
    /\ \A c \in Calls : (Sent(c)' <=> Sent(c)) /\ (at'[c] = "idle" <=> at[c] = "idle")
    /\ \A c \in Calls : org'[c] = org[c]

LEMMA Kinds ==
    ASSUME FInv, [Next]_vars
    PROVE  \/ \E t \in Tabs, c \in Calls : Submit(t, c)
           \/ \E c \in Calls : Accepted(c) \/ Context(c) \/ Serve(c)
           \/ \E t \in Tabs, o \in Orgs : SwitchOrg(t, o)
           \/ Quiet
<1> USE DEF FInv
<1>1. CASE UNCHANGED vars
  BY <1>1 DEF vars, server, browser, limiter, Quiet, Sent
<1>2. CASE Limit
  <2>1. UNCHANGED <<browser, credits, jobs, sessionOrg, reply>>
    BY <1>2 DEF Limit
  <2> QED
    BY <1>2, <2>1, LimitKeeps DEF Quiet, browser, Sent
<1>3. ASSUME NEW c \in Calls, Receive(c), ~Accepted(c)
      PROVE  Quiet
  <2>1. UNCHANGED <<stored, round, sessionOrg>>
    BY <1>3 DEF Receive, Insufficient, TooMany, Failed, RefreshAfterAccepted, RefreshAfter402, server
  <2> QED
    BY <1>3, <2>1, AroundKeeps DEF Around, Quiet, limiter
<1>4. ASSUME NEW t \in Tabs, RefreshMe(t) \/ RemoveJob(t) \/ CooldownOver(t) \/ Leave(t)
      PROVE  Quiet
  <2>1. UNCHANGED <<stored, round, sessionOrg>>
    BY <1>4 DEF RefreshMe, RemoveJob, CooldownOver, Leave, server
  <2> QED
    BY <1>4, <2>1, AroundKeeps DEF Around, Quiet, limiter
<1> QED
  BY <1>1, <1>2, <1>3, <1>4 DEF Next

-----------------------------------------------------------------------------
(* Every step keeps the invariants.                                        *)

LEMMA SwitchDoes ==
    ASSUME FInv, NEW t \in Tabs, NEW o \in Orgs, SwitchOrg(t, o)
    PROVE  /\ UNCHANGED <<asked, stored, round, at, org, jobs, reply>>
           /\ \A d \in Calls : Sent(d)' <=> Sent(d)
           /\ Unacked => SwitchUnacked
BY DEF SwitchOrg, limiter, Sent

LEMMA KeyKept ==
    ASSUME FInv, KeyInv, [Next]_vars
    PROVE  KeyInv'
<1> USE DEF FInv
<1>1. CASE UNCHANGED <<asked, stored, round>> /\ \A d \in Calls : Sent(d)' <=> Sent(d)
  <2>1. \A d \in Calls : Sent(d) => asked[d].key \in Calls
    BY DEF CallInv, Submits
  <2>2. \A u \in Tabs, p \in Orgs : stored[u][p] \in Calls \cup {Null}
    BY DEF TypeOK
  <2> QED
    BY <1>1, <2>1, <2>2 DEF KeyInv, SameSearch, Sent
<1>2. ASSUME NEW t \in Tabs, NEW c \in Calls, Submit(t, c)
      PROVE  KeyInv'
  <2>1. PICK m \in Submits :
        /\ m.tab = t /\ m.round = round[t][m.org]
        /\ m.key = (IF stored[t][m.org] # Null THEN stored[t][m.org] ELSE c)
        /\ ~Sent(c)
        /\ \A d \in Calls : client'[d] # "idle" <=> Sent(d) \/ d = c
        /\ asked'[c] = m /\ \A d \in Calls \ {c} : asked'[d] = asked[d]
        /\ \A u \in Tabs, p \in Orgs :
                stored'[u][p] = IF StorageWorks /\ u = t /\ p = m.org THEN m.key ELSE stored[u][p]
        /\ round' = round
    BY <1>2, SubmitDoes DEF Sent
  <2> DEFINE o == m.org
             k == m.key
  <2>2. o \in Orgs /\ k \in Calls /\ m.round \in Nat
    BY <2>1 DEF Submits
  <2>3. m = [tab |-> t, org |-> o, key |-> k, round |-> round[t][o]]
    BY <2>1 DEF Submits
  \* The key is the call's own, or that of a call sent for the same search.
  <2>4. /\ client'[k] # "idle" /\ asked'[k].key = k
        /\ asked'[k] = [tab |-> t, org |-> o, key |-> k, round |-> round[t][o]]
    <3>1. CASE stored[t][o] # Null
      BY <2>1, <2>2, <3>1 DEF KeyInv
    <3>2. CASE stored[t][o] = Null
      BY <2>1, <2>3, <3>2
    <3> QED
      BY <3>1, <3>2
  <2>5. ASSUME NEW d \in Calls, client'[d] # "idle"
        PROVE  LET q == asked'[d].key
               IN  /\ client'[q] # "idle" /\ asked'[q].key = q
                   /\ asked'[d].tab = asked'[q].tab /\ asked'[d].org = asked'[q].org
                   /\ asked'[d].round = asked'[q].round
    <3>1. CASE d = c
      BY <2>1, <2>3, <2>4, <3>1
    <3>2. CASE d # c
      <4>1. Sent(d) /\ asked'[d] = asked[d] /\ asked[d].key \in Calls
        BY <2>1, <2>5, <3>2 DEF CallInv, Submits
      <4>2. LET q == asked[d].key IN Sent(q) /\ asked[q].key = q /\ SameSearch(d, q)
        BY <4>1 DEF KeyInv
      <4>3. LET q == asked[d].key IN client'[q] # "idle" /\ asked'[q] = asked[q]
        BY <2>1, <4>1, <4>2
      <4> QED
        BY <4>1, <4>2, <4>3 DEF SameSearch
    <3> QED
      BY <3>1, <3>2
  <2>6. ASSUME NEW u \in Tabs, NEW p \in Orgs, stored'[u][p] # Null
        PROVE  LET q == stored'[u][p]
               IN  client'[q] # "idle" /\ asked'[q] = [tab |-> u, org |-> p, key |-> q, round |-> round'[u][p]]
    <3>1. CASE StorageWorks /\ u = t /\ p = o
      BY <2>1, <2>4, <3>1
    <3>2. CASE ~(StorageWorks /\ u = t /\ p = o)
      <4>1. stored'[u][p] = stored[u][p] /\ stored[u][p] \in Calls
        BY <2>1, <2>6, <3>2 DEF TypeOK
      <4> QED
        BY <2>1, <2>6, <4>1 DEF KeyInv
    <3> QED
      BY <3>1, <3>2
  <2>7. ASSUME NEW d \in Calls, client'[d] # "idle"
        PROVE  asked'[d].round <= round'[asked'[d].tab][asked'[d].org]
    BY <2>1, <2>2, <2>7 DEF KeyInv
  <2> QED
    BY <2>5, <2>6, <2>7 DEF KeyInv, SameSearch, Sent
<1>3. ASSUME NEW c \in Calls, Accepted(c)
      PROVE  KeyInv'
  <2> DEFINE t == asked[c].tab
             o == asked[c].org
  <2>1. /\ t \in Tabs /\ o \in Orgs /\ round[t][o] \in Nat
        /\ \A u \in Tabs, p \in Orgs :
                /\ stored'[u][p] = IF u = t /\ p = o THEN Null ELSE stored[u][p]
                /\ round'[u][p] = IF u = t /\ p = o THEN round[t][o] + 1 ELSE round[u][p]
        /\ \A d \in Calls : client'[d] # "idle" <=> Sent(d)
        /\ UNCHANGED asked
    BY <1>3, AcceptedDoes DEF Sent
  <2> HIDE DEF t, o
  <2>2. ASSUME NEW d \in Calls, Sent(d)
        PROVE  asked[d].round <= round'[asked[d].tab][asked[d].org]
    <3>1. asked[d].tab \in Tabs /\ asked[d].org \in Orgs /\ asked[d].round \in Nat
      BY <2>2 DEF CallInv, Submits
    <3>2. asked[d].round <= round[asked[d].tab][asked[d].org] /\ round[asked[d].tab][asked[d].org] \in Nat
      BY <2>2, <3>1 DEF KeyInv, TypeOK
    <3> QED
      BY <2>1, <3>1, <3>2
  <2>3. ASSUME NEW d \in Calls, Sent(d)
        PROVE  asked[d].key \in Calls
    BY <2>3 DEF CallInv, Submits
  <2>4. \A u \in Tabs, p \in Orgs : stored[u][p] \in Calls \cup {Null}
    BY DEF TypeOK
  <2> QED
    BY <2>1, <2>2, <2>3, <2>4 DEF KeyInv, SameSearch, Sent
<1> QED
  BY <1>1, <1>2, <1>3, Kinds, ContextDoes, ServeDoes, SwitchDoes DEF Quiet

LEMMA JobKept ==
    ASSUME FInv, KeyInv, JobInv, [Next]_vars
    PROVE  JobInv'
<1> USE DEF FInv
<1>1. \A j \in Calls : reply[j].kind = "accepted" => reply[j].job \in Calls
  BY DEF CallInv
\* Jobs, their calls and the answers stay, though calls may be sent or arrive.
<1>2. ASSUME UNCHANGED <<jobs, reply>>,
             \A d \in Calls : Sent(d) => client'[d] # "idle" /\ asked'[d] = asked[d],
             \A d \in Calls : at[d] # "idle" => at'[d] # "idle" /\ org'[d] = org[d]
      PROVE  JobInv'
  BY <1>1, <1>2 DEF JobInv, Sent
<1>3. ASSUME NEW t \in Tabs, NEW c \in Calls, Submit(t, c)
      PROVE  JobInv'
  <2>1. /\ ~Sent(c) /\ \A d \in Calls : client'[d] # "idle" <=> Sent(d) \/ d = c
        /\ \A d \in Calls \ {c} : asked'[d] = asked[d]
        /\ UNCHANGED <<at, org, jobs, reply>>
    BY <1>3, SubmitDoes DEF Sent
  <2> QED
    BY <1>2, <2>1
<1>4. ASSUME NEW c \in Calls, Serve(c)
      PROVE  JobInv'
  <2> DEFINE under == JobsUnder(org[c], asked[c].key)
             row == [org |-> org[c], key |-> asked[c].key]
  <2>1. /\ Sent(c) /\ at[c] # "idle"
        /\ \A d \in Calls : client'[d] # "idle" <=> Sent(d)
        /\ \A d \in Calls \ {c} : jobs'[d] = jobs[d] /\ reply'[d] = reply[d]
        /\ \/ jobs'[c] = jobs[c] /\ reply'[c].kind # "accepted"
           \/ jobs'[c] = jobs[c] /\ \E j \in under : reply'[c].job = j
           \/ under = {} /\ jobs'[c] = row /\ reply'[c].job = c
        /\ UNCHANGED <<asked, at, org>>
    BY <1>4, ServeDoes DEF Sent
  <2>2. \A j \in Calls : (j \in under) <=> (jobs[j] # Null /\ jobs[j].org = org[c] /\ jobs[j].key = asked[c].key)
    BY DEF JobsUnder
  <2>3. under \subseteq Calls
    BY DEF JobsUnder
  <2> HIDE DEF under
  <2>4. row.org = org[c] /\ row.key = asked[c].key
    OBVIOUS
  <2>5. ASSUME NEW j \in Calls, jobs'[j] # Null
        PROVE  Sent(j) /\ at[j] # "idle" /\ jobs'[j] = [org |-> org[j], key |-> asked[j].key]
    BY <2>1, <2>5 DEF JobInv
  <2> HIDE DEF row
  <2>6. ASSUME NEW i \in Calls, NEW j \in Calls,
               jobs'[i] # Null, jobs'[j] # Null, jobs'[i] = jobs'[j]
        PROVE  i = j
    <3>1. CASE jobs'[c] = jobs[c]
      BY <2>1, <2>6, <3>1 DEF JobInv
    <3>2. CASE under = {} /\ jobs'[c] = row
      BY <2>1, <2>2, <2>4, <2>6, <3>2 DEF JobInv
    <3> QED
      BY <2>1, <3>1, <3>2
  <2>7. ASSUME NEW d \in Calls, reply'[d].kind = "accepted"
        PROVE  Sent(d) /\ Sent(reply'[d].job) /\ asked[reply'[d].job].key = asked[d].key
    <3>1. CASE d # c
      BY <2>1, <2>7, <3>1 DEF JobInv
    <3>2. CASE d = c
      <4>1. ASSUME NEW j \in under
            PROVE  Sent(j) /\ asked[j].key = asked[c].key
        <5>1. j \in Calls /\ jobs[j] # Null /\ jobs[j].key = asked[c].key
          BY <2>2, <2>3
        <5>2. Sent(j) /\ jobs[j] = [org |-> org[j], key |-> asked[j].key]
          BY <5>1 DEF JobInv
        <5> QED
          BY <5>1, <5>2
      <4> QED
        BY <2>1, <2>7, <3>2, <4>1
    <3> QED
      BY <3>1, <3>2
  <2>8. \A d \in Calls : reply'[d].kind = "accepted" => reply'[d].job \in Calls
    BY <1>1, <2>1, <2>3, <2>7
  <2> QED
    BY <2>1, <2>5, <2>6, <2>7, <2>8 DEF JobInv, Sent
<1>5. ASSUME NEW c \in Calls, Accepted(c)
      PROVE  JobInv'
  BY <1>2, <1>5, AcceptedDoes DEF Sent
<1>6. ASSUME NEW c \in Calls, Context(c)
      PROVE  JobInv'
  BY <1>2, <1>6, ContextDoes DEF Sent
<1>7. ASSUME NEW t \in Tabs, NEW o \in Orgs, SwitchOrg(t, o)
      PROVE  JobInv'
  BY <1>2, <1>7, SwitchDoes DEF Sent
<1>8. CASE Quiet
  BY <1>2, <1>8 DEF Quiet, Sent
<1> QED
  BY <1>3, <1>4, <1>5, <1>6, <1>7, <1>8, Kinds

LEMMA OneKeyKept ==
    ASSUME StorageWorks, FInv, KeyInv, OneKeyInv, [Next]_vars
    PROVE  OneKeyInv'
<1> USE DEF FInv
<1>1. \A d \in Calls : Sent(d) => asked[d] \in Submits
  BY DEF CallInv
<1>2. CASE UNCHANGED <<asked, stored, round>> /\ \A d \in Calls : client'[d] # "idle" <=> Sent(d)
  BY <1>2 DEF OneKeyInv, SameSearch, Sent
<1>3. ASSUME NEW t \in Tabs, NEW c \in Calls, Submit(t, c)
      PROVE  OneKeyInv'
  <2>1. PICK m \in Submits :
        /\ m.tab = t /\ m.round = round[t][m.org]
        /\ m.key = (IF stored[t][m.org] # Null THEN stored[t][m.org] ELSE c)
        /\ ~Sent(c)
        /\ \A d \in Calls : client'[d] # "idle" <=> Sent(d) \/ d = c
        /\ asked'[c] = m /\ \A d \in Calls \ {c} : asked'[d] = asked[d]
        /\ \A u \in Tabs, p \in Orgs :
                stored'[u][p] = IF u = t /\ p = m.org THEN m.key ELSE stored[u][p]
        /\ round' = round
    BY <1>3, SubmitDoes DEF Sent
  \* A call of this round has its key in storage, which is the one that is sent.
  <2>2. ASSUME NEW d \in Calls, Sent(d),
               asked[d].tab = t, asked[d].org = m.org, asked[d].round = m.round
        PROVE  asked[d].key = m.key
    <3>1. stored[t][m.org] = asked[d].key
      BY <2>1, <2>2 DEF OneKeyInv
    <3>2. asked[d].key \in Calls
      BY <1>1, <2>2 DEF Submits
    <3> QED
      BY <2>1, <3>1, <3>2, NoCallIsNull
  <2>3. ASSUME NEW d \in Calls, client'[d] # "idle",
               asked'[d].round = round'[asked'[d].tab][asked'[d].org]
        PROVE  stored'[asked'[d].tab][asked'[d].org] = asked'[d].key
    <3>1. CASE d = c
      BY <2>1, <3>1 DEF Submits
    <3>2. CASE d # c
      <4>1. Sent(d) /\ asked'[d] = asked[d] /\ asked[d].tab \in Tabs /\ asked[d].org \in Orgs
        BY <1>1, <2>1, <2>3, <3>2 DEF Submits
      <4>2. stored[asked[d].tab][asked[d].org] = asked[d].key
        BY <2>1, <2>3, <4>1 DEF OneKeyInv
      <4>3. asked[d].tab = t /\ asked[d].org = m.org => asked[d].key = m.key
        BY <2>1, <2>2, <2>3, <4>1
      <4> QED
        BY <2>1, <4>1, <4>2, <4>3
    <3> QED
      BY <3>1, <3>2
  <2>4. ASSUME NEW d \in Calls, NEW e \in Calls, client'[d] # "idle", client'[e] # "idle",
               asked'[d].tab = asked'[e].tab, asked'[d].org = asked'[e].org,
               asked'[d].round = asked'[e].round
        PROVE  asked'[d].key = asked'[e].key
    <3>1. CASE d # c /\ e # c
      BY <2>1, <2>4, <3>1 DEF OneKeyInv, SameSearch
    <3>2. CASE d = c \/ e = c
      BY <2>1, <2>2, <2>4, <3>2
    <3> QED
      BY <3>1, <3>2
  <2> QED
    BY <2>3, <2>4 DEF OneKeyInv, SameSearch, Sent
<1>4. ASSUME NEW c \in Calls, Accepted(c)
      PROVE  OneKeyInv'
  <2> DEFINE t == asked[c].tab
             o == asked[c].org
  <2>1. /\ t \in Tabs /\ o \in Orgs /\ round[t][o] \in Nat
        /\ \A u \in Tabs, p \in Orgs :
                /\ stored'[u][p] = IF u = t /\ p = o THEN Null ELSE stored[u][p]
                /\ round'[u][p] = IF u = t /\ p = o THEN round[t][o] + 1 ELSE round[u][p]
        /\ \A d \in Calls : client'[d] # "idle" <=> Sent(d)
        /\ UNCHANGED asked
    BY <1>4, AcceptedDoes DEF Sent
  <2> HIDE DEF t, o
  <2>2. ASSUME NEW d \in Calls, Sent(d),
               asked[d].round = round'[asked[d].tab][asked[d].org]
        PROVE  stored'[asked[d].tab][asked[d].org] = asked[d].key
    <3>1. asked[d].tab \in Tabs /\ asked[d].org \in Orgs /\ asked[d].round \in Nat
      BY <1>1, <2>2 DEF Submits
    <3>2. asked[d].round <= round[asked[d].tab][asked[d].org]
      BY <2>2 DEF KeyInv
    <3>3. ~(asked[d].tab = t /\ asked[d].org = o)
      BY <2>1, <2>2, <3>1, <3>2
    <3> QED
      BY <2>1, <2>2, <3>1, <3>3 DEF OneKeyInv
  <2> QED
    BY <2>1, <2>2 DEF OneKeyInv, SameSearch, Sent
<1> QED
  BY <1>2, <1>3, <1>4, Kinds, ContextDoes, ServeDoes, SwitchDoes DEF Quiet, Sent

LEMMA SessionKept ==
    ASSUME ~SwitchUnacked, FInv, KeyInv, SessionInv, [Next]_vars
    PROVE  SessionInv'
<1> USE DEF FInv
\* Calls that have arrived were sent, under a key that is a call.
<1>1. ASSUME NEW d \in Calls, at[d] # "idle"
      PROVE  Sent(d) /\ asked[d].key \in Calls /\ asked[d].key # Null
  BY <1>1, NoCallIsNull DEF CallInv, Submits
<1>2. ASSUME NEW t \in Tabs, NEW c \in Calls, Submit(t, c)
      PROVE  SessionInv'
  <2>1. PICK m \in Submits :
        /\ m.key = (IF stored[t][m.org] # Null THEN stored[t][m.org] ELSE c)
        /\ ~Sent(c) /\ at[c] = "idle"
        /\ \A d \in Calls : client'[d] # "idle" <=> Sent(d) \/ d = c
        /\ asked'[c] = m /\ \A d \in Calls \ {c} : asked'[d] = asked[d]
        /\ \A u \in Tabs, p \in Orgs :
                stored'[u][p] = IF StorageWorks /\ u = t /\ p = m.org THEN m.key ELSE stored[u][p]
        /\ UNCHANGED <<at, org, sessionOrg>>
    BY <1>2, SubmitDoes DEF Sent
  <2>2. m.org \in Orgs
    BY DEF Submits
  <2>3. ASSUME NEW d \in Calls, at[d] # "idle", asked[d].key = m.key
        PROVE  stored[t][m.org] = m.key
    <3>1. CASE stored[t][m.org] # Null
      BY <2>1, <3>1
    <3>2. CASE stored[t][m.org] = Null
      <4>1. asked[d].key = c
        BY <2>1, <2>3, <3>2
      <4>2. client[c] # "idle"
        BY <1>1, <2>3, <4>1 DEF KeyInv, Sent
      <4> QED
        BY <2>1, <4>2 DEF Sent
    <3> QED
      BY <3>1, <3>2
  <2>4. ASSUME NEW d \in Calls, at[d] # "idle",
               \/ \E e \in Calls : client'[e] # "idle" /\ at[e] = "idle" /\ asked'[e].key = asked[d].key
               \/ \E u \in Tabs, p \in Orgs : stored'[u][p] = asked[d].key
        PROVE  Live(asked[d].key)
    <3>1. CASE m.key = asked[d].key
      BY <2>2, <2>3, <2>4, <3>1 DEF Live
    <3>2. CASE m.key # asked[d].key
      BY <2>1, <2>4, <3>2 DEF Live
    <3> QED
      BY <3>1, <3>2
  <2>5. \A d \in Calls : at'[d] # "idle" => at[d] # "idle" /\ asked'[d] = asked[d]
    BY <2>1
  <2>6. ASSUME NEW c1 \in Calls, NEW c2 \in Calls, at[c1] # "idle", at[c2] # "idle",
               asked'[c1].key = asked'[c2].key
        PROVE  org[c1] = org[c2]
    BY <2>1, <2>5, <2>6 DEF SessionInv
  <2>7. ASSUME NEW d \in Calls, at[d] # "idle",
               \/ \E e \in Calls : client'[e] # "idle" /\ at[e] = "idle" /\ asked'[e].key = asked'[d].key
               \/ \E u \in Tabs, p \in Orgs : stored'[u][p] = asked'[d].key
        PROVE  org[d] = sessionOrg
    BY <2>1, <2>4, <2>5, <2>7 DEF SessionInv
  <2> QED
    BY <2>1, <2>6, <2>7 DEF SessionInv, Live, Sent
<1>3. ASSUME UNCHANGED <<asked, sessionOrg>>,
             \A d \in Calls : client'[d] # "idle" <=> Sent(d),
             \A d \in Calls : (at'[d] = "idle" <=> at[d] = "idle") /\ org'[d] = org[d],
             \A u \in Tabs, p \in Orgs : stored'[u][p] = stored[u][p] \/ stored'[u][p] = Null
      PROVE  SessionInv'
  <2>1. ASSUME NEW d \in Calls, at[d] # "idle",
               \/ \E e \in Calls : client'[e] # "idle" /\ at[e] = "idle" /\ asked[e].key = asked[d].key
               \/ \E u \in Tabs, p \in Orgs : stored'[u][p] = asked[d].key
        PROVE  org[d] = sessionOrg
    <3>1. Live(asked[d].key)
      BY <1>1, <1>3, <2>1 DEF Live
    <3> QED
      BY <2>1, <3>1 DEF SessionInv
  <2>2. ASSUME NEW c \in Calls, NEW d \in Calls,
               at[c] # "idle", at[d] # "idle", asked[c].key = asked[d].key
        PROVE  org[c] = org[d]
    BY <2>2 DEF SessionInv
  <2> QED
    BY <1>3, <2>1, <2>2 DEF SessionInv, Live, Sent
<1>4. ASSUME NEW c \in Calls, Accepted(c)
      PROVE  SessionInv'
  BY <1>3, <1>4, AcceptedDoes DEF Sent
<1>5. ASSUME NEW c \in Calls, Serve(c)
      PROVE  SessionInv'
  BY <1>3, <1>5, ServeDoes DEF Sent
\* Whoever arrives acts for the session's organization, as those under its key do already.
<1>6. ASSUME NEW c \in Calls, Context(c)
      PROVE  SessionInv'
  <2>1. /\ Sent(c) /\ at[c] = "idle" /\ at'[c] # "idle" /\ org'[c] = sessionOrg
        /\ \A d \in Calls \ {c} : at'[d] = at[d] /\ org'[d] = org[d]
        /\ \A d \in Calls : client'[d] # "idle" <=> Sent(d)
        /\ UNCHANGED <<asked, stored, sessionOrg>>
    BY <1>6, ContextDoes DEF Sent
  <2>2. ASSUME NEW d \in Calls, at[d] # "idle", asked[d].key = asked[c].key
        PROVE  org[d] = sessionOrg
    BY <2>1, <2>2 DEF SessionInv, Live
  <2>3. ASSUME NEW d \in Calls, NEW e \in Calls, at'[d] # "idle", at'[e] # "idle",
               asked[d].key = asked[e].key
        PROVE  org'[d] = org'[e]
    BY <2>1, <2>2, <2>3 DEF SessionInv
  <2>4. ASSUME NEW d \in Calls, at'[d] # "idle",
               \/ \E e \in Calls : Sent(e) /\ at'[e] = "idle" /\ asked[e].key = asked[d].key
               \/ \E u \in Tabs, p \in Orgs : stored[u][p] = asked[d].key
        PROVE  org'[d] = sessionOrg
    <3>1. CASE d = c
      BY <2>1, <3>1
    <3>2. CASE d # c
      <4>1. Live(asked[d].key)
        BY <2>1, <2>4 DEF Live
      <4> QED
        BY <2>1, <2>4, <3>2, <4>1 DEF SessionInv
    <3> QED
      BY <3>1, <3>2
  <2> QED
    BY <2>1, <2>3, <2>4 DEF SessionInv, Live, Sent
\* The organization is switched only when no key is live.
<1>7. ASSUME NEW t \in Tabs, NEW o \in Orgs, SwitchOrg(t, o)
      PROVE  SessionInv'
  <2>1. /\ UNCHANGED <<asked, stored, at, org>>
        /\ \A d \in Calls : client'[d] # "idle" <=> Sent(d)
        /\ ~Unacked
    BY <1>7, SwitchDoes DEF Sent
  <2>2. \A e \in Calls : ~(Sent(e) /\ at[e] = "idle")
    BY <2>1 DEF Unacked, Sent, CallInv
  <2>3. \A u \in Tabs, p \in Orgs : stored[u][p] = Null
    BY <2>1 DEF Unacked
  <2> QED
    BY <1>1, <2>1, <2>2, <2>3 DEF SessionInv, Live, Sent
<1>8. CASE Quiet
  BY <1>3, <1>8 DEF Quiet, Sent
<1> QED
  BY <1>2, <1>4, <1>5, <1>6, <1>7, <1>8, Kinds

-----------------------------------------------------------------------------
(* The theorems.                                                           *)

\* The form runs the limiter as it is: what holds of the limiter holds below the form.
THEOREM LimiterRefined == Spec => LimiterSpec
<1>1. Init => LimiterInit
  BY DEF Init
<1>2. FInv /\ LInv /\ [Next]_vars => FInv' /\ LInv' /\ [LimiterNext]_limiter
  <2> SUFFICES ASSUME FInv, LInv, [Next]_vars
               PROVE  FInv' /\ LInv' /\ [LimiterNext]_limiter
    OBVIOUS
  <2>1. [LimiterNext]_limiter
    BY LimiterStep DEF FInv
  <2>2. LInv'
    BY <2>1, LimiterInductive
  <2> QED
    BY <2>1, <2>2, FormInductive
<1>3. Init => FInv /\ LInv
  BY FormInit DEF FInv, LInv, TypeOK
<1> QED
  BY <1>1, <1>2, <1>3, PTL DEF Spec, LimiterSpec

LEMMA BaseInvariant == Spec => [](FInv /\ KeyInv /\ JobInv)
<1>1. Init => FInv /\ LInv
  BY FormInit DEF FInv, LInv, TypeOK
<1>2. Init => KeyInv /\ JobInv
  <2> SUFFICES ASSUME Init
               PROVE  KeyInv /\ JobInv
    OBVIOUS
  <2>1. \A c \in Calls : client[c] = "idle" /\ jobs[c] = Null /\ reply[c] = NoReply
    BY DEF Init
  <2>2. \A t \in Tabs, o \in Orgs : stored[t][o] = Null
    BY DEF Init
  <2> QED
    BY <2>1, <2>2 DEF KeyInv, JobInv, Sent, NoReply
<1>3. (FInv /\ LInv) /\ (KeyInv /\ JobInv) /\ [Next]_vars => (FInv /\ LInv)' /\ (KeyInv /\ JobInv)'
  <2> SUFFICES ASSUME FInv, LInv, KeyInv, JobInv, [Next]_vars
               PROVE  FInv' /\ LInv' /\ KeyInv' /\ JobInv'
    OBVIOUS
  <2>1. LInv'
    BY LimiterStep, LimiterInductive DEF FInv
  <2> QED
    BY <2>1, FormInductive, KeyKept, JobKept
<1> QED
  BY <1>1, <1>2, <1>3, PTL DEF Spec

\* Everything the form, the browser and the route keep has its type, credits are not negative.
THEOREM TypeCorrect == Spec => []TypeOK
<1>1. FInv => TypeOK
  BY DEF FInv
<1> QED
  BY <1>1, BaseInvariant, PTL

\* Below the form, too, a window lets no call through beyond the cap and keeps its end, with
\* all the lost answers, retries, tabs and deaths around it (rate-limiter.ts:23-36,
\* api/searches/route.ts:16-19).
THEOREM FormWindowHolds == Spec => []WindowHolds
BY LimiterRefined, WindowCapped, WindowStaysFixed, PTL DEF WindowHolds

\* A submit is answered with the job of its own search, whatever was lost, retried, left or
\* switched meanwhile, and even if the key cannot be stored (search-service.ts: startSearch,
\* idempotency.ts: getIdemKey, rotateIdemKey).
THEOREM AcceptedIsOwn == Spec => []AcceptedJobOfThisSearch
<1>1. FInv /\ KeyInv /\ JobInv => AcceptedJobOfThisSearch
  <2> SUFFICES ASSUME FInv, KeyInv, JobInv, NEW c \in Calls, reply[c].kind = "accepted"
               PROVE  SameSearch(c, reply[c].job)
    BY DEF AcceptedJobOfThisSearch
  <2>1. /\ reply[c].job \in Calls
        /\ Sent(c) /\ Sent(reply[c].job) /\ asked[reply[c].job].key = asked[c].key
    BY DEF FInv, CallInv, JobInv
  <2>2. SameSearch(c, asked[c].key) /\ SameSearch(reply[c].job, asked[c].key)
    BY <2>1 DEF KeyInv
  <2> QED
    BY <2>2 DEF SameSearch
<1> QED
  BY <1>1, BaseInvariant, PTL

\* "Same key on every retry of one submit so the server charges once": with a storage that
\* works, and no switch of the organization while a search is not acknowledged, all submits of
\* one search charge at most once; leaving the page and failed refreshes do not matter.
THEOREM SearchChargedOnce ==
    ASSUME StorageWorks, ~SwitchUnacked
    PROVE  Spec => []ChargedOnce
<1>1. Init => OneKeyInv /\ SessionInv
  <2> SUFFICES ASSUME Init
               PROVE  OneKeyInv /\ SessionInv
    OBVIOUS
  <2>1. \A c \in Calls : client[c] = "idle" /\ at[c] = "idle"
    BY DEF Init, LimiterInit
  <2> QED
    BY <2>1 DEF OneKeyInv, SessionInv, Sent
<1>2. FInv /\ KeyInv /\ JobInv /\ OneKeyInv /\ SessionInv /\ [Next]_vars => OneKeyInv' /\ SessionInv'
  BY OneKeyKept, SessionKept
<1>3. FInv /\ KeyInv /\ JobInv /\ OneKeyInv /\ SessionInv => ChargedOnce
  <2> SUFFICES ASSUME FInv, KeyInv, JobInv, OneKeyInv, SessionInv,
                      NEW c \in Calls, NEW d \in Calls,
                      jobs[c] # Null, jobs[d] # Null, SameSearch(c, d)
               PROVE  c = d
    BY DEF ChargedOnce
  <2>1. /\ Sent(c) /\ at[c] # "idle" /\ jobs[c] = [org |-> org[c], key |-> asked[c].key]
        /\ Sent(d) /\ at[d] # "idle" /\ jobs[d] = [org |-> org[d], key |-> asked[d].key]
    BY DEF JobInv
  <2>2. asked[c].key = asked[d].key
    BY <2>1 DEF OneKeyInv
  <2>3. org[c] = org[d]
    BY <2>1, <2>2 DEF SessionInv
  <2>4. jobs[c] = jobs[d]
    BY <2>1, <2>2, <2>3
  <2> QED
    BY <2>4 DEF JobInv
<1> QED
  BY <1>1, <1>2, <1>3, BaseInvariant, PTL DEF Spec

-----------------------------------------------------------------------------

LEMMA ReportStep ==
    ASSUME FInv, [Next]_vars, NEW c \in Calls,
           client[c] \in {"waiting", "refresh402"}, client'[c] \in {"refresh", "done"}, c \in mounted'
    PROVE  /\ UNCHANGED <<asked, reply>>
           /\ \/ reply[c].job \in cards'[asked[c].tab]
              \/ message'[asked[c].tab] # "none" \/ asked[c].tab \in cooldown'
<1> DEFINE t == asked[c].tab
<1> USE DEF FInv
<1>1. Sent(c) /\ t \in Tabs /\ client'[c] # client[c]
  BY DEF Sent, CallInv, Submits
<1>2. PICK d \in Calls : Receive(d) \/ \E u \in Tabs : Submit(u, d)
  <2>1. UNCHANGED client => FALSE
    BY <1>1
  <2> QED
    BY <2>1 DEF Next, Limit, Context, Serve, RespondLimited, RespondFailed, Replay, Charge, Respond,
                RefreshMe, RemoveJob, CooldownOver, Leave, SwitchOrg, vars, browser
<1>3. Receive(c)
  <2>1. client'[c] # client[c]
    BY <1>1
  <2>3. \A e \in Calls : e # d => client'[e] = client[e]
    BY <1>2 DEF Receive, Accepted, Insufficient, TooMany, Failed, RefreshAfterAccepted,
                RefreshAfter402, Submit, Finish, TypeOK
  <2>4. c = d
    BY <2>1, <2>3
  <2>5. ~ \E u \in Tabs : Submit(u, c)
    BY DEF Submit
  <2> QED
    BY <1>2, <2>4, <2>5
<1>4. UNCHANGED <<asked, reply>>
  BY <1>3, AroundKeeps DEF Around
<1>5. CASE Accepted(c)
  <2>1. mounted' = mounted
    BY <1>5 DEF Accepted
  <2>2. cards' = [cards EXCEPT ![t] = @ \cup {reply[c].job}]
    BY <1>5, <2>1 DEF Accepted, OnScreen
  <2> QED
    BY <1>1, <1>4, <2>2 DEF TypeOK
<1>6. CASE TooMany(c)
  BY <1>4, <1>6 DEF TooMany, Countdown, OnScreen
<1>7. CASE Failed(c)
  <2>1. message' = [message EXCEPT ![t] = "alert"]
    BY <1>7 DEF Failed, OnScreen, Say
  <2> QED
    BY <1>1, <1>4, <2>1 DEF TypeOK
<1>8. CASE RefreshAfter402(c)
  <2>1. client'[c] # "threw"
    OBVIOUS
  <2>2. Adopt(t) /\ Say(t, IF OnScreen(c) /\ me[t].org = sessionOrg THEN "credits" ELSE MessageAfterAdopt(t))
    BY <1>8, <2>1 DEF RefreshAfter402, TypeOK
  \* Another organization remounts the page, and then the call is not on it any more.
  <2>3. c \in mounted /\ me[t].org = sessionOrg
    BY <2>2 DEF Adopt
  <2>4. message' = [message EXCEPT ![t] = "credits"]
    BY <2>2, <2>3 DEF OnScreen, Say
  <2> QED
    BY <1>1, <1>4, <2>4 DEF TypeOK
<1>9. ~Insufficient(c) /\ ~RefreshAfterAccepted(c)
  <2>1. Insufficient(c) => client'[c] = "refresh402"
    BY DEF Insufficient, TypeOK
  <2>2. RefreshAfterAccepted(c) => client[c] = "refresh"
    BY DEF RefreshAfterAccepted
  <2> QED
    BY <2>1, <2>2
<1> QED
  BY <1>3, <1>5, <1>6, <1>7, <1>8, <1>9 DEF Receive

\* A submit that ends on the page it was made from leaves its card, a message or the countdown
\* there (search/page.tsx:63-101), whatever else goes on in this tab and the others.
THEOREM SubmitsAlwaysReported == Spec => SubmitsReported
<1>1. FInv /\ [Next]_vars =>
        [\A c \in Calls :
            client[c] \in {"waiting", "refresh402"} /\ client'[c] \in {"refresh", "done"} /\ c \in mounted'
                => LET t == asked[c].tab
                   IN  reply[c].job \in cards'[t] \/ message'[t] # "none" \/ t \in cooldown']_vars
  BY ReportStep
<1> QED
  BY <1>1, BaseInvariant, PTL DEF Spec, SubmitsReported

=============================================================================
