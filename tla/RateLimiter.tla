---------------------------- MODULE RateLimiter ----------------------------
(***************************************************************************)
(* enforceSearchRateLimit: the fixed window that caps the starts of each   *)
(* organization.  The window is one Redis counter per organization.  INCR  *)
(* creates it, PEXPIRE gives it its end, and Redis deletes it then; these  *)
(* are separate commands, interleaved with those of other calls, and the   *)
(* process of a call may die between two of them.  When it dies between    *)
(* INCR and PEXPIRE, or PEXPIRE fails, the counter is left without an end. *)
(*                                                                         *)
(* Time is abstract: a key that has a TTL may be deleted at any moment.    *)
(* PTTL, which only fills in the wait a blocked call is told, is left out. *)
(***************************************************************************)
EXTENDS Integers, FiniteSets

CONSTANTS
    Orgs,           \* organizations
    Calls,          \* calls of POST /api/searches
    MaxPerWindow,   \* RATE_LIMIT_MAX; 0 disables the limiter
    MayDie,         \* the steps at which the web process may die
    Null            \* an absent value

ASSUME MaxAssumption == MaxPerWindow \in Nat
ASSUME CallsFinite == IsFiniteSet(Calls)
ASSUME NoOrgIsNull == Null \notin Orgs

VARIABLES
    count,      \* the counter of each organization; 0 when Redis has no key
    expiring,   \* organizations whose key has a TTL
    at,         \* where each call stands in the limiter
    org,        \* the organization each call acts for
    window      \* history: the calls counted since the key was created

limiter == <<count, expiring, at, org, window>>

\* The steps of a call that a process runs.
Running == {"incr", "pexpire", "admitted", "blocked"}

\* A call whose process died is "dead", or "endless" if it owed the counter its end.
Steps == {"idle", "dead", "endless"} \cup Running

ASSUME MayDieAssumption == MayDie \subseteq Running

LimiterInit ==
    /\ count = [o \in Orgs |-> 0]
    /\ expiring = {}
    /\ at = [c \in Calls |-> "idle"]
    /\ org = [c \in Calls |-> Null]
    /\ window = [o \in Orgs |-> {}]

Goto(c, step) == at' = [at EXCEPT ![c] = step]

-----------------------------------------------------------------------------

\* The cap is exceeded by the n-th call of a window.
OverCap(n) == n > MaxPerWindow

Verdict(n) == IF OverCap(n) THEN "blocked" ELSE "admitted"

\* Mutant of FirstHit: each call sets the TTL anew, and puts the end of the window off.
EveryHit(n) == TRUE

\* The call that created the key sets its TTL.
FirstHit(n) == n = 1

\* A call enters for organization o; a limiter that is disabled lets it pass.
Arrive(c, o) ==
    /\ at[c] = "idle"
    /\ org' = [org EXCEPT ![c] = o]
    /\ Goto(c, IF MaxPerWindow = 0 THEN "admitted" ELSE "incr")
    /\ UNCHANGED <<count, expiring, window>>

\* INCR, and what the code decides from the count it returns.
Incr(c) ==
    LET o == org[c]
        n == count[o] + 1
    IN  /\ at[c] = "incr"
        /\ count' = [count EXCEPT ![o] = n]
        /\ window' = [window EXCEPT ![o] = @ \cup {c}]
        /\ Goto(c, IF FirstHit(n) THEN "pexpire" ELSE Verdict(n))
        /\ UNCHANGED <<expiring, org>>

\* PEXPIRE by the first call of the window.
PExpire(c) ==
    /\ at[c] = "pexpire"
    /\ expiring' = expiring \cup {org[c]}
    /\ Goto(c, Verdict(1))
    /\ UNCHANGED <<count, org, window>>

\* The TTL has run out: Redis deletes the key.
Expire(o) ==
    /\ o \in expiring
    /\ count' = [count EXCEPT ![o] = 0]
    /\ expiring' = expiring \ {o}
    /\ window' = [window EXCEPT ![o] = {}]
    /\ UNCHANGED <<at, org>>

\* The process that runs the call dies before its next command, or that command fails.
Die(c) ==
    /\ at[c] \in MayDie
    /\ Goto(c, IF at[c] = "pexpire" THEN "endless" ELSE "dead")
    /\ UNCHANGED <<count, expiring, org, window>>

LimiterNext ==
    \/ \E c \in Calls : Incr(c) \/ PExpire(c) \/ Die(c) \/ (\E o \in Orgs : Arrive(c, o))
    \/ \E o \in Orgs : Expire(o)

LimiterSpec == LimiterInit /\ [][LimiterNext]_limiter

-----------------------------------------------------------------------------

LimiterTypeOK ==
    /\ count \in [Orgs -> Nat]
    /\ expiring \subseteq Orgs
    /\ at \in [Calls -> Steps]
    /\ org \in [Calls -> Orgs \cup {Null}]
    /\ window \in [Orgs -> SUBSET Calls]

\* "At most MAX starts per WINDOW": of the calls counted by one window, at most
\* MaxPerWindow go on to startSearch, whatever the order of their commands.
WindowCap ==
    MaxPerWindow > 0 =>
        \A o \in Orgs :
            Cardinality({c \in window[o] : at[c] \in {"pexpire", "admitted"}}) <= MaxPerWindow

\* The calls that made the counter of o and have not set its end.
Openers(o) == {c \in Calls : at[c] \in {"pexpire", "endless"} /\ org[c] = o}

\* "First request in the window sets the TTL; the window then stays fixed": a counter that
\* runs has its end, and then nobody is about to put that end off, or it has none, and then
\* exactly one call owes it, one of those it counts.  Nobody owes an end to a counter that
\* is gone, which would cut the next window short (rate-limiter.ts:23-26).
WindowFixed ==
    \A o \in Orgs :
        /\ o \in expiring => count[o] > 0
        /\ IF count[o] > 0 /\ o \notin expiring
           THEN \E c \in window[o] : Openers(o) = {c}
           ELSE Openers(o) = {}

\* The fixed window of an organization: it lets no call through beyond the cap, and its end is
\* set once, by the call that opened it, or lost with that call (rate-limiter.ts:23-36).
WindowHolds == WindowCap /\ WindowFixed

=============================================================================
