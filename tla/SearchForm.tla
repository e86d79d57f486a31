----------------------------- MODULE SearchForm -----------------------------
(***************************************************************************)
(* One submit of the search form, end to end: the form in a browser tab,   *)
(* the idempotency key it keeps in sessionStorage per organization, the    *)
(* call of POST /api/searches through the rate limiter to startSearch, the *)
(* answer or its loss, and the refresh of the session after it.            *)
(*                                                                         *)
(* The tabs of a browser share the session cookie and with it the          *)
(* session's organization, by which the server acts.  Each tab has its own *)
(* copy of /api/me, by which the form picks the key, and its own keys.     *)
(* startSearch is one step here, by the contract SearchTransactions checks *)
(* statement by statement: a known (organization, key) is replayed, a new  *)
(* one costs a credit or is refused.  A random key is named by the call    *)
(* that mints it, a job by the call that inserts it.                       *)
(***************************************************************************)
EXTENDS RateLimiter

CONSTANTS
    Tabs,            \* tabs of one signed-in browser
    InitialCredits,  \* seeded credits of each organization
    StorageWorks,    \* sessionStorage can be written
    LeaveMidSubmit,  \* the user may leave the page while a submit is in flight
    SwitchUnacked,   \* the organization may be switched while a submit is not acknowledged
    RefreshMayFail   \* a GET /api/me may fail

ASSUME CreditsAssumption == InitialCredits \in [Orgs -> Nat]
ASSUME NoCallIsNull == Null \notin Calls

VARIABLES
    credits,     \* organizations.credits
    jobs,        \* per call the job row it inserted: [org, key], or Null
    sessionOrg,  \* the organization of the session row
    me,          \* per tab the adopted /api/me: [org, credits]
    stored,      \* per tab and organization the key in sessionStorage
    asked,       \* what each call was sent as: [tab, org, key, round]
    reply,       \* what the server answered each call: [kind, job]
    client,      \* how far the submit handler of each call is
    mounted,     \* calls whose page is still the one on screen
    cards,       \* per tab the job cards on screen
    message,     \* per tab the form's message
    cooldown,    \* tabs that show the rate-limit countdown
    round        \* history: per tab and organization the number of acknowledged searches

server == <<limiter, credits, jobs, sessionOrg, reply>>
page == <<cards, message, cooldown>>
browser == <<me, stored, asked, client, mounted, page, round>>
vars == <<server, browser>>

NotAsked == [tab |-> Null, org |-> Null, key |-> Null, round |-> 0]
NoReply == [kind |-> "none", job |-> Null]

\* Kinds of answers: 200 or 202, 402, 429, and any other failure (400, 401, 500).
ReplyKinds == {"none", "accepted", "insufficient", "limited", "failed"}
ClientSteps == {"idle", "waiting", "refresh", "refresh402", "done", "threw"}
Messages == {"none", "alert", "credits"}

Init ==
    /\ LimiterInit
    /\ credits = InitialCredits
    /\ jobs = [c \in Calls |-> Null]
    /\ sessionOrg \in Orgs
    /\ me = [t \in Tabs |-> [org |-> sessionOrg, credits |-> credits[sessionOrg]]]
    /\ stored = [t \in Tabs |-> [o \in Orgs |-> Null]]
    /\ asked = [c \in Calls |-> NotAsked]
    /\ reply = [c \in Calls |-> NoReply]
    /\ client = [c \in Calls |-> "idle"]
    /\ mounted = {}
    /\ cards = [t \in Tabs |-> {}]
    /\ message = [t \in Tabs |-> "none"]
    /\ cooldown = {}
    /\ round = [t \in Tabs |-> [o \in Orgs |-> 0]]

-----------------------------------------------------------------------------
(* The form and its key.                                                   *)

InFlight == {c \in Calls : client[c] \notin {"idle", "done", "threw"}}

\* The submitting flag of the page on screen, set until the handler's finally.
Submitting(t) == \E c \in InFlight \cap mounted : asked[c].tab = t

SubmitDisabled(t) == Submitting(t) \/ me[t].credits < 1

\* Mutant of GetIdemKey: each submit mints a key.
GetFreshKey(t, o, c) == c

\* The stored key of the organization, or the one call c mints.
GetIdemKey(t, o, c) == IF stored[t][o] # Null THEN stored[t][o] ELSE c

Say(t, text) == message' = [message EXCEPT ![t] = text]

\* submit, with at least one company (else nothing is sent), under the organization this tab shows.
Submit(t, c) ==
    LET o == me[t].org
        k == GetIdemKey(t, o, c)
    IN  /\ client[c] = "idle"
        /\ ~SubmitDisabled(t)
        /\ client' = [client EXCEPT ![c] = "waiting"]
        /\ stored' = IF StorageWorks THEN [stored EXCEPT ![t][o] = k] ELSE stored
        /\ asked' = [asked EXCEPT ![c] = [tab |-> t, org |-> o, key |-> k, round |-> round[t][o]]]
        /\ mounted' = mounted \cup {c}
        /\ Say(t, "none")
        /\ UNCHANGED <<server, me, cards, cooldown, round>>

-----------------------------------------------------------------------------
(* The route: session, limiter, validation, startSearch.                   *)

\* requireContext: the call acts for the organization the session has when it is read.
Context(c) ==
    /\ client[c] # "idle"
    /\ Arrive(c, sessionOrg)
    /\ UNCHANGED <<browser, credits, jobs, sessionOrg, reply>>

Limit ==
    /\ \/ \E c \in Calls : Incr(c) \/ PExpire(c) \/ Die(c)
       \/ \E o \in Orgs : Expire(o)
    /\ UNCHANGED <<browser, credits, jobs, sessionOrg, reply>>

Respond(c, kind, j) ==
    /\ reply[c] = NoReply
    /\ reply' = [reply EXCEPT ![c] = [kind |-> kind, job |-> j]]
    /\ UNCHANGED <<browser, limiter, sessionOrg>>

\* RateLimitError, before anything is charged.
RespondLimited(c) ==
    /\ at[c] = "blocked"
    /\ Respond(c, "limited", Null)
    /\ UNCHANGED <<credits, jobs>>

\* The schema refuses the body, or a statement throws before the commit.
RespondFailed(c) ==
    /\ at[c] = "admitted"
    /\ Respond(c, "failed", Null)
    /\ UNCHANGED <<credits, jobs>>

\* The job an organization has under a key.
JobsUnder(o, k) == {j \in Calls : jobs[j] # Null /\ jobs[j].org = o /\ jobs[j].key = k}

\* startSearch replays the job that the organization has under the key.
Replay(c) ==
    /\ at[c] = "admitted"
    /\ \E j \in JobsUnder(org[c], asked[c].key) : Respond(c, "accepted", j)
    /\ UNCHANGED <<credits, jobs>>

\* Mutant of CanPay: the UPDATE has no condition on the balance.
AlwaysPays(o) == TRUE

\* The UPDATE matches only a balance of at least one credit.
CanPay(o) == credits[o] >= 1

\* startSearch inserts the job and charges a credit, or rolls back.
Charge(c) ==
    LET o == org[c]
        paid == CanPay(o)
    IN  /\ at[c] = "admitted"
        /\ JobsUnder(o, asked[c].key) = {}
        /\ Respond(c, IF paid THEN "accepted" ELSE "insufficient", IF paid THEN c ELSE Null)
        /\ credits' = IF paid THEN [credits EXCEPT ![o] = @ - 1] ELSE credits
        /\ jobs' = IF paid THEN [jobs EXCEPT ![c] = [org |-> o, key |-> asked[c].key]] ELSE jobs

-----------------------------------------------------------------------------
(* The answer in the browser.                                              *)

OnScreen(c) == c \in mounted

Finish(c) == client' = [client EXCEPT ![c] = "done"]

\* Mutant of Rotated: the key outlives the acknowledgement.
NotRotated(t, o) == stored

\* rotateIdemKey: the organization's key is removed.
Rotated(t, o) == [stored EXCEPT ![t][o] = Null]

\* createSearch returned: rotate the key, put the card on the page, then refresh.
Accepted(c) ==
    LET t == asked[c].tab
        o == asked[c].org
    IN  /\ client[c] = "waiting"
        /\ reply[c].kind = "accepted"
        /\ stored' = Rotated(t, o)
        /\ round' = [round EXCEPT ![t][o] = @ + 1]
        /\ cards' = IF OnScreen(c) THEN [cards EXCEPT ![t] = @ \cup {reply[c].job}] ELSE cards
        /\ cooldown' = IF OnScreen(c) THEN cooldown \ {t} ELSE cooldown
        /\ client' = [client EXCEPT ![c] = "refresh"]
        /\ UNCHANGED <<server, me, asked, mounted, message>>

\* 402: the message waits for the refresh.
Insufficient(c) ==
    /\ client[c] = "waiting"
    /\ reply[c].kind = "insufficient"
    /\ client' = [client EXCEPT ![c] = "refresh402"]
    /\ UNCHANGED <<server, me, stored, asked, mounted, page, round>>

\* Mutant of Countdown: a blocked submit ends in silence.
NoCountdown(c) == cooldown

\* The tabs that count down after a 429 of call c.
Countdown(c) == IF OnScreen(c) THEN cooldown \cup {asked[c].tab} ELSE cooldown

\* 429: the countdown starts.
TooMany(c) ==
    /\ client[c] = "waiting"
    /\ reply[c].kind = "limited"
    /\ cooldown' = Countdown(c)
    /\ Finish(c)
    /\ UNCHANGED <<server, me, stored, asked, mounted, cards, message, round>>

\* Any other failure, or no answer that the browser gets: the call itself may go on.
Failed(c) ==
    /\ client[c] = "waiting"
    /\ IF OnScreen(c) THEN Say(asked[c].tab, "alert") ELSE UNCHANGED message
    /\ Finish(c)
    /\ UNCHANGED <<server, me, stored, asked, mounted, cards, cooldown, round>>

\* A tab adopts the session: another organization remounts the page below OrgScope.
Adopt(t) ==
    /\ me' = [me EXCEPT ![t] = [org |-> sessionOrg, credits |-> credits[sessionOrg]]]
    /\ IF me[t].org = sessionOrg
       THEN UNCHANGED <<mounted, cards, cooldown>>
       ELSE /\ mounted' = {c \in mounted : asked[c].tab # t}
            /\ cards' = [cards EXCEPT ![t] = {}]
            /\ cooldown' = cooldown \ {t}

MessageAfterAdopt(t) == IF me[t].org = sessionOrg THEN message[t] ELSE "none"

\* The refresh after an accepted search, whose failure is swallowed.
RefreshAfterAccepted(c) ==
    LET t == asked[c].tab
    IN  /\ client[c] = "refresh"
        /\ \/ Adopt(t) /\ Say(t, MessageAfterAdopt(t))
           \/ RefreshMayFail /\ UNCHANGED <<me, mounted, page>>
        /\ Finish(c)
        /\ UNCHANGED <<server, stored, asked, round>>

\* The refresh after a 402.  When it fails, the handler throws before it says anything.
RefreshAfter402(c) ==
    LET t == asked[c].tab
    IN  /\ client[c] = "refresh402"
        /\ \/ /\ Adopt(t)
              /\ Say(t, IF OnScreen(c) /\ me[t].org = sessionOrg THEN "credits"
                        ELSE MessageAfterAdopt(t))
              /\ Finish(c)
           \/ /\ RefreshMayFail
              /\ client' = [client EXCEPT ![c] = "threw"]
              /\ UNCHANGED <<me, mounted, page>>
        /\ UNCHANGED <<server, stored, asked, round>>

-----------------------------------------------------------------------------
(* The rest of the page and of the browser.                                *)

\* A job settled: its card refreshes the session.
RefreshMe(t) ==
    /\ cards[t] # {}
    /\ Adopt(t)
    /\ Say(t, MessageAfterAdopt(t))
    /\ UNCHANGED <<server, stored, asked, client, round>>

\* "Try again" on a failed job's card.
RemoveJob(t) ==
    /\ \E j \in cards[t] : cards' = [cards EXCEPT ![t] = @ \ {j}]
    /\ Say(t, "none")
    /\ UNCHANGED <<server, me, stored, asked, client, mounted, cooldown, round>>

CooldownOver(t) ==
    /\ t \in cooldown
    /\ cooldown' = cooldown \ {t}
    /\ UNCHANGED <<server, me, stored, asked, client, mounted, cards, message, round>>

\* The user goes to another page and back.
Leave(t) ==
    /\ Submitting(t) => LeaveMidSubmit
    /\ mounted' = {c \in mounted : asked[c].tab # t}
    /\ cards' = [cards EXCEPT ![t] = {}]
    /\ cooldown' = cooldown \ {t}
    /\ Say(t, "none")
    /\ UNCHANGED <<server, me, stored, asked, client, round>>

\* A search without its acknowledgement: a submit in flight, in the browser or on the
\* server, or a key kept for a retry.
Unacked ==
    \/ InFlight # {}
    \/ \E c \in Calls : client[c] # "idle" /\ at[c] \notin {"dead", "endless"} /\ reply[c] = NoReply
    \/ \E t \in Tabs, o \in Orgs : stored[t][o] # Null

\* The user switches the organization in tab t.
SwitchOrg(t, o) ==
    /\ o # me[t].org
    /\ Unacked => SwitchUnacked
    /\ sessionOrg' = o
    /\ me' = [me EXCEPT ![t] = [org |-> o, credits |-> credits[o]]]
    /\ mounted' = {c \in mounted : asked[c].tab # t}
    /\ cards' = [cards EXCEPT ![t] = {}]
    /\ cooldown' = cooldown \ {t}
    /\ Say(t, "none")
    /\ UNCHANGED <<limiter, credits, jobs, reply, stored, asked, client, round>>

Serve(c) == RespondLimited(c) \/ RespondFailed(c) \/ Replay(c) \/ Charge(c)

Receive(c) ==
    \/ Accepted(c) \/ Insufficient(c) \/ TooMany(c) \/ Failed(c)
    \/ RefreshAfterAccepted(c) \/ RefreshAfter402(c)

Next ==
    \/ Limit
    \/ \E c \in Calls : Context(c) \/ Serve(c) \/ Receive(c)
    \/ \E t \in Tabs :
        \/ RefreshMe(t) \/ RemoveJob(t) \/ CooldownOver(t) \/ Leave(t)
        \/ \E c \in Calls : Submit(t, c)
        \/ \E o \in Orgs : SwitchOrg(t, o)

Spec == Init /\ [][Next]_vars

-----------------------------------------------------------------------------

TypeOK ==
    /\ LimiterTypeOK
    /\ credits \in [Orgs -> Nat]
    /\ jobs \in [Calls -> [org : Orgs, key : Calls] \cup {Null}]
    /\ sessionOrg \in Orgs
    /\ me \in [Tabs -> [org : Orgs, credits : Nat]]
    /\ stored \in [Tabs -> [Orgs -> Calls \cup {Null}]]
    /\ asked \in [Calls -> [tab : Tabs, org : Orgs, key : Calls, round : Nat] \cup {NotAsked}]
    /\ reply \in [Calls -> [kind : ReplyKinds, job : Calls \cup {Null}]]
    /\ client \in [Calls -> ClientSteps]
    /\ mounted \subseteq Calls
    /\ cards \in [Tabs -> SUBSET Calls]
    /\ message \in [Tabs -> Messages]
    /\ cooldown \subseteq Tabs
    /\ round \in [Tabs -> [Orgs -> Nat]]

\* Submits of one search: sent by one tab for one organization with no acknowledgement between.
SameSearch(c, d) ==
    /\ asked[c].tab = asked[d].tab
    /\ asked[c].org = asked[d].org
    /\ asked[c].round = asked[d].round

\* "Same key on every retry of one submit so the server charges once": of all the submits
\* of one search, lost answers and retries included, at most one is charged.
ChargedOnce ==
    \A c, d \in Calls : jobs[c] # Null /\ jobs[d] # Null /\ SameSearch(c, d) => c = d

\* The job a submit is answered with is that of the search it belongs to, never that of an
\* earlier search whose key lived on: an acknowledged search is not taken for its successor.
AcceptedJobOfThisSearch ==
    \A c \in Calls : reply[c].kind = "accepted" => SameSearch(c, reply[c].job)

\* A submit that ends on the page it was made from leaves its card, a message or the
\* countdown there.  (It leaves nothing when the refresh after a 402 fails: "threw".)
SubmitsReported ==
    [][\A c \in Calls :
        client[c] \in {"waiting", "refresh402"} /\ client'[c] \in {"refresh", "done"} /\ c \in mounted'
            => LET t == asked[c].tab
               IN  reply[c].job \in cards'[t] \/ message'[t] # "none" \/ t \in cooldown']_vars

=============================================================================
