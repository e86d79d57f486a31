------------------------------- MODULE Inbox -------------------------------
(***************************************************************************)
(* The overview and the inbox of one organization, over leads that the     *)
(* providers find and settle while the pages are open.                     *)
(*                                                                         *)
(* A page reads the jobs and the leads once, by two requests that the      *)
(* server answers at different moments; from then on it filters, sorts and *)
(* pages its own copy.                                                     *)
(***************************************************************************)
EXTENDS Providers, FiniteSets, TLC

CONSTANTS
    Jobs,       \* searches the organization can make
    Foreign,    \* a job of another organization, left in the URL by a switch
    Requests,   \* the requests tried for each job: companies and roles
    PageSize,   \* PAGE_SIZE
    Null        \* an absent value

ASSUME PageSizeAssumption == PageSize \in Nat \ {0}
ASSUME ForeignAssumption == Foreign \notin Jobs
ASSUME NullAssumption == Null \notin Nat
ASSUME RequestAssumption ==
    \A j \in Jobs : \A r \in Requests[j] :
        r.companies \in Seq(Companies) /\ r.roles \in Seq(Titles)

VARIABLES
    request,    \* the request of each job, Null before it is made
    found,      \* the jobs whose candidates are inserted, newest first
    leads,      \* the leads of the organization
    screen,     \* the page, and what it has read
    view        \* the controls of the inbox

vars == <<request, found, leads, screen, view>>
server == <<request, found, leads>>

LeadStates == {"unverified_raw", "verified", "rejected"}
StateFilters == LeadStates \cup {"all"}
JobFilters == Jobs \cup {Foreign, "all"}
Made == {j \in Jobs : request[j] # Null}

-----------------------------------------------------------------------------
(* The server: a row is written by insertCandidates and settled once.      *)

NewLead(j, c) ==
    [job |-> j, candidate |-> c, state |-> "unverified_raw",
     score |-> Null, factors |-> Null, reason |-> Null]

Search(j) ==
    /\ request[j] = Null
    /\ \E r \in Requests[j] : request' = [request EXCEPT ![j] = r]
    /\ UNCHANGED <<found, leads, screen, view>>

\* discover and insertCandidates, in the order the seeds give.
Find(j) ==
    /\ j \in Made \ ToSet(found)
    /\ ~Fails(request[j].companies)
    /\ found' = <<j>> \o found
    /\ \E dice \in DiceOf(request[j].companies) :
        leads' = leads \cup {NewLead(j, c) : c \in ToSet(Discover(request[j], dice))}
    /\ UNCHANGED <<request, screen, view>>

\* setLeadVerified and setLeadRejected.
Settled(l, v) ==
    IF v.ok
    THEN [l EXCEPT !.state = "verified", !.score = v.score, !.factors = v.factors]
    ELSE [l EXCEPT !.state = "rejected", !.reason = "undeliverable"]

Settle(l) ==
    /\ l \in leads
    /\ l.state = "unverified_raw"
    /\ leads' = (leads \ {l}) \cup {Settled(l, Verify(l.candidate))}
    /\ UNCHANGED <<request, found, screen, view>>

\* The leads in the order of listLeadsByOrg: newest insert first, rows of one insert in
\* any order.
Listings ==
    LET place(l) == CHOOSE n \in DOMAIN found : found[n] = l.job
    IN  {rows \in SetToSeqs(leads) :
            \A m, n \in DOMAIN rows : m < n => place(rows[m]) <= place(rows[n])}

\* Mutant of ListedJobs: only the newest job is listed.
ListedNewest == IF found = <<>> THEN Made ELSE {Head(found)}

\* listJobsByOrg.
ListedJobs == Made

-----------------------------------------------------------------------------
(* What the inbox derives from its copy under the controls v.              *)

Filtered(v) ==
    Picked(screen.leads, {n \in DOMAIN screen.leads :
        /\ v.status = "all" \/ screen.leads[n].state = v.status
        /\ v.job = "all" \/ screen.leads[n].job = v.job})

\* The stable sort by rank.
Ranked(s) ==
    LET of(st) == Picked(s, {n \in DOMAIN s : s[n].state = st})
    IN  of("verified") \o of("unverified_raw") \o of("rejected")

Sorted(v) ==
    CASE v.sort = "off"  -> Filtered(v)
      [] v.sort = "asc"  -> Ranked(Filtered(v))
      [] v.sort = "desc" -> Reverse(Ranked(Filtered(v)))

AtMost(n, top) == IF n < top THEN n ELSE top
AtLeast(n, low) == IF n > low THEN n ELSE low

PageCount(v) == AtLeast((Len(Sorted(v)) + PageSize - 1) \div PageSize, 1)
Current(v) == AtMost(v.page, PageCount(v))

\* The leads of page p.
PageLeads(v, p) ==
    SubSeq(Sorted(v), (p - 1) * PageSize + 1, AtMost(p * PageSize, Len(Sorted(v))))

\* "showing start-end of n".
RangeStart(v) == IF Filtered(v) = <<>> THEN 0 ELSE (Current(v) - 1) * PageSize + 1
RangeEnd(v) == AtMost(Current(v) * PageSize, Len(Filtered(v)))

Rows(v) == IF screen.phase = "ready" THEN ToSet(PageLeads(v, Current(v))) ELSE {}

HasEvidence(l) == l.state = "verified" /\ l.score # Null /\ l.factors # Null
IsRejected(l) == l.state = "rejected" /\ l.reason # Null

\* The rows whose details are shown.
Details(v) == {l \in v.open : HasEvidence(l) \/ IsRejected(l)}

\* The job the select shows: a value that has no option shows as the first one.
Selected(v) == IF v.job \in screen.jobs THEN v.job ELSE "all"

\* The figures of the overview.
Having(st) == {l \in ToSet(screen.leads) : l.state = st}

Percent(n, d) == IF d <= 0 THEN Null ELSE (200 * n + d) \div (2 * d)

VerifiedRate ==
    LET verified == Cardinality(Having("verified"))
    IN  Percent(verified, verified + Cardinality(Having("rejected")))

-----------------------------------------------------------------------------
(* Loading.                                                                *)

Loading(page) ==
    [page |-> page, phase |-> "loading", jobs |-> {}, leads |-> <<>>,
     gotJobs |-> Null, gotLeads |-> Null]

Fresh(job) == [status |-> "all", job |-> job, sort |-> "off", page |-> 1, open |-> {}]

Init ==
    /\ request = [j \in Jobs |-> Null]
    /\ found = <<>>
    /\ leads = {}
    /\ screen = Loading("overview")
    /\ view = Fresh("all")

ReadJobs ==
    /\ screen.phase = "loading" /\ screen.gotJobs = Null
    /\ screen' = [screen EXCEPT !.gotJobs = ListedJobs]
    /\ UNCHANGED <<server, view>>

ReadLeads ==
    /\ screen.phase = "loading" /\ screen.gotLeads = Null
    /\ \E rows \in Listings : screen' = [screen EXCEPT !.gotLeads = rows]
    /\ UNCHANGED <<server, view>>

LoadDone ==
    /\ screen.gotJobs # Null /\ screen.gotLeads # Null
    /\ screen' = [screen EXCEPT !.phase = "ready", !.jobs = screen.gotJobs,
                                !.leads = screen.gotLeads, !.gotJobs = Null, !.gotLeads = Null]
    /\ UNCHANGED <<server, view>>

LoadFailed ==
    /\ screen.phase = "loading"
    /\ screen' = [screen EXCEPT !.phase = "error", !.gotJobs = Null, !.gotLeads = Null]
    /\ UNCHANGED <<server, view>>

Retry ==
    /\ screen.phase = "error"
    /\ screen' = [screen EXCEPT !.phase = "loading"]
    /\ UNCHANGED <<server, view>>

-----------------------------------------------------------------------------
(* Moving between the pages.                                               *)

OpenInbox(job) ==
    /\ screen' = Loading("inbox")
    /\ view' = Fresh(job)
    /\ UNCHANGED server

\* A row, or "View all", of the overview.
ViewFromOverview ==
    /\ screen.page = "overview" /\ screen.phase = "ready"
    /\ \E job \in screen.jobs \cup {"all"} : OpenInbox(job)

\* The link of a finished search, or an inbox remounted by a switch of organization.
ViewByLink == \E job \in Made \cup {Foreign} : OpenInbox(job)

\* The sidebar: on the inbox itself it only drops ?job= from the URL.
ToOverview ==
    /\ screen.page = "inbox"
    /\ screen' = Loading("overview")
    /\ view' = Fresh("all")
    /\ UNCHANGED server

-----------------------------------------------------------------------------
(* The controls of the inbox.                                              *)

Control == screen.page = "inbox" /\ UNCHANGED <<server, screen>>

\* Mutant of PageAfterFilter: the page survives a filter.
PageKept(v) == v.page

\* The effect on the filters and the sort.
PageAfterFilter(v) == 1

\* Mutant of StillMounted: what is open outlives its row.
StillOpen(v, w) == view.open

\* A row that leaves the page forgets that it was open; a filter shows its first rows
\* on the old page (v), before the effect (w).
StillMounted(v, w) == Rows(v) \cap Rows(w)

Show(v, effect) ==
    LET w == IF effect THEN [v EXCEPT !.page = PageAfterFilter(v)] ELSE v
    IN  /\ Control
        /\ view' = [w EXCEPT !.open = @ \cap StillMounted(v, w)]

FilterStatus ==
    \E st \in StateFilters \ {view.status} : Show([view EXCEPT !.status = st], TRUE)

\* Choosing the option that is shown changes nothing.
FilterJob ==
    \E j \in (screen.jobs \cup {"all"}) \ {Selected(view)} : Show([view EXCEPT !.job = j], TRUE)

NextSort == [off |-> "asc", asc |-> "desc", desc |-> "off"]

SortByState ==
    /\ Rows(view) # {}
    /\ Show([view EXCEPT !.sort = NextSort[@]], TRUE)

Prev ==
    /\ screen.phase = "ready" /\ Current(view) > 1
    /\ Show([view EXCEPT !.page = AtLeast(@ - 1, 1)], FALSE)

Forward ==
    /\ screen.phase = "ready" /\ Current(view) < PageCount(view)
    /\ Show([view EXCEPT !.page = AtMost(@ + 1, PageCount(view))], FALSE)

Toggle(l) ==
    /\ l \in Rows(view)
    /\ HasEvidence(l) \/ IsRejected(l)
    /\ Control
    /\ view' = [view EXCEPT !.open = IF l \in @ THEN @ \ {l} ELSE @ \cup {l}]

-----------------------------------------------------------------------------

Server == (\E j \in Jobs : Search(j) \/ Find(j)) \/ (\E l \in leads : Settle(l))
Load == ReadJobs \/ ReadLeads \/ LoadDone \/ LoadFailed \/ Retry
Navigate == ViewFromOverview \/ ViewByLink \/ ToOverview
Click ==
    \/ FilterStatus \/ FilterJob \/ SortByState \/ Prev \/ Forward
    \/ \E l \in Rows(view) : Toggle(l)

Next == Server \/ Load \/ Navigate \/ Click

Spec == Init /\ [][Next]_vars

-----------------------------------------------------------------------------

LeadRows ==
    [job : Jobs, candidate : CandidateLeads, state : LeadStates,
     score : 0..100 \cup {Null}, factors : {Factors(l.candidate) : l \in leads} \cup {Null},
     reason : {"undeliverable", Null}]

\* The variables have their types, and the rows of a page are ones the server had.
TypeOK ==
    /\ \A j \in Jobs : request[j] \in Requests[j] \cup {Null}
    /\ ToSet(found) \subseteq Made
    /\ leads \subseteq LeadRows
    /\ screen.phase \in {"loading", "ready", "error"}
    /\ screen.page \in {"overview", "inbox"}
    /\ ToSet(screen.leads) \subseteq LeadRows
    /\ view.status \in StateFilters /\ view.job \in JobFilters
    /\ view.sort \in DOMAIN NextSort /\ view.page \in Nat \ {0}
    /\ view.open \subseteq Rows(view)

\* Leafing through the pages shows every lead of the filters once, "showing a-b of n" says
\* which of them are on the screen, and the page counter is the page that is shown, so
\* that Prev and Next move by one page (inbox/page.tsx:84-97, 255, 263).  The overview
\* counts every lead once, and has a rate once a lead is settled (page.tsx:42-46).
PagesAddUp ==
    LET pages == [p \in 1..PageCount(view) |-> PageLeads(view, p)]
        shown == PageLeads(view, Current(view))
    IN  /\ FlattenSeq(pages) = Sorted(view)
        /\ ToSet(Sorted(view)) = ToSet(Filtered(view))
        /\ Len(Sorted(view)) = Len(Filtered(view))
        /\ view.page = Current(view)
        /\ Len(shown) = IF shown = <<>> THEN RangeEnd(view) ELSE RangeEnd(view) - RangeStart(view) + 1
        /\ shown = <<>> => Filtered(view) = <<>>
        /\ Len(screen.leads) = Cardinality(UNION {Having(st) : st \in LeadStates})
        /\ VerifiedRate = Null <=> Having("verified") \cup Having("rejected") = {}

\* A rejected row that is open names its reason, and a verified one the factors that add
\* up to its score: the clamp of the scorer never hides points (mock-verify.ts:31-32, 69,
\* inbox/page.tsx:356-384).
ScoreExplained ==
    /\ \A l \in Details(view) : l.state = "verified" => Points(l.factors) = l.score
    /\ \A l \in view.open : l \in Details(view)

\* Every company keeps a junk contact, unless the cap may have cut it off: it is the last
\* company the cap left, or one behind it (mock-discover.ts:64-65, 86; README.md:158-160).
\* Junk is never verified.
JunkUnlessCut ==
    /\ \A j \in ToSet(found) :
        LET of == {l.candidate : l \in {k \in leads : k.job = j}}
            named == Named(request[j].companies)
        IN  "empty" \in ToSet(named) \/
            \A ci \in 1..Len(named) :
                Cardinality(of) < MaxCandidates \/ (\E c \in of : c.ci > ci) =>
                    \E c \in of : c.ci = ci /\ c.mailbox = "junk"
    /\ \A j \in Jobs : Cardinality({l \in leads : l.job = j}) <= MaxCandidates
    /\ \A l \in leads : l.candidate.mailbox = "junk" => l.state # "verified"

\* A job filter that the select cannot show, because the jobs that were read do not have
\* it, leaves no row: the leads of a listed filter are never hidden behind "All jobs"
\* (inbox/page.tsx:35, 61, 133-141).
HiddenFilterIsEmpty ==
    screen.phase = "ready" /\ view.job # Selected(view) => Filtered(view) = <<>>

=============================================================================
