----------------------------- MODULE Providers -----------------------------
(***************************************************************************)
(* The discovery and verification providers, as pure operators.            *)
(*                                                                         *)
(* A company is what its name makes of it: "blank", one of the sentinels   *)
(* "fail" and "empty", or the kind of domain its slug gives, "corporate",  *)
(* "public" (gmail.com) or "noreply" (a slug with noreply in it).  A title *)
(* is the set of seniority tiers whose pattern it matches.  The dice of    *)
(* the seeded generator are an argument: the same job rolls the same ones. *)
(***************************************************************************)
EXTENDS Integers, Sequences, FiniteSets, SequencesExt

CONSTANTS
    MaxCandidates,   \* the cap of a job; 50 in the code
    Fanout           \* the numbers of contacts of a company; 3..5 in the code

ASSUME CapAssumption == MaxCandidates \in Nat
ASSUME FanoutAssumption == Fanout \subseteq Nat \ {0}

Tiers == 1..4
Titles == SUBSET Tiers
Domains == {"corporate", "public", "noreply"}
Companies == Domains \cup {"blank", "fail", "empty"}

\* A junk mailbox is info@ or noreply@.  A "shared" one (sales@) or another comes from no
\* stub, but the scorer knows them.
Mailboxes == {"junk", "named", "shared", "other"}

CandidateLeads ==
    [ci : Nat, i : Nat, title : Titles, mailbox : Mailboxes, domain : Domains,
     fullName : BOOLEAN, sourceUrl : BOOLEAN]

\* The elements of s at the indices I, in their order.
Picked(s, I) ==
    [n \in 1..Cardinality(I) |->
        s[CHOOSE i \in I : Cardinality({k \in I : k < i}) = n - 1]]

-----------------------------------------------------------------------------
(* mock-discover.ts                                                        *)

\* Mutant of Rolls: the last contact is as random as the others.
RollsUnforced(count) == [1..count -> {"junk", "named"}]

\* The mailboxes of the contacts of one company: the last one is junk, the others may be.
Rolls(count) == {roll \in [1..count -> {"junk", "named"}] : roll[count] = "junk"}

\* The companies that are left once the blank ones are gone.
Named(companies) == Picked(companies, {n \in DOMAIN companies : companies[n] # "blank"})

Fails(companies) == "fail" \in ToSet(companies)

\* What the dice can give for each company.
DiceOf(companies) ==
    [1..Len(Named(companies)) -> UNION {Rolls(count) : count \in Fanout}]

Contact(company, ci, i, mailbox, roles) ==
    [ci |-> ci, i |-> i, mailbox |-> mailbox, domain |-> company,
     title |-> IF roles = <<>> THEN {4} ELSE roles[((i - 1) % Len(roles)) + 1],
     fullName |-> TRUE, sourceUrl |-> TRUE]

ContactsOf(company, ci, roll, roles) ==
    [i \in 1..Len(roll) |-> Contact(company, ci, i, roll[i], roles)]

\* The cap falls after the guarantee: it takes the junk of the last companies with it.
Cut(out) == SubSeq(out, 1, IF Len(out) < MaxCandidates THEN Len(out) ELSE MaxCandidates)

\* discover, of a request that does not fail: a key (ci, i) names one contact.
Discover(request, dice) ==
    LET named == Named(request.companies)
    IN  IF "empty" \in ToSet(named)
        THEN <<>>
        ELSE Cut(FlattenSeq([ci \in 1..Len(named) |->
                     ContactsOf(named[ci], ci, dice[ci], request.roles)]))

-----------------------------------------------------------------------------
(* mock-verify.ts                                                          *)

Seniority == <<35, 28, 22, 12>>

\* Only the most senior tier counts.
TitlePoints(title) ==
    IF title = {} THEN 4 ELSE Seniority[CHOOSE t \in title : \A u \in title : t <= u]

\* Mutant of BasePoints: a base that the clamp then hides.
BasePointsHigh == 60

BasePoints == 40

DomainPoints(domain) == IF domain = "public" THEN -25 ELSE 8

MailboxPoints(mailbox) ==
    CASE mailbox = "shared" -> -15
      [] mailbox = "named"  -> 10
      [] OTHER              -> 0

\* The points of each factor; a factor that does not apply gives 0.
Factors(c) ==
    [base |-> BasePoints,
     title |-> TitlePoints(c.title),
     domain |-> DomainPoints(c.domain),
     mailbox |-> MailboxPoints(c.mailbox),
     name |-> IF c.fullName THEN 4 ELSE 0,
     source |-> IF c.sourceUrl THEN 3 ELSE 0]

Points(f) == f.base + f.title + f.domain + f.mailbox + f.name + f.source

Clamped(n) == IF n < 0 THEN 0 ELSE IF n > 100 THEN 100 ELSE n

\* noreply anywhere in the address, or an info@ mailbox.
Undeliverable(c) == c.mailbox = "junk" \/ c.domain = "noreply"

Verify(c) ==
    IF Undeliverable(c)
    THEN [ok |-> FALSE]
    ELSE [ok |-> TRUE, score |-> Clamped(Points(Factors(c))), factors |-> Factors(c)]

=============================================================================
