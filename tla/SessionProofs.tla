--------------------------- MODULE SessionProofs ---------------------------
(***************************************************************************)
(* Sessions, their organization and the tab, for any organizations, any    *)
(* number of sessions and any number of calls in flight at once.           *)
(*                                                                         *)
(* Shape says which steps a call of a kind passes through, and that the    *)
(* page of the app is mounted for the organization on show.  What the tab  *)
(* shows agrees with what its session row says as long as the calls that   *)
(* change the session come one at a time and are answered (Apart): Agrees  *)
(* says so of the row, of the answers on their way and of the page, but    *)
(* for the time in which a switch has written the row and the tab has not  *)
(* heard of it yet.                                                        *)
(***************************************************************************)
EXTENDS Session, FiniteSetTheorems, TLAPS

AllCalls == Lanes \cup Tenant

Kinds == Reading \cup Changing \cup Tenant \cup {"none"}

CallSet ==
    [kind : Kinds, at : Steps, token : Sids \cup {Null}, org : Answers, orgs : SUBSET Orgs,
     heard : BOOLEAN, excused : BOOLEAN]

\* The steps of a call of each kind.
Fits(kind, at) ==
    \/ kind = "none" /\ at = "idle"
    \/ kind \in Reading /\ at \in {"resolve", "list", "ok", "denied"}
    \/ kind = "login" /\ at \in {"login", "insert", "list", "ok", "denied"}
    \/ kind = "switch" /\ at \in {"resolve", "member", "update", "list", "ok", "denied"}
    \/ kind = "logout" /\ at \in {"delete", "ok"}
    \/ kind \in Tenant /\ at \in {"resolve", "member", "query", "ok", "denied"}

\* The types of what is not a call.
Scalars ==
    /\ members \subseteq Orgs
    /\ rows \in [Sids -> [live : BOOLEAN, org : Answers]]
    /\ cookie \in Sids \cup {Null}
    /\ status \in {"loading", "authed", "anon"}
    /\ me \in [org : Answers, orgs : SUBSET Orgs]
    /\ status # "authed" => me = NoMe
    /\ route \in {"app", "login"}
    /\ form \in {Null, "error"} \cup Lanes
    /\ view \in [org : Answers, phase : {"none", "loading", "ready", "error"},
                 jobs : Answers, leads : Answers]
    /\ crossed \in BOOLEAN

\* Types, and the kinds of calls in their places.
Shape ==
    /\ Scalars
    /\ calls \in [AllCalls -> CallSet]
    /\ \A c \in AllCalls : Fits(calls[c].kind, calls[c].at)
    /\ \A c \in Lanes : calls[c].kind \notin Tenant
    /\ \A c \in Tenant : calls[c].kind \in {"none", c}

\* A tenant call that has passed its check acts for an organization of the user, unless a
\* membership was revoked after it began.
Checked ==
    \A c \in Tenant :
        calls[c].at \in {"query", "ok"} => calls[c].org \in members \/ calls[c].excused

\* The page is mounted for the scope, and there is none, with no load, where there is no scope.
Mounted ==
    /\ view.org = Scope(status, me, route)
    /\ view.org = Null => view = NoView /\ \A c \in Tenant : calls[c].at = "idle"

RowIn(rs, s) == IF s = Null THEN NoRow ELSE rs[s]

\* A call that changes the session is alone, and the tab waits for its answer.
Apart ==
    \A c, d \in Lanes :
        calls[c].kind \in Changing => calls[c].heard /\ (c # d => ~Busy(d))

\* A switch has written the row, and the tab has not adopted it.
Switching == \E c \in Lanes : calls[c].kind = "switch" /\ calls[c].at \in {"list", "ok"}

\* Calls carry the cookie; a sign-in starts from nobody signed in, and a switch is to another
\* organization than the one on show.
Sensible ==
    /\ \A c \in Lanes : calls[c].kind \notin {"none", "login"} => calls[c].token = cookie
    /\ \A c \in Tenant : Busy(c) => calls[c].token = cookie
    /\ \A c \in Lanes : calls[c].kind = "login" => status = "anon"
    /\ \A c \in Lanes :
        calls[c].kind = "switch" => calls[c].org = Null \/ calls[c].org # me.org

\* An answer on its way carries the organization of its session's row, if any.
AnswersAgree ==
    \A c \in Lanes :
        calls[c].kind # "logout" /\ calls[c].at \in {"list", "ok"} /\ RowIn(rows, calls[c].token).live
            => calls[c].org \in {RowIn(rows, calls[c].token).org, Null}

\* The session on show is the one of the cookie's row.
RowAgrees ==
    status = "authed" /\ me.org # Null /\ RowIn(rows, cookie).live => RowIn(rows, cookie).org = me.org

\* What was found for the page, or is on it, is of its organization.
PageAgrees ==
    /\ \A c \in Tenant : calls[c].at \in {"member", "query", "ok"} => calls[c].org = view.org
    /\ view.phase = "ready" => view.jobs = view.org /\ view.leads = view.org

Agrees ==
    ~crossed => /\ Apart /\ Sensible /\ AnswersAgree
                /\ ~Switching => RowAgrees /\ PageAgrees

Inv == Shape /\ Checked /\ Mounted /\ Agrees

-----------------------------------------------------------------------------

LEMMA Places ==
    /\ \A c \in Tenant : c \notin Lanes
    /\ \A k \in Tenant : k \notin Reading /\ k \notin Changing /\ k # "none"
BY LanesAssumption DEF Tenant, Reading, Changing

LEMMA IdleTyped ==
    /\ Idle \in CallSet /\ Fits(Idle.kind, Idle.at)
    /\ Idle.kind = "none" /\ Idle.at = "idle" /\ Idle.org = Null
BY DEF Idle, CallSet, Kinds, Steps, Answers, Fits

LEMMA CallTyped ==
    ASSUME NEW k \in Reading \cup Changing \cup Tenant, NEW t \in Sids \cup {Null}, NEW o \in Answers
    PROVE  LET r == Call(k, t, o)
           IN  /\ r \in CallSet /\ Fits(k, r.at)
               /\ r.kind = k /\ r.token = t /\ r.org = o /\ r.orgs = {} /\ r.heard /\ ~r.excused
               /\ r.at = (IF k = "login" THEN "login" ELSE IF k = "logout" THEN "delete" ELSE "resolve")
<1> DEFINE a == CASE k = "login" -> "login" [] k = "logout" -> "delete" [] OTHER -> "resolve"
           r == [Idle EXCEPT !.kind = k, !.token = t, !.org = o, !.heard = TRUE, !.at = a]
<1>1. a = (IF k = "login" THEN "login" ELSE IF k = "logout" THEN "delete" ELSE "resolve")
  OBVIOUS
<1>2. Call(k, t, o) = r
  BY DEF Call
<1>3. a \in Steps /\ Fits(k, a)
  BY <1>1 DEF Steps, Fits, Reading, Changing, Tenant
<1> HIDE DEF a
<1>4. /\ r \in CallSet /\ r.kind = k /\ r.token = t /\ r.org = o /\ r.orgs = {} /\ r.heard
      /\ ~r.excused /\ r.at = a
  BY <1>3 DEF CallSet, Idle, Kinds
<1> QED
  BY <1>1, <1>2, <1>3, <1>4

\* A step of the route replaces the record of its own call, and maybe one row.
Served(c, r) ==
    LET call == calls[c]
        s == call.token
        kept == r.token = s /\ r.org = call.org
    IN  /\ calls' = [calls EXCEPT ![c] = r]
        /\ r \in CallSet /\ Fits(call.kind, r.at)
        /\ r.kind = call.kind /\ r.heard = call.heard /\ r.excused = call.excused
        /\ call.at # "idle" /\ r.at # "idle"
        /\ UNCHANGED <<members, browser>>
        /\ \/ call.at = "resolve" /\ UNCHANGED rows /\ r.token = s /\ r.at = "denied" /\ r.org = Null
           \/ /\ call.at = "resolve" /\ UNCHANGED rows /\ r.token = s
              /\ RowIn(rows, s).live
              /\ r.at = (IF call.kind \in Reading THEN "list" ELSE "member")
              /\ r.org = (IF call.kind = "switch" THEN call.org ELSE RowIn(rows, s).org)
           \/ call.at = "member" /\ UNCHANGED rows /\ kept /\ r.at = "denied"
           \/ /\ call.at = "member" /\ UNCHANGED rows /\ kept /\ call.org \in members
              /\ r.at = (IF c \in Tenant THEN "query" ELSE "update")
           \/ call.at = "query" /\ UNCHANGED rows /\ kept /\ r.at = "ok"
           \/ /\ call.at = "update" /\ kept /\ r.at = "list"
              /\ rows' = [rows EXCEPT ![s] = WithOrg(s, call.org)]
           \/ /\ call.at = "list" /\ UNCHANGED rows /\ r.token = s
              /\ r.at = "ok" /\ r.org \in {call.org, Null}
           \/ call.at = "login" /\ UNCHANGED rows /\ r.token = s /\ r.at \in {"denied", "insert"}
           \/ /\ call.at = "insert" /\ r.org = call.org /\ r.at = "list"
              /\ r.token \in Sids /\ Unused(r.token)
              /\ rows' = [rows EXCEPT ![r.token] = [live |-> TRUE, org |-> call.org]]
           \/ /\ call.at = "delete" /\ kept /\ r.at = "ok"
              /\ rows' = IF s = Null THEN rows ELSE [rows EXCEPT ![s] = NoRow]

LEMMA ServeDoes ==
    ASSUME Shape, NEW c \in AllCalls, Serve(c)
    PROVE  \E r : Served(c, r)
<1> DEFINE call == calls[c]
           s == call.token
<1>1. /\ call \in CallSet /\ Fits(call.kind, call.at)
      /\ members \subseteq Orgs /\ rows \in [Sids -> [live : BOOLEAN, org : Answers]]
  BY DEF Shape, Scalars
<1>2. /\ call.kind \in Kinds /\ call.at \in Steps /\ s \in Sids \cup {Null} /\ call.org \in Answers
      /\ call.orgs \subseteq Orgs
  BY <1>1 DEF CallSet
<1>3. c \in Tenant => call.kind \in {"none", c}
  BY DEF Shape
<1>4. c \in Lanes => call.kind \notin Tenant
  BY DEF Shape
<1>5. CASE ResolveSession(c)
  <2> DEFINE row == IF s = Null THEN NoRow ELSE rows[s]
             o == IF call.kind = "switch" THEN call.org ELSE row.org
             found == row.live /\ (c \in Tenant => o # Null)
             a == IF ~found THEN "denied" ELSE IF call.kind \in Reading THEN "list" ELSE "member"
             p == IF found THEN o ELSE Null
             r == [call EXCEPT !.at = a, !.org = p]
  <2>1. call.at = "resolve" /\ UNCHANGED <<members, rows, browser>>
    BY <1>5 DEF ResolveSession
  <2>2. calls' = [calls EXCEPT ![c].at = a, ![c].org = p]
    BY <1>5 DEF ResolveSession
  <2>3. calls' = [calls EXCEPT ![c] = r]
    BY <1>1, <2>2 DEF Shape
  <2>4. row = RowIn(rows, s) /\ row.org \in Answers
    BY <1>1, <1>2 DEF RowIn, NoRow, Answers
  <2>5. o \in Answers /\ p \in Answers
    BY <1>2, <2>4 DEF Answers
  <2>6. a \in Steps /\ Fits(call.kind, a)
    BY <1>1, <2>1 DEF Steps, Fits, Reading, Tenant
  <2>7. ~found => a = "denied" /\ p = Null
    OBVIOUS
  <2>8. found => row.live /\ p = o /\ a = (IF call.kind \in Reading THEN "list" ELSE "member")
    OBVIOUS
  <2> HIDE DEF row, found, a, p
  <2>9. r \in CallSet /\ r.at = a /\ r.org = p /\ r.kind = call.kind /\ r.token = s
        /\ r.heard = call.heard /\ r.excused = call.excused
    BY <1>1, <2>5, <2>6 DEF CallSet
  <2>10. a # "idle"
    BY <2>6, <2>1 DEF a
  <2> HIDE DEF r
  <2> QED
    BY <2>1, <2>3, <2>4, <2>6, <2>7, <2>8, <2>9, <2>10 DEF Served
<1>6. CASE IsMember(c)
  <2> DEFINE a == IF ~MemberCheck(c) THEN "denied" ELSE IF c \in Tenant THEN "query" ELSE "update"
             r == [call EXCEPT !.at = a]
  <2>1. call.at = "member" /\ UNCHANGED <<members, rows, browser>> /\ calls' = [calls EXCEPT ![c].at = a]
    BY <1>6 DEF IsMember, Goto
  <2>2. calls' = [calls EXCEPT ![c] = r]
    BY <1>1, <2>1 DEF Shape
  <2>3. a \in Steps /\ a # "idle" /\ Fits(call.kind, a)
    BY <1>1, <1>3, <1>4, <2>1, Places DEF Steps, Fits, Reading, Tenant, AllCalls
  <2>4. a = "denied" \/ (call.org \in members /\ a = (IF c \in Tenant THEN "query" ELSE "update"))
    BY DEF MemberCheck
  <2> HIDE DEF a
  <2>5. r \in CallSet /\ r.at = a /\ r.org = call.org /\ r.kind = call.kind /\ r.token = s
        /\ r.heard = call.heard /\ r.excused = call.excused
    BY <1>1, <2>3 DEF CallSet
  <2> HIDE DEF r
  <2> QED
    BY <2>1, <2>2, <2>3, <2>4, <2>5 DEF Served
<1>7. CASE Query(c)
  <2> DEFINE r == [call EXCEPT !.at = "ok"]
  <2>1. call.at = "query" /\ UNCHANGED <<members, rows, browser>> /\ calls' = [calls EXCEPT ![c] = r]
    BY <1>1, <1>7 DEF Query, Goto, Shape
  <2>2. Fits(call.kind, "ok")
    BY <1>1, <2>1 DEF Fits, Reading, Tenant
  <2>3. r \in CallSet /\ r.at = "ok" /\ r.org = call.org /\ r.kind = call.kind /\ r.token = s
        /\ r.heard = call.heard /\ r.excused = call.excused
    BY <1>1 DEF CallSet, Steps
  <2> HIDE DEF r
  <2> QED
    BY <2>1, <2>2, <2>3 DEF Served
<1>8. CASE SetSessionActiveOrg(c)
  <2> DEFINE r == [call EXCEPT !.at = "list"]
  <2>1. /\ call.at = "update" /\ UNCHANGED <<members, browser>> /\ calls' = [calls EXCEPT ![c] = r]
        /\ rows' = [rows EXCEPT ![s] = WithOrg(s, call.org)]
    BY <1>1, <1>8 DEF SetSessionActiveOrg, Goto, Shape
  <2>2. Fits(call.kind, "list")
    BY <1>1, <2>1 DEF Fits, Reading, Tenant
  <2>3. r \in CallSet /\ r.at = "list" /\ r.org = call.org /\ r.kind = call.kind /\ r.token = s
        /\ r.heard = call.heard /\ r.excused = call.excused
    BY <1>1 DEF CallSet, Steps
  <2> HIDE DEF r
  <2> QED
    BY <2>1, <2>2, <2>3 DEF Served
<1>9. CASE BuildMe(c)
  <2> DEFINE p == EffectiveActiveOrgId(call.org)
             r == [call EXCEPT !.at = "ok", !.orgs = members, !.org = p]
  <2>1. call.at = "list" /\ UNCHANGED <<members, rows, browser>>
    BY <1>9 DEF BuildMe
  <2>2. calls' = [calls EXCEPT ![c] = r]
    BY <1>1, <1>9 DEF BuildMe, Shape
  <2>3. Fits(call.kind, "ok")
    BY <1>1, <2>1 DEF Fits, Reading, Tenant
  <2>4. p \in {call.org, Null} /\ p \in Answers
    BY <1>2 DEF EffectiveActiveOrgId, Answers
  <2> HIDE DEF p
  <2>5. r \in CallSet /\ r.at = "ok" /\ r.org = p /\ r.kind = call.kind /\ r.token = s
        /\ r.heard = call.heard /\ r.excused = call.excused
    BY <1>1, <2>4 DEF CallSet, Steps
  <2> HIDE DEF r
  <2> QED
    BY <2>1, <2>2, <2>3, <2>4, <2>5 DEF Served
<1>10. CASE LoginUser(c)
  <2>1. call.at = "login" /\ UNCHANGED <<members, rows, browser>>
    BY <1>10 DEF LoginUser
  <2>2. Fits(call.kind, "denied") /\ Fits(call.kind, "insert")
    BY <1>1, <2>1 DEF Fits, Reading, Tenant
  <2> DEFINE p == IF Cardinality(members) = 1 THEN CHOOSE o \in members : TRUE ELSE Null
             r == [call EXCEPT !.at = "denied"]
             q == [call EXCEPT !.at = "insert", !.org = p]
  <2>3. calls' = [calls EXCEPT ![c] = r] \/ calls' = [calls EXCEPT ![c] = q]
    BY <1>1, <1>10 DEF LoginUser, Goto, Shape
  <2>4. p \in Answers
    <3>1. Cardinality(members) = 1 => members # {}
      BY FS_EmptySet
    <3> QED
      BY <1>1, <3>1 DEF Answers
  <2> HIDE DEF p
  <2>5. r \in CallSet /\ r.at = "denied" /\ r.kind = call.kind /\ r.token = s
        /\ r.heard = call.heard /\ r.excused = call.excused
    BY <1>1 DEF CallSet, Steps
  <2>6. q \in CallSet /\ q.at = "insert" /\ q.kind = call.kind /\ q.token = s
        /\ q.heard = call.heard /\ q.excused = call.excused
    BY <1>1, <2>4 DEF CallSet, Steps
  <2> HIDE DEF r, q
  <2> QED
    BY <2>1, <2>2, <2>3, <2>5, <2>6 DEF Served
<1>11. CASE CreateSession(c)
  <2>1. PICK t \in Sids :
            /\ Unused(t)
            /\ rows' = [rows EXCEPT ![t] = [live |-> TRUE, org |-> call.org]]
            /\ calls' = [calls EXCEPT ![c].at = "list", ![c].token = t]
    BY <1>11 DEF CreateSession
  <2> DEFINE r == [call EXCEPT !.at = "list", !.token = t]
  <2>2. call.at = "insert" /\ UNCHANGED <<members, browser>> /\ calls' = [calls EXCEPT ![c] = r]
    BY <1>1, <1>11, <2>1 DEF CreateSession, Shape
  <2>3. Fits(call.kind, "list")
    BY <1>1, <2>2 DEF Fits, Reading, Tenant
  <2>4. r \in CallSet /\ r.at = "list" /\ r.org = call.org /\ r.kind = call.kind /\ r.token = t
        /\ r.heard = call.heard /\ r.excused = call.excused
    BY <1>1 DEF CallSet, Steps
  <2> HIDE DEF r
  <2> QED
    BY <2>1, <2>2, <2>3, <2>4 DEF Served
<1>12. CASE DestroySession(c)
  <2> DEFINE r == [call EXCEPT !.at = "ok"]
  <2>1. /\ call.at = "delete" /\ UNCHANGED <<members, browser>> /\ calls' = [calls EXCEPT ![c] = r]
        /\ rows' = IF s = Null THEN rows ELSE [rows EXCEPT ![s] = NoRow]
    BY <1>1, <1>12 DEF DestroySession, Goto, Shape
  <2>2. Fits(call.kind, "ok")
    BY <1>1, <2>1 DEF Fits, Reading, Tenant
  <2>3. r \in CallSet /\ r.at = "ok" /\ r.org = call.org /\ r.kind = call.kind /\ r.token = s
        /\ r.heard = call.heard /\ r.excused = call.excused
    BY <1>1 DEF CallSet, Steps
  <2> HIDE DEF r
  <2> QED
    BY <2>1, <2>2, <2>3 DEF Served
<1> QED
  BY <1>5, <1>6, <1>7, <1>8, <1>9, <1>10, <1>11, <1>12 DEF Serve

-----------------------------------------------------------------------------
(* What the tab's steps do.                                                *)

\* The tab comes to show (st, m) on route r with this cookie; the lanes come to hold `lanes`.
Shown(st, m, r, token, lanes) ==
    LET o == Scope(st, m, r)
    IN  /\ status' = st /\ me' = m /\ route' = r /\ cookie' = token
        /\ calls' \in [AllCalls -> CallSet]
        /\ \A d \in Lanes : calls'[d] = lanes[d]
        /\ \/ o = view.org /\ view' = view /\ \A d \in Tenant : calls'[d] = calls[d]
           \/ o # view.org /\ o = Null /\ view' = NoView /\ \A d \in Tenant : calls'[d] = Idle
           \/ /\ o # view.org /\ o # Null /\ view' = Loading(o)
              /\ \A d \in Tenant : calls'[d] = Call(d, token, Null)

LEMMA RenderShows ==
    ASSUME Shape, NEW st, NEW m, NEW r, NEW token \in Sids \cup {Null}, NEW ends,
           DOMAIN ends \subseteq Lanes, \A d \in DOMAIN ends : ends[d] \in CallSet,
           Render(st, m, r, token, ends)
    PROVE  Shown(st, m, r, token, [d \in Lanes |-> IF d \in DOMAIN ends THEN ends[d] ELSE calls[d]])
<1> DEFINE o == Scope(st, m, r)
           left == [d \in AllCalls |-> IF d \in DOMAIN ends THEN ends[d] ELSE calls[d]]
           lanes == [d \in Lanes |-> IF d \in DOMAIN ends THEN ends[d] ELSE calls[d]]
<1>1. calls \in [AllCalls -> CallSet] /\ DOMAIN calls = AllCalls
  BY DEF Shape
<1>2. left \in [AllCalls -> CallSet]
  BY <1>1
<1>3. /\ \A d \in Lanes : left[d] = lanes[d]
      /\ \A d \in Tenant : left[d] = calls[d]
  BY Places DEF AllCalls
<1>4. \A d \in Tenant : Call(d, token, Null) \in CallSet
  BY CallTyped DEF Answers
<1>5. status' = st /\ me' = m /\ route' = r /\ cookie' = token
  BY DEF Render
<1>6. \/ o = view.org /\ view' = view /\ calls' = left
      \/ /\ o # view.org /\ view' = (IF o = Null THEN NoView ELSE Loading(o))
         /\ calls' = [d \in AllCalls |->
                        IF d \notin Tenant THEN left[d]
                        ELSE IF o = Null THEN Idle ELSE Call(d, token, Null)]
  BY <1>1 DEF Render, SameScope
<1> HIDE DEF o, left, lanes
<1>7. CASE o = view.org /\ view' = view /\ calls' = left
  BY <1>2, <1>3, <1>5, <1>7 DEF Shown, o, lanes
<1>8. CASE /\ o # view.org /\ view' = (IF o = Null THEN NoView ELSE Loading(o))
           /\ calls' = [d \in AllCalls |->
                          IF d \notin Tenant THEN left[d]
                          ELSE IF o = Null THEN Idle ELSE Call(d, token, Null)]
  <2>1. calls' \in [AllCalls -> CallSet]
    BY <1>2, <1>4, <1>8, IdleTyped
  <2>2. \A d \in Lanes : calls'[d] = lanes[d]
    BY <1>3, <1>8, Places DEF AllCalls
  <2>3. \A d \in Tenant : calls'[d] = IF o = Null THEN Idle ELSE Call(d, token, Null)
    BY <1>8 DEF AllCalls
  <2> QED
    BY <1>5, <1>8, <2>1, <2>2, <2>3 DEF Shown, o, lanes
<1> QED
  BY <1>6, <1>7, <1>8

LEMMA LeftBehindTyped ==
    ASSUME Shape, NEW c \in AllCalls
    PROVE  LET r == LeftBehind(c)
           IN  /\ r \in CallSet /\ Fits(r.kind, r.at) /\ r.kind \in {"none", calls[c].kind}
               /\ calls[c].kind \notin Changing \/ calls[c].at \in {"ok", "denied"} => r = Idle
<1> DEFINE call == calls[c]
           l == [call EXCEPT !.heard = FALSE]
<1>1. call \in CallSet /\ Fits(call.kind, call.at)
  BY DEF Shape
<1>2. l \in CallSet /\ l.kind = call.kind /\ l.at = call.at
  BY <1>1 DEF CallSet
<1> HIDE DEF l
<1>3. LeftBehind(c) = IF call.kind \in Changing /\ call.at \notin {"ok", "denied"} THEN l ELSE Idle
  BY DEF LeftBehind, l
<1> QED
  BY <1>1, <1>2, <1>3, IdleTyped

\* How a call that ends leaves the tab: an answer is adopted, the tab turns anonymous, or it
\* stays as it is.
Heard(c, st, m, token, rest) ==
    LET call == calls[c]
    IN  /\ Shown(st, m, route, token, [d \in Lanes |-> IF d = c THEN rest ELSE calls[d]])
        /\ UNCHANGED <<members, rows>>
        /\ Busy(c) /\ call.heard /\ (crossed => crossed') /\ crossed' \in BOOLEAN
        /\ rest \in CallSet /\ Fits(rest.kind, rest.at) /\ rest.kind \in {"none", call.kind}
        /\ ~crossed' => rest = Idle
        /\ m \in [org : Answers, orgs : SUBSET Orgs] /\ token \in Sids \cup {Null}
        /\ \/ /\ st = "authed" /\ m.org = call.org
              /\ call.kind \in {"hydrate", "refresh", "login", "switch"} /\ call.at = "ok"
              /\ token = IF call.kind = "login" THEN call.token ELSE cookie
           \/ /\ st = "anon" /\ m = NoMe
              /\ call.kind \in {"hydrate", "refresh", "logout"}
              /\ token = cookie \/ call.kind = "logout"
           \/ /\ st = status /\ m = me /\ token = cookie
              /\ call.kind \in {"refresh", "login", "switch"}
              /\ ~crossed' /\ call.kind = "switch" => call.at = "denied"

LEMMA AdoptDoes ==
    ASSUME Shape, NEW c \in Lanes, NEW token \in Sids \cup {Null}, Adopt(c, token)
    PROVE  LET m == [org |-> calls[c].org, orgs |-> calls[c].orgs]
           IN  /\ Shown("authed", m, route, token, [d \in Lanes |-> IF d = c THEN Idle ELSE calls[d]])
               /\ m \in [org : Answers, orgs : SUBSET Orgs]
<1> DEFINE m == [org |-> calls[c].org, orgs |-> calls[c].orgs]
           ends == [d \in {c} |-> Idle]
<1>1. Render("authed", m, route, token, ends)
  BY DEF Adopt
<1>2. DOMAIN ends = {c} /\ ends[c] = Idle
  OBVIOUS
<1>3. calls[c] \in CallSet
  BY DEF Shape, AllCalls
<1>4. m \in [org : Answers, orgs : SUBSET Orgs]
  BY <1>3 DEF CallSet
<1> HIDE DEF m, ends
<1>5. Shown("authed", m, route, token, [d \in Lanes |-> IF d \in DOMAIN ends THEN ends[d] ELSE calls[d]])
  BY <1>1, <1>2, IdleTyped, RenderShows
<1>6. [d \in Lanes |-> IF d \in DOMAIN ends THEN ends[d] ELSE calls[d]]
        = [d \in Lanes |-> IF d = c THEN Idle ELSE calls[d]]
  BY <1>2
<1> QED
  BY <1>4, <1>5, <1>6 DEF m

LEMMA LeaveDoes ==
    ASSUME Shape, NEW c \in Lanes, NEW token \in Sids \cup {Null}, NEW st, NEW m,
           Render(st, m, route, token, [d \in {c} |-> LeftBehind(c)])
    PROVE  Shown(st, m, route, token, [d \in Lanes |-> IF d = c THEN LeftBehind(c) ELSE calls[d]])
<1> DEFINE rest == LeftBehind(c)
           ends == [d \in {c} |-> rest]
<1>1. rest \in CallSet
  BY LeftBehindTyped DEF AllCalls
<1> HIDE DEF rest
<1>2. DOMAIN ends = {c} /\ ends[c] = rest /\ Render(st, m, route, token, ends)
  BY DEF rest
<1> HIDE DEF ends
<1>3. Shown(st, m, route, token, [d \in Lanes |-> IF d \in DOMAIN ends THEN ends[d] ELSE calls[d]])
  BY <1>1, <1>2, RenderShows
<1>4. [d \in Lanes |-> IF d \in DOMAIN ends THEN ends[d] ELSE calls[d]]
        = [d \in Lanes |-> IF d = c THEN rest ELSE calls[d]]
  BY <1>2
<1> QED
  BY <1>3, <1>4 DEF rest

LEMMA HearDoes ==
    ASSUME Shape, NEW c \in Lanes, Hear(c)
    PROVE  \E st, m, token, rest : Heard(c, st, m, token, rest)
<1> DEFINE call == calls[c]
           left == LeftBehind(c)
           ans == [org |-> call.org, orgs |-> call.orgs]
<1>1. /\ call \in CallSet /\ Fits(call.kind, call.at) /\ call.token \in Sids \cup {Null}
      /\ cookie \in Sids \cup {Null} /\ crossed \in BOOLEAN
      /\ me \in [org : Answers, orgs : SUBSET Orgs]
  BY DEF Shape, Scalars, AllCalls, CallSet
<1>2. NoMe \in [org : Answers, orgs : SUBSET Orgs]
  BY DEF NoMe, Answers
<1>3. /\ left \in CallSet /\ Fits(left.kind, left.at) /\ left.kind \in {"none", call.kind}
      /\ call.kind \notin Changing \/ call.at \in {"ok", "denied"} => left = Idle
  BY LeftBehindTyped DEF AllCalls
<1>4. /\ Idle \in CallSet /\ Fits(Idle.kind, Idle.at) /\ Idle.kind \in {"none", call.kind}
  BY IdleTyped
<1>5. call.kind # "none" => Busy(c)
  BY <1>1 DEF Fits, Busy
<1> HIDE DEF left, ans
<1>6. ASSUME Adopt(c, cookie), call.heard, call.at = "ok",
             call.kind \in {"hydrate", "refresh", "switch"},
             UNCHANGED <<members, rows, crossed>>
      PROVE  \E st, m, token, rest : Heard(c, st, m, token, rest)
  <2>1. Heard(c, "authed", ans, cookie, Idle)
    BY <1>1, <1>4, <1>5, <1>6, AdoptDoes DEF Heard, ans
  <2> QED
    BY <2>1
<1>7. ASSUME NEW token \in Sids \cup {Null}, TurnAnon(c, token), call.heard,
             call.kind \in {"hydrate", "refresh", "logout"},
             token = cookie \/ call.kind = "logout",
             UNCHANGED <<members, rows>>,
             crossed' = crossed \/ crossed' = TRUE,
             ~crossed' => call.kind # "logout" \/ call.at = "ok"
      PROVE  \E st, m, tok, rest : Heard(c, st, m, tok, rest)
  <2>1. Shown("anon", NoMe, route, token, [d \in Lanes |-> IF d = c THEN left ELSE calls[d]])
    BY <1>7, LeaveDoes DEF TurnAnon, AnonMe, left
  <2>2. ~crossed' => left = Idle
    BY <1>3, <1>7 DEF Changing
  <2>3. Busy(c) /\ (crossed => crossed') /\ crossed' \in BOOLEAN
    <3>1. Busy(c)
      BY <1>5, <1>7
    <3>2. (crossed => crossed') /\ crossed' \in BOOLEAN
      <4>1. crossed \in BOOLEAN
        BY <1>1
      <4>2. CASE crossed' = crossed
        BY <4>1, <4>2
      <4>3. CASE crossed' = TRUE
        BY <4>3
      <4> QED
        BY <1>7, <4>2, <4>3
    <3> QED
      BY <3>1, <3>2
  <2>4. token \in Sids \cup {Null}
    BY <1>7
  <2>5. Heard(c, "anon", NoMe, token, left)
    BY <1>2, <1>3, <1>7, <2>1, <2>2, <2>3, <2>4 DEF Heard
  <2> QED
    BY <2>5
<1>8. ASSUME StayAs(c), call.heard, call.kind \in {"refresh", "login", "switch"},
             UNCHANGED <<members, rows>>,
             crossed' = crossed \/ crossed' = TRUE,
             ~crossed' => call.kind = "refresh" \/ call.at \in {"ok", "denied"},
             ~crossed' /\ call.kind = "switch" => call.at = "denied"
      PROVE  \E st, m, tok, rest : Heard(c, st, m, tok, rest)
  <2>1. Shown(status, me, route, cookie, [d \in Lanes |-> IF d = c THEN left ELSE calls[d]])
    BY <1>1, <1>8, LeaveDoes DEF StayAs, left
  <2>2. ~crossed' => left = Idle
    BY <1>3, <1>8 DEF Changing
  <2>3. Busy(c) /\ (crossed => crossed') /\ crossed' \in BOOLEAN
    <3>1. Busy(c)
      BY <1>5, <1>8
    <3>2. (crossed => crossed') /\ crossed' \in BOOLEAN
      <4>1. crossed \in BOOLEAN
        BY <1>1
      <4>2. CASE crossed' = crossed
        BY <4>1, <4>2
      <4>3. CASE crossed' = TRUE
        BY <4>3
      <4> QED
        BY <1>8, <4>2, <4>3
    <3> QED
      BY <3>1, <3>2
  <2>4. Heard(c, status, me, cookie, left)
    BY <1>1, <1>3, <1>8, <2>1, <2>2, <2>3 DEF Heard
  <2> QED
    BY <2>4
<1>9. CASE Hydrated(c)
  BY <1>1, <1>6, <1>7, <1>9 DEF Hydrated, HydrateFailed, Ended, Lost, server
<1>10. CASE Refreshed(c)
  BY <1>1, <1>6, <1>7, <1>8, <1>10 DEF Refreshed, Ended, Lost, server
<1>11. CASE SignedIn(c)
  <2>1. UNCHANGED <<members, rows>> /\ crossed' = (crossed \/ call.at \notin {"ok", "denied"})
        /\ call.heard /\ call.kind = "login"
    BY <1>11 DEF SignedIn, Ended, Lost, server
  <2>2. CASE Adopt(c, call.token) /\ call.at = "ok"
    <3>1. crossed' = crossed
      BY <1>1, <2>1, <2>2
    <3>2. Heard(c, "authed", ans, call.token, Idle)
      BY <1>1, <1>4, <1>5, <2>1, <2>2, <3>1, AdoptDoes DEF Heard, ans
    <3> QED
      BY <3>2
  <2>3. CASE StayAs(c)
    <3>1. crossed' = crossed \/ crossed' = TRUE
      BY <1>1, <2>1
    <3>2. ~crossed' => call.at \in {"ok", "denied"}
      BY <2>1
    <3> QED
      BY <1>8, <2>1, <2>3, <3>1, <3>2
  <2> QED
    BY <1>11, <2>2, <2>3 DEF SignedIn, Ended
<1>12. CASE Switched(c)
  BY <1>1, <1>6, <1>8, <1>12 DEF Switched, Ended, Lost, server
<1>13. CASE SignedOut(c)
  <2>1. CASE Ended(c, "logout", "ok") /\ TurnAnon(c, Null) /\ UNCHANGED crossed
    BY <1>7, <1>13, <2>1 DEF SignedOut, Ended, server
  <2>2. CASE Lost(c, "logout") /\ TurnAnon(c, cookie) /\ crossed' = TRUE
    BY <1>1, <1>7, <1>13, <2>2 DEF SignedOut, Lost, server
  <2> QED
    BY <1>13, <2>1, <2>2 DEF SignedOut
<1> QED
  BY <1>9, <1>10, <1>11, <1>12, <1>13 DEF Hear

-----------------------------------------------------------------------------
(* What the invariant says.                                                *)

LEMMA Typed == Shape => TypeOK
<1> SUFFICES ASSUME Shape PROVE TypeOK
  OBVIOUS
<1>1. Scalars /\ calls \in [AllCalls -> CallSet] /\ DOMAIN calls = AllCalls
  BY DEF Shape
<1>2. ASSUME NEW c \in AllCalls
      PROVE  /\ calls[c].kind \in Kinds /\ calls[c].at \in Steps
             /\ calls[c].token \in Sids \cup {Null}
             /\ calls[c].org \in Answers /\ calls[c].orgs \subseteq Orgs
             /\ calls[c].heard \in BOOLEAN /\ calls[c].excused \in BOOLEAN
  BY <1>1 DEF CallSet
<1> QED
  BY <1>1, <1>2 DEF Scalars, TypeOK, AllCalls, Kinds

LEMMA Promises == Inv => RevokedMeansNoData /\ ShownBelongs
<1> SUFFICES ASSUME Inv PROVE RevokedMeansNoData /\ ShownBelongs
  OBVIOUS
<1>1. RevokedMeansNoData
  BY DEF Inv, Checked, RevokedMeansNoData
<1>2. ASSUME view.phase = "ready", ~crossed, \A c \in Lanes : calls[c].kind # "switch"
      PROVE  view.jobs = me.org /\ view.leads = me.org
  <2>1. PageAgrees
    BY <1>2 DEF Inv, Agrees, Switching
  <2>2. view.org # Null
    BY <1>2 DEF Inv, Mounted, NoView
  <2>3. view.org = me.org
    BY <2>2 DEF Inv, Mounted, Scope
  <2> QED
    BY <1>2, <2>1, <2>3 DEF PageAgrees
<1> QED
  BY <1>1, <1>2 DEF ShownBelongs

LEMMA Starts == Init => Inv
<1> SUFFICES ASSUME Init PROVE Inv
  OBVIOUS
<1>1. PICK l \in Lanes :
          calls = [c \in AllCalls |-> IF c = l THEN Call("hydrate", Null, Null) ELSE Idle]
  BY DEF Init, AllCalls
<1> DEFINE first == Call("hydrate", Null, Null)
<1>2. first \in CallSet /\ Fits("hydrate", first.at) /\ first.kind = "hydrate" /\ first.token = Null
      /\ first.heard /\ first.at = "resolve"
  BY CallTyped DEF Reading, Answers
<1> HIDE DEF first
<1>3. \A c \in AllCalls : calls[c] = IF c = l THEN first ELSE Idle
  BY <1>1 DEF first
<1>4. Shape
  <2>1. Scalars
    BY DEF Init, Scalars, NoRow, NoMe, NoView, Answers
  <2>2. calls \in [AllCalls -> CallSet]
    BY <1>1, <1>2, IdleTyped DEF first
  <2> QED
    BY <1>2, <1>3, <2>1, <2>2, IdleTyped, Places DEF Shape, AllCalls, Reading
<1>5. \A c \in Tenant : calls[c] = Idle
  BY <1>3, Places DEF AllCalls
<1>6. Mounted
  BY <1>5, IdleTyped DEF Init, Mounted, Scope, NoView
<1>7. Checked
  BY <1>5, IdleTyped DEF Checked
<1>8. Apart /\ AnswersAgree
  BY <1>2, <1>3, IdleTyped DEF Apart, AnswersAgree, AllCalls, Changing
<1>9. Sensible
  BY <1>2, <1>3, <1>5, IdleTyped DEF Init, Sensible, AllCalls, Busy
<1>10. RowAgrees /\ PageAgrees
  BY <1>5, IdleTyped DEF Init, RowAgrees, PageAgrees, NoView
<1> QED
  BY <1>4, <1>6, <1>7, <1>8, <1>9, <1>10 DEF Inv, Agrees

-----------------------------------------------------------------------------
(* A step of a route.                                                      *)

LEMMA ServedKeeps ==
    ASSUME Inv, NEW c \in AllCalls, NEW r, Served(c, r)
    PROVE  Inv'
<1> DEFINE call == calls[c]
           s == call.token
<1>1. /\ Shape /\ calls \in [AllCalls -> CallSet] /\ call \in CallSet /\ Fits(call.kind, call.at)
      /\ s \in Sids \cup {Null} /\ call.org \in Answers /\ r \in CallSet
      /\ rows \in [Sids -> [live : BOOLEAN, org : Answers]]
  BY DEF Inv, Shape, Scalars, CallSet, Served
<1>2. calls' = [calls EXCEPT ![c] = r] /\ UNCHANGED <<members, browser>>
  BY DEF Served
<1>3. /\ UNCHANGED <<members, cookie, status, me, route, form, view, crossed>>
      /\ calls' \in [AllCalls -> CallSet] /\ calls'[c] = r
      /\ \A d \in AllCalls : d # c => calls'[d] = calls[d]
  BY <1>1, <1>2 DEF browser
<1>4. r.kind = call.kind /\ r.heard = call.heard /\ r.excused = call.excused
      /\ call.at # "idle" /\ r.at # "idle" /\ Fits(call.kind, r.at)
  BY DEF Served
<1>5. \/ UNCHANGED rows
      \/ call.at = "update" /\ r.at = "list" /\ r.token = s /\ r.org = call.org
         /\ rows' = [rows EXCEPT ![s] = WithOrg(s, call.org)]
      \/ call.at = "insert" /\ r.org = call.org /\ r.token \in Sids /\ Unused(r.token)
         /\ rows' = [rows EXCEPT ![r.token] = [live |-> TRUE, org |-> call.org]]
      \/ call.at = "delete" /\ r.token = s
         /\ rows' = IF s = Null THEN rows ELSE [rows EXCEPT ![s] = NoRow]
  BY DEF Served
<1>6. c \in Tenant => call.kind = c /\ c \notin Lanes
  <2>1. c \in Tenant => call.kind \in {"none", c}
    BY <1>1 DEF Shape
  <2>2. call.kind # "none"
    BY <1>1, <1>4 DEF Fits, Reading, Tenant
  <2> QED
    BY <2>1, <2>2, Places
<1>7. c \in Lanes => call.kind \in Reading \cup Changing /\ c \notin Tenant
  <2>1. call.kind # "none" /\ call.kind \in Kinds
    BY <1>1, <1>4 DEF Fits, Reading, Tenant, CallSet
  <2>2. c \in Lanes => call.kind \notin Tenant
    BY <1>1 DEF Shape
  <2> QED
    BY <2>1, <2>2, Places DEF Kinds
<1>8. /\ call.at = "update" => call.kind = "switch" /\ c \in Lanes
      /\ call.at = "insert" => call.kind = "login" /\ c \in Lanes
      /\ call.at = "delete" => call.kind = "logout" /\ c \in Lanes
      /\ call.at = "query" => c \in Tenant
      /\ call.at = "list" => c \in Lanes
  <2>1. /\ call.at = "update" => call.kind = "switch"
        /\ call.at = "insert" => call.kind = "login"
        /\ call.at = "delete" => call.kind = "logout"
        /\ call.at = "query" => call.kind \in Tenant
        /\ call.at = "list" => call.kind \notin Tenant
    BY <1>1 DEF Fits, Tenant, Reading
  <2>2. c \in Lanes => call.kind \notin Tenant
    BY <1>1 DEF Shape
  <2>3. "switch" \notin Tenant /\ "login" \notin Tenant /\ "logout" \notin Tenant
    BY DEF Tenant
  <2> HIDE DEF call
  <2> QED
    BY <1>6, <2>1, <2>2, <2>3 DEF AllCalls
<1> HIDE DEF call, s
<1>9. Shape'
  <2>1. rows' \in [Sids -> [live : BOOLEAN, org : Answers]]
    <3>1. CASE UNCHANGED rows
      BY <1>1, <3>1
    <3>2. CASE rows' = [rows EXCEPT ![s] = WithOrg(s, call.org)]
      <4>1. s \in Sids => WithOrg(s, call.org) \in [live : BOOLEAN, org : Answers]
        BY <1>1 DEF WithOrg
      <4> QED
        BY <1>1, <3>2, <4>1
    <3>3. CASE r.token \in Sids /\ rows' = [rows EXCEPT ![r.token] = [live |-> TRUE, org |-> call.org]]
      BY <1>1, <3>3
    <3>4. CASE rows' = IF s = Null THEN rows ELSE [rows EXCEPT ![s] = NoRow]
      BY <1>1, <3>4 DEF NoRow, Answers
    <3> QED
      BY <1>5, <3>1, <3>2, <3>3, <3>4
  <2>2. Scalars'
    BY <1>1, <1>3, <2>1 DEF Shape, Scalars
  <2>3. \A d \in AllCalls : Fits(calls'[d].kind, calls'[d].at) /\ calls'[d].kind = calls[d].kind
    BY <1>1, <1>3, <1>4 DEF Shape, call
  <2> QED
    BY <1>1, <1>3, <2>2, <2>3 DEF Shape, AllCalls
<1>10. Checked'
  <2> SUFFICES ASSUME NEW d \in Tenant, calls'[d].at \in {"query", "ok"}
               PROVE  calls'[d].org \in members \/ calls'[d].excused
    BY <1>3 DEF Checked
  <2>1. CASE d # c
    BY <1>3, <2>1 DEF Inv, Checked, AllCalls
  <2>2. CASE d = c /\ r.at \in {"query", "ok"}
    <3>1. call.at \in {"member", "query"} /\ r.org = call.org
      BY <1>8, <1>6, <2>2 DEF Served, call
    <3>2. call.at = "member" => call.org \in members
      BY <2>2 DEF Served, call
    <3>3. call.at = "query" => call.org \in members \/ call.excused
      BY <2>2 DEF Inv, Checked, call
    <3> QED
      BY <1>3, <1>4, <2>2, <3>1, <3>2, <3>3
  <2> QED
    BY <1>3, <2>1, <2>2
<1>11. Mounted'
  <2>1. view.org = Null => c \notin Tenant
    BY <1>4 DEF Inv, Mounted, call
  <2>2. ASSUME view.org = Null, NEW d \in Tenant PROVE calls'[d].at = "idle"
    BY <1>3, <2>1, <2>2 DEF Inv, Mounted, AllCalls
  <2> QED
    BY <1>3, <2>2 DEF Inv, Mounted
<1>12. ASSUME ~crossed PROVE Apart' /\ Sensible' /\ AnswersAgree'
  <2>1. Apart /\ Sensible /\ AnswersAgree
    BY <1>12 DEF Inv, Agrees
  <2>2. Apart'
    <3>1. \A d \in Lanes : /\ calls'[d].kind = calls[d].kind /\ calls'[d].heard = calls[d].heard
                           /\ calls'[d].at = "idle" <=> calls[d].at = "idle"
      BY <1>3, <1>4 DEF AllCalls, call
    <3> QED
      BY <2>1, <3>1 DEF Apart, Busy
  <2>3. r.token # s => call.kind = "login"
    BY <1>8 DEF Served, call, s
  <2>4. call.kind = "switch" => r.org = call.org \/ r.org = Null
    <3>1. call.kind = "switch" => call.at # "login"
      BY <1>1 DEF Fits, Reading, Tenant
    <3> QED
      BY <1>8, <3>1 DEF Served, call
  <2>5. Sensible'
    <3>1. ASSUME NEW d \in Lanes, calls'[d].kind \notin {"none", "login"}
          PROVE  calls'[d].token = cookie
      BY <1>3, <1>4, <2>1, <2>3, <3>1 DEF Sensible, AllCalls, call, s
    <3>2. ASSUME NEW d \in Tenant, Busy(d)' PROVE calls'[d].token = cookie
      BY <1>3, <1>4, <1>6, <2>1, <2>3, <3>2 DEF Sensible, AllCalls, call, s, Busy, Tenant
    <3>3. ASSUME NEW d \in Lanes, calls'[d].kind = "login" PROVE status = "anon"
      BY <1>3, <1>4, <2>1, <3>3 DEF Sensible, AllCalls, call
    <3>4. ASSUME NEW d \in Lanes, calls'[d].kind = "switch"
          PROVE  calls'[d].org = Null \/ calls'[d].org # me.org
      BY <1>3, <1>4, <2>1, <2>4, <3>4 DEF Sensible, AllCalls, call
    <3> QED
      BY <1>3, <3>1, <3>2, <3>3, <3>4 DEF Sensible
  <2>6. ASSUME NEW d \in Lanes, calls'[d].kind # "logout", calls'[d].at \in {"list", "ok"},
               RowIn(rows', calls'[d].token).live
        PROVE  calls'[d].org \in {RowIn(rows', calls'[d].token).org, Null}
    <3>1. CASE d # c
      <4>1. calls'[d] = calls[d] /\ Busy(d)
        BY <1>3, <2>6, <3>1 DEF AllCalls, Busy
      <4>2. c \in Lanes => call.kind \notin Changing
        BY <2>1, <3>1, <4>1 DEF Apart, call
      <4>3. UNCHANGED rows
        BY <1>5, <1>8, <4>2 DEF Changing
      <4> QED
        BY <2>1, <2>6, <4>1, <4>3 DEF AnswersAgree, RowIn
    <3>2. CASE d = c
      <4>1. calls'[d] = r /\ c \in Lanes /\ r.kind = call.kind /\ call.kind # "logout"
            /\ r.at \in {"list", "ok"} /\ RowIn(rows', r.token).live
        BY <1>3, <1>4, <2>6, <3>2
      <4>2. CASE call.at = "resolve" /\ UNCHANGED rows /\ r.token = s /\ r.org = RowIn(rows, s).org
        BY <4>1, <4>2 DEF RowIn
      <4>3. CASE call.at = "update" /\ r.org = call.org /\ r.token = s
                 /\ rows' = [rows EXCEPT ![s] = WithOrg(s, call.org)]
        <5>1. s # Null /\ s \in Sids
          BY <1>1, <4>1, <4>3 DEF RowIn, NoRow
        <5>2. rows'[s] = WithOrg(s, call.org) /\ rows'[s].live
          BY <1>1, <4>1, <4>3, <5>1 DEF RowIn
        <5>3. rows'[s].org = call.org
          BY <1>1, <5>1, <5>2 DEF WithOrg
        <5> QED
          BY <4>1, <4>3, <5>1, <5>3 DEF RowIn
      <4>4. CASE call.at = "list" /\ UNCHANGED rows /\ r.token = s /\ r.org \in {call.org, Null}
        <5>1. RowIn(rows, s).live => call.org \in {RowIn(rows, s).org, Null}
          BY <2>1, <4>1, <4>4 DEF AnswersAgree, call, s
        <5> QED
          BY <4>1, <4>4, <5>1 DEF RowIn
      <4>5. CASE call.at = "insert" /\ r.org = call.org /\ r.token \in Sids
                 /\ rows' = [rows EXCEPT ![r.token] = [live |-> TRUE, org |-> call.org]]
        BY <1>1, <4>1, <4>5 DEF RowIn, NoRow
      <4> QED
        <5>1. call.at \in {"resolve", "update", "list", "insert"}
          BY <1>7, <1>8, <4>1 DEF Served, call
        <5>2. call.at = "resolve" => r.at = "list" /\ call.kind # "switch"
          BY <4>1 DEF Served, call, Reading
        <5>3. call.at = "resolve" =>
                  UNCHANGED rows /\ r.token = s /\ r.org = RowIn(rows, s).org
          BY <5>2 DEF Served, call, s
        <5>4. call.at = "update" =>
                  /\ r.org = call.org /\ r.token = s
                  /\ rows' = [rows EXCEPT ![s] = WithOrg(s, call.org)]
          BY DEF Served, call, s
        <5>5. call.at = "list" => UNCHANGED rows /\ r.token = s /\ r.org \in {call.org, Null}
          BY DEF Served, call, s
        <5>6. call.at = "insert" =>
                  /\ r.org = call.org /\ r.token \in Sids
                  /\ rows' = [rows EXCEPT ![r.token] = [live |-> TRUE, org |-> call.org]]
          BY DEF Served, call
        <5> QED
          BY <4>2, <4>3, <4>4, <4>5, <5>1, <5>3, <5>4, <5>5, <5>6
    <3> QED
      BY <3>1, <3>2
  <2>7. AnswersAgree'
    BY <2>6 DEF AnswersAgree
  <2> QED
    BY <2>2, <2>5, <2>7
<1>13. ASSUME ~crossed, ~Switching' PROVE RowAgrees' /\ PageAgrees'
  <2>1. Apart /\ Sensible
    BY <1>13 DEF Inv, Agrees
  <2>2. ~Switching
    <3>1. ASSUME NEW d \in Lanes, calls[d].kind = "switch", calls[d].at \in {"list", "ok"}
          PROVE  calls'[d].kind = "switch" /\ calls'[d].at \in {"list", "ok"}
      <4>1. CASE d # c
        BY <1>3, <3>1, <4>1 DEF AllCalls
      <4>2. CASE d = c
        BY <1>3, <1>4, <3>1, <4>2 DEF Served, call
      <4> QED
        BY <4>1, <4>2
    <3> QED
      BY <1>13, <3>1 DEF Switching
  <2>3. RowAgrees /\ PageAgrees
    BY <1>13, <2>2 DEF Inv, Agrees
  <2>4. RowIn(rows', cookie).live => RowIn(rows, cookie).live /\ RowIn(rows', cookie).org = RowIn(rows, cookie).org
    <3>1. CASE UNCHANGED rows
      BY <1>3, <3>1 DEF RowIn
    <3>2. CASE call.at = "update" /\ r.at = "list"
      <4>1. calls'[c].kind = "switch" /\ calls'[c].at = "list" /\ c \in Lanes
        BY <1>3, <1>4, <1>8, <3>2
      <4> QED
        BY <1>13, <4>1 DEF Switching
    <3>3. CASE r.token \in Sids /\ Unused(r.token)
               /\ rows' = [rows EXCEPT ![r.token] = [live |-> TRUE, org |-> call.org]]
      BY <1>1, <1>3, <3>3 DEF RowIn, Unused, Inv, Shape, Scalars
    <3>4. CASE rows' = IF s = Null THEN rows ELSE [rows EXCEPT ![s] = NoRow]
      BY <1>1, <1>3, <3>4 DEF RowIn, NoRow, Inv, Shape, Scalars
    <3> QED
      BY <1>5, <3>1, <3>2, <3>3, <3>4
  <2>5. RowAgrees'
    BY <1>3, <2>3, <2>4 DEF RowAgrees
  <2>6. ASSUME NEW d \in Tenant, calls'[d].at \in {"member", "query", "ok"}
        PROVE  calls'[d].org = view.org
    <3>1. CASE d # c
      BY <1>3, <2>3, <2>6, <3>1 DEF PageAgrees, AllCalls
    <3>2. CASE d = c
      <4>1. calls'[d] = r /\ c \in Tenant
        BY <1>3, <2>6, <3>2
      <4>2. CASE call.at = "resolve" /\ RowIn(rows, s).live
                 /\ r.org = (IF call.kind = "switch" THEN call.org ELSE RowIn(rows, s).org)
        <5>1. s = cookie /\ call.kind # "switch"
          BY <1>4, <1>6, <2>1, <4>1 DEF Sensible, Busy, call, s, Tenant
        <5>2. view.org # Null
          BY <1>4, <4>1 DEF Inv, Mounted, call
        <5>3. status = "authed" /\ me.org # Null /\ view.org = me.org
          BY <5>2 DEF Inv, Mounted, Scope
        <5> QED
          BY <2>3, <4>1, <4>2, <5>1, <5>3 DEF RowAgrees
      <4>3. CASE call.at \in {"member", "query"} /\ r.org = call.org
        BY <2>3, <4>1, <4>3 DEF PageAgrees, call
      <4> QED
        BY <1>3, <1>8, <1>6, <2>6, <4>1, <4>2, <4>3 DEF Served, call, s
    <3> QED
      BY <3>1, <3>2
  <2>7. PageAgrees'
    BY <1>3, <2>3, <2>6 DEF PageAgrees
  <2> QED
    BY <2>5, <2>7
<1> QED
  BY <1>3, <1>9, <1>10, <1>11, <1>12, <1>13 DEF Inv, Agrees

LEMMA UnheardKeeps ==
    ASSUME Inv, NEW c \in Lanes, Unheard(c)
    PROVE  Inv'
<1>1. /\ UNCHANGED <<members, rows, cookie, status, me, route, form, view, crossed>>
      /\ calls' = [calls EXCEPT ![c] = Idle] /\ Busy(c) /\ ~calls[c].heard
  BY DEF Unheard, browser, Busy
<1>2. Shape /\ calls \in [AllCalls -> CallSet] /\ c \in AllCalls
  BY DEF Inv, Shape, AllCalls
<1>3. /\ calls' \in [AllCalls -> CallSet] /\ calls'[c] = Idle
      /\ \A d \in AllCalls : d # c => calls'[d] = calls[d]
  BY <1>1, <1>2, IdleTyped
<1>4. \A d \in Tenant : calls'[d] = calls[d]
  BY <1>3, Places DEF AllCalls
<1>5. Shape'
  <2>1. Scalars'
    BY <1>1, <1>2 DEF Shape, Scalars
  <2> QED
    BY <1>2, <1>3, <1>4, <2>1, IdleTyped, Places DEF Shape, AllCalls
<1>6. Checked' /\ Mounted'
  BY <1>1, <1>4 DEF Inv, Checked, Mounted
<1>7. ASSUME ~crossed
      PROVE  /\ Apart' /\ Sensible' /\ AnswersAgree'
             /\ ~Switching' => RowAgrees' /\ PageAgrees'
  <2>1. Apart /\ Sensible /\ AnswersAgree /\ (~Switching => RowAgrees /\ PageAgrees)
    BY <1>7 DEF Inv, Agrees
  <2>2. \A d \in Lanes : calls'[d] = calls[d] \/ calls'[d] = Idle
    BY <1>3 DEF AllCalls
  <2>3. calls[c].kind # "switch"
    BY <1>1, <2>1 DEF Apart, Changing
  <2>4. Apart'
    BY <2>1, <2>2, IdleTyped DEF Apart, Busy, Changing
  <2>5. Sensible'
    BY <1>1, <1>4, <2>1, <2>2, IdleTyped DEF Sensible, Busy
  <2>6. AnswersAgree'
    BY <1>1, <2>1, <2>2, IdleTyped DEF AnswersAgree
  <2>7. Switching => Switching'
    BY <1>3, <2>3 DEF Switching, AllCalls
  <2>8. (RowAgrees => RowAgrees') /\ (PageAgrees => PageAgrees')
    BY <1>1, <1>4 DEF RowAgrees, PageAgrees
  <2> QED
    BY <2>1, <2>4, <2>5, <2>6, <2>7, <2>8
<1> QED
  BY <1>1, <1>5, <1>6, <1>7 DEF Inv, Agrees

-----------------------------------------------------------------------------
(* A step of the tab.                                                      *)

\* A tab shown anew is mounted for its scope, and what is mounted anew has nothing of another.
LEMMA ShownKeeps ==
    ASSUME Inv, NEW st, NEW m, NEW r, NEW token, NEW lanes,
           Shown(st, m, r, token, lanes),
           st \in {"loading", "authed", "anon"}, m \in [org : Answers, orgs : SUBSET Orgs],
           st # "authed" => m = NoMe, r \in {"app", "login"}, token \in Sids \cup {Null},
           \A d \in Lanes : Fits(lanes[d].kind, lanes[d].at) /\ lanes[d].kind \notin Tenant,
           UNCHANGED <<members, rows>>, form' \in {Null, "error"} \cup Lanes, crossed' \in BOOLEAN
    PROVE  /\ Shape' /\ Checked' /\ Mounted'
           /\ PageAgrees \/ Scope(st, m, r) # view.org \/ Scope(st, m, r) = Null => PageAgrees'
           /\ (token = cookie /\ Sensible) \/ Scope(st, m, r) # view.org \/ Scope(st, m, r) = Null
                 => \A d \in Tenant : Busy(d)' => calls'[d].token = token
<1> DEFINE o == Scope(st, m, r)
<1>1. /\ status' = st /\ me' = m /\ route' = r /\ cookie' = token
      /\ calls' \in [AllCalls -> CallSet]
      /\ \A d \in Lanes : calls'[d] = lanes[d]
  BY DEF Shown
<1>2. /\ Shape /\ Scalars /\ members \subseteq Orgs /\ rows \in [Sids -> [live : BOOLEAN, org : Answers]]
      /\ view \in [org : Answers, phase : {"none", "loading", "ready", "error"},
                   jobs : Answers, leads : Answers]
  BY DEF Inv, Shape, Scalars
<1>3. o \in Answers
  BY DEF Scope, Answers
<1>4. ASSUME NEW d \in Tenant
      PROVE  LET n == Call(d, token, Null)
             IN  /\ n.kind = d /\ n.at = "resolve" /\ n.token = token /\ Fits(d, n.at)
  <2>1. d # "login" /\ d # "logout" /\ Null \in Answers
    BY DEF Tenant, Answers
  <2> QED
    BY <2>1, CallTyped
<1>5. view.org = Null => view = NoView /\ \A d \in Tenant : calls[d].at = "idle"
  BY DEF Inv, Mounted
<1>6. Scope(status, me, route)' = o
  BY <1>1 DEF Scope
<1>7. \/ o = view.org /\ view' = view /\ \A d \in Tenant : calls'[d] = calls[d]
      \/ o # view.org /\ o = Null /\ view' = NoView /\ \A d \in Tenant : calls'[d] = Idle
      \/ /\ o # view.org /\ o # Null /\ view' = Loading(o)
         /\ \A d \in Tenant : calls'[d] = Call(d, token, Null)
  BY DEF Shown
<1> HIDE DEF o
<1>8. Loading(o) \in [org : Answers, phase : {"none", "loading", "ready", "error"},
                      jobs : Answers, leads : Answers]
      /\ Loading(o).org = o /\ Loading(o).phase = "loading"
  BY <1>3 DEF Loading, NoView, Answers
<1>9. NoView \in [org : Answers, phase : {"none", "loading", "ready", "error"},
                  jobs : Answers, leads : Answers]
      /\ NoView.org = Null /\ NoView.phase = "none"
  BY DEF NoView, Answers
<1>10. Shape'
  <2>1. view' \in [org : Answers, phase : {"none", "loading", "ready", "error"},
                   jobs : Answers, leads : Answers]
    BY <1>2, <1>7, <1>8, <1>9
  <2>2. Scalars'
    BY <1>1, <1>2, <2>1 DEF Scalars
  <2>3. ASSUME NEW d \in Tenant
        PROVE  Fits(calls'[d].kind, calls'[d].at) /\ calls'[d].kind \in {"none", d}
    BY <1>2, <1>4, <1>7, IdleTyped DEF Shape, AllCalls
  <2>4. \A d \in AllCalls : Fits(calls'[d].kind, calls'[d].at)
    BY <1>1, <2>3 DEF AllCalls
  <2> QED
    BY <1>1, <2>2, <2>3, <2>4 DEF Shape
<1>11. Checked'
  BY <1>4, <1>7, IdleTyped DEF Inv, Checked
<1>12. Mounted'
  <2>1. view'.org = o
    BY <1>7, <1>8, <1>9
  <2>2. o = Null => view' = NoView /\ \A d \in Tenant : calls'[d].at = "idle"
    BY <1>5, <1>7, IdleTyped
  <2> QED
    BY <1>6, <2>1, <2>2 DEF Mounted
<1>13. ASSUME PageAgrees \/ o # view.org \/ o = Null PROVE PageAgrees'
  <2>1. CASE o = Null
    <3>1. view' = NoView /\ \A d \in Tenant : calls'[d].at = "idle"
      BY <1>5, <1>7, <2>1, IdleTyped
    <3> QED
      BY <1>9, <3>1 DEF PageAgrees
  <2>2. CASE o # Null /\ o # view.org
    BY <1>4, <1>7, <1>8, <2>2 DEF PageAgrees
  <2>3. CASE PageAgrees /\ o = view.org
    BY <1>7, <2>3 DEF PageAgrees
  <2> QED
    BY <1>13, <2>1, <2>2, <2>3
<1>14. ASSUME (token = cookie /\ Sensible) \/ o # view.org \/ o = Null, NEW d \in Tenant, Busy(d)'
       PROVE  calls'[d].token = token
  BY <1>4, <1>5, <1>7, <1>14, IdleTyped DEF Busy, Sensible
<1> QED
  BY <1>10, <1>11, <1>12, <1>13, <1>14 DEF o

LEMMA FormTyped == ASSUME Shape, NEW c \in Lanes, Hear(c) PROVE form' \in {Null, "error"} \cup Lanes
<1>1. \E failed, st, m, r : form' = FormAfter(c, failed, st, m, r)
  BY DEF Hear, Hydrated, Refreshed, SignedIn, Switched, SignedOut, HydrateFailed, Adopt, TurnAnon,
         StayAs
<1> QED
  BY <1>1 DEF FormAfter, ErrorShown, Shape, Scalars

LEMMA HeardKeeps ==
    ASSUME Inv, NEW c \in Lanes, NEW st, NEW m, NEW token, NEW rest, Heard(c, st, m, token, rest),
           form' \in {Null, "error"} \cup Lanes
    PROVE  Inv'
<1> DEFINE call == calls[c]
           o == Scope(st, m, route)
           lanes == [d \in Lanes |-> IF d = c THEN rest ELSE calls[d]]
<1>1. /\ Shape /\ call \in CallSet /\ Fits(call.kind, call.at) /\ Scalars
      /\ route \in {"app", "login"} /\ status \in {"loading", "authed", "anon"}
      /\ status # "authed" => me = NoMe
  BY DEF Inv, Shape, Scalars, AllCalls
<1>2. /\ Shown(st, m, route, token, lanes) /\ UNCHANGED <<members, rows>>
      /\ Busy(c) /\ call.heard /\ (crossed => crossed') /\ crossed' \in BOOLEAN
      /\ rest \in CallSet /\ Fits(rest.kind, rest.at) /\ rest.kind \in {"none", call.kind}
      /\ ~crossed' => rest = Idle
      /\ m \in [org : Answers, orgs : SUBSET Orgs] /\ token \in Sids \cup {Null}
  BY DEF Heard
<1>3. /\ st \in {"loading", "authed", "anon"}
      /\ st # "authed" => m = NoMe
  BY <1>1 DEF Heard
<1>4. \A d \in Lanes : lanes[d] = IF d = c THEN rest ELSE calls[d]
  OBVIOUS
<1>5. \A d \in Lanes : Fits(lanes[d].kind, lanes[d].at) /\ lanes[d].kind \notin Tenant
  BY <1>1, <1>2, <1>4, Places DEF Shape, AllCalls
<1>6. /\ status' = st /\ me' = m /\ route' = route /\ cookie' = token
      /\ \A d \in Lanes : calls'[d] = IF d = c THEN rest ELSE calls[d]
  BY <1>2, <1>4 DEF Shown
<1> HIDE DEF lanes, o
<1>7. /\ Shape' /\ Checked' /\ Mounted'
      /\ PageAgrees \/ o # view.org \/ o = Null => PageAgrees'
  BY <1>1, <1>2, <1>3, <1>5, ShownKeeps DEF o
<1>8. ASSUME (token = cookie /\ Sensible) \/ o # view.org \/ o = Null
      PROVE  \A d \in Tenant : Busy(d)' => calls'[d].token = token
  BY <1>1, <1>2, <1>3, <1>5, <1>8, ShownKeeps DEF o
<1>9. ASSUME ~crossed'
      PROVE  /\ Apart' /\ Sensible' /\ AnswersAgree'
             /\ ~Switching' => RowAgrees' /\ PageAgrees'
  <2>1. ~crossed /\ rest = Idle
    BY <1>2, <1>9
  <2>2. Apart /\ Sensible /\ AnswersAgree /\ (~Switching => RowAgrees /\ PageAgrees)
    BY <2>1 DEF Inv, Agrees
  <2>3. /\ calls'[c] = Idle /\ \A d \in Lanes : d # c => calls'[d] = calls[d]
        /\ \A d \in Lanes : calls'[d] = calls[d] \/ calls'[d] = Idle
    BY <1>6, <2>1
  <2>4. Apart'
    BY <2>2, <2>3, IdleTyped DEF Apart, Busy, Changing
  <2>5. AnswersAgree'
    BY <1>2, <2>2, <2>3, IdleTyped DEF AnswersAgree
  <2>6. \A d \in Lanes : d # c => calls[d].kind \notin Changing
    BY <1>2, <2>2 DEF Apart
  <2>7. ASSUME call.kind \in Changing, NEW d \in Lanes PROVE calls'[d].kind = "none"
    <3>1. CASE d = c
      BY <2>3, <3>1, IdleTyped
    <3>2. CASE d # c
      <4>1. calls[d].at = "idle" /\ Fits(calls[d].kind, calls[d].at) /\ calls'[d] = calls[d]
        BY <1>1, <2>2, <2>3, <2>7, <3>2 DEF Apart, Busy, Shape, AllCalls
      <4> QED
        BY <4>1 DEF Fits
    <3> QED
      BY <3>1, <3>2
  <2>8. ASSUME token = cookie \/ call.kind \in Changing,
               token = cookie \/ o # view.org \/ o = Null,
               st = "anon" \/ (st = status /\ m = me) \/ call.kind \in Changing
                  \/ \A d \in Lanes : calls'[d].kind \notin Changing
        PROVE  Sensible'
    <3>1. \A d \in Tenant : Busy(d)' => calls'[d].token = token
      BY <1>8, <2>2, <2>8
    <3>2. CASE call.kind \in Changing
      BY <1>6, <2>7, <3>1, <3>2 DEF Sensible
    <3>3. CASE token = cookie /\ call.kind \notin Changing
      <4>1. ASSUME NEW d \in Lanes, calls'[d].kind \notin {"none", "login"}
            PROVE  calls'[d].token = token
        BY <2>2, <2>3, <3>3, <4>1, IdleTyped DEF Sensible
      <4>2. ASSUME NEW d \in Lanes, calls'[d].kind \in {"login", "switch"} PROVE FALSE
        <5>1. d # c /\ calls[d].kind \in Changing
          BY <2>3, <4>2, IdleTyped DEF Changing
        <5> QED
          BY <2>6, <5>1
      <4> QED
        BY <1>6, <3>1, <4>1, <4>2 DEF Sensible
    <3> QED
      BY <2>8, <3>2, <3>3
  <2>9. CASE /\ st = "authed" /\ m.org = call.org
             /\ call.kind \in {"hydrate", "refresh", "login", "switch"} /\ call.at = "ok"
             /\ token = IF call.kind = "login" THEN call.token ELSE cookie
    <3>1. call.token = token
      BY <2>2, <2>9 DEF Sensible
    <3>2. RowAgrees'
      BY <1>2, <1>6, <2>2, <2>9, <3>1 DEF AnswersAgree, RowAgrees
    <3>3. call.kind = "login" => view.org = Null
      BY <2>2 DEF Sensible, Inv, Mounted, Scope
    <3>4. call.kind = "switch" => o # view.org \/ o = Null
      <4>1. ASSUME call.kind = "switch", o = view.org, o # Null PROVE FALSE
        <5>1. o = m.org
          BY <4>1 DEF o, Scope
        <5>2. view.org = me.org
          BY <4>1 DEF Inv, Mounted, Scope
        <5> QED
          BY <2>2, <2>9, <4>1, <5>1, <5>2 DEF Sensible
      <4> QED
        BY <4>1
    <3>5. call.kind \notin {"login", "switch"} => ~Switching
      BY <2>6, <2>9 DEF Switching, Changing
    <3>6. PageAgrees'
      BY <1>7, <2>2, <2>9, <3>3, <3>4, <3>5
    <3>7. \A d \in Lanes : calls'[d].kind \notin Changing
      BY <2>3, <2>6, IdleTyped DEF Changing
    <3>8. Sensible'
      BY <2>8, <2>9, <3>3, <3>7 DEF Changing
    <3> QED
      BY <2>4, <2>5, <3>2, <3>6, <3>8
  <2>10. CASE /\ st = "anon" /\ m = NoMe
              /\ call.kind \in {"hydrate", "refresh", "logout"}
              /\ token = cookie \/ call.kind = "logout"
    <3>1. o = Null
      BY <2>10 DEF o, Scope
    <3>2. RowAgrees'
      BY <1>6, <2>10 DEF RowAgrees
    <3>3. Sensible'
      BY <2>8, <2>10, <3>1 DEF Changing
    <3> QED
      BY <1>7, <2>4, <2>5, <3>1, <3>2, <3>3
  <2>11. CASE /\ st = status /\ m = me /\ token = cookie
              /\ call.kind \in {"refresh", "login", "switch"}
              /\ ~crossed' /\ call.kind = "switch" => call.at = "denied"
    <3>1. Switching => Switching'
      BY <1>9, <2>3, <2>11 DEF Switching
    <3>2. RowAgrees => RowAgrees'
      BY <1>2, <1>6, <2>11 DEF RowAgrees
    <3>3. Sensible'
      BY <2>8, <2>11
    <3> QED
      BY <1>7, <2>2, <2>4, <2>5, <3>1, <3>2, <3>3
  <2> QED
    BY <2>9, <2>10, <2>11 DEF Heard
<1> QED
  BY <1>7, <1>9 DEF Inv, Agrees

-----------------------------------------------------------------------------
(* The gates, the calls that are sent, and a tab that is loaded anew.      *)

LEMMA GateKeeps ==
    ASSUME Inv, NEW r \in {"app", "login"}, Render(status, me, r, cookie, <<>>), form' = Null,
           UNCHANGED <<server, crossed>>
    PROVE  Inv'
<1> DEFINE lanes == [d \in Lanes |-> calls[d]]
           none == [d \in Lanes |-> IF d \in DOMAIN <<>> THEN <<>>[d] ELSE calls[d]]
<1>1. Shape /\ Scalars /\ UNCHANGED <<members, rows>>
  BY DEF Inv, Shape, server
<1>2. DOMAIN <<>> = {}
  OBVIOUS
<1>3. Shown(status, me, r, cookie, none)
  BY <1>1, <1>2, RenderShows DEF Scalars
<1>4. none = lanes
  BY <1>2
<1>5. /\ Shown(status, me, r, cookie, lanes)
      /\ \A d \in Lanes : lanes[d] = calls[d]
  BY <1>3, <1>4
<1>6. \A d \in Lanes : Fits(lanes[d].kind, lanes[d].at) /\ lanes[d].kind \notin Tenant
  BY <1>1, <1>5 DEF Shape, AllCalls
<1> HIDE DEF lanes, none
<1>7. /\ UNCHANGED <<status, me, cookie>>
      /\ \A d \in Lanes : calls'[d] = calls[d]
  BY <1>5 DEF Shown
<1>8. /\ Shape' /\ Checked' /\ Mounted'
      /\ PageAgrees => PageAgrees'
      /\ Sensible => \A d \in Tenant : Busy(d)' => calls'[d].token = cookie
  BY <1>1, <1>5, <1>6, ShownKeeps DEF Scalars
<1>9. ASSUME ~crossed
      PROVE  /\ Apart' /\ Sensible' /\ AnswersAgree'
             /\ ~Switching' => RowAgrees' /\ PageAgrees'
  <2>1. Apart /\ Sensible /\ AnswersAgree /\ (~Switching => RowAgrees /\ PageAgrees)
    BY <1>9 DEF Inv, Agrees
  <2>2. Apart' /\ AnswersAgree'
    BY <1>1, <1>7, <2>1 DEF Apart, AnswersAgree, Busy
  <2>3. Sensible'
    BY <1>7, <1>8, <2>1 DEF Sensible
  <2>4. (Switching => Switching') /\ (RowAgrees => RowAgrees')
    BY <1>1, <1>7 DEF Switching, RowAgrees
  <2> QED
    BY <1>8, <2>1, <2>2, <2>3, <2>4
<1> QED
  BY <1>8, <1>9 DEF Inv, Agrees

LEMMA SendKeeps ==
    ASSUME Inv, NEW c \in Lanes, NEW kind \in {"login", "switch", "logout", "refresh"},
           NEW o \in Answers, Send(c, kind, o), form' \in {Null, "error"} \cup Lanes,
           kind = "login" => status = "anon", kind = "switch" => o = Null \/ o # me.org
    PROVE  Inv'
<1> DEFINE new == Call(kind, cookie, o)
<1>1. /\ ~Busy(c) /\ calls' = [calls EXCEPT ![c] = new]
      /\ UNCHANGED <<members, rows, cookie, status, me, route, view>>
  BY DEF Send, server
<1>2. crossed' = \/ crossed
                 \/ \E d \in Lanes : Busy(d) /\ {kind, calls[d].kind} \cap Changing # {}
  BY DEF Send
<1>3. Shape /\ Scalars /\ calls \in [AllCalls -> CallSet] /\ c \in AllCalls /\ crossed \in BOOLEAN
  BY DEF Inv, Shape, Scalars, AllCalls
<1>4. /\ new \in CallSet /\ Fits(kind, new.at) /\ new.kind = kind /\ new.token = cookie
      /\ new.org = o /\ new.heard /\ new.at \in {"login", "delete", "resolve"}
  BY <1>3, CallTyped DEF Scalars, Reading, Changing
<1> HIDE DEF new
<1>5. /\ calls' \in [AllCalls -> CallSet] /\ calls'[c] = new
      /\ \A d \in AllCalls : d # c => calls'[d] = calls[d]
  BY <1>1, <1>3, <1>4
<1>6. \A d \in Tenant : calls'[d] = calls[d]
  BY <1>5, Places DEF AllCalls
<1>7. crossed' \in BOOLEAN
  BY <1>2, <1>3
<1>8. Shape'
  <2>1. Scalars'
    BY <1>1, <1>3, <1>7 DEF Scalars
  <2>2. kind \notin Tenant
    BY DEF Tenant
  <2> QED
    BY <1>3, <1>4, <1>5, <1>6, <2>1, <2>2 DEF Shape, AllCalls
<1>9. Checked' /\ Mounted'
  BY <1>1, <1>6 DEF Inv, Checked, Mounted
<1>10. ASSUME ~crossed'
       PROVE  /\ Apart' /\ Sensible' /\ AnswersAgree'
              /\ ~Switching' => RowAgrees' /\ PageAgrees'
  <2>1. ~crossed /\ \A d \in Lanes : Busy(d) => kind \notin Changing /\ calls[d].kind \notin Changing
    BY <1>2, <1>10
  <2>2. Apart /\ Sensible /\ AnswersAgree /\ (~Switching => RowAgrees /\ PageAgrees)
    BY <2>1 DEF Inv, Agrees
  <2>3. \A d \in Lanes : calls[d].kind \in Changing => Busy(d)
    BY <1>3 DEF Shape, Fits, Busy, Changing, AllCalls
  <2>4. \A d \in Lanes : calls[d].kind \notin Changing
    BY <2>1, <2>3
  <2>5. Apart'
    <3> SUFFICES ASSUME NEW d \in Lanes, NEW e \in Lanes, calls'[d].kind \in Changing
                 PROVE  calls'[d].heard /\ (d # e => ~Busy(e)')
      BY DEF Apart
    <3>1. d = c
      BY <1>5, <2>4 DEF AllCalls
    <3>2. kind \in Changing
      BY <1>4, <1>5, <3>1
    <3>3. d # e => ~Busy(e)'
      BY <1>5, <2>1, <3>1, <3>2 DEF Busy, AllCalls
    <3> QED
      BY <1>4, <1>5, <3>1, <3>3
  <2>6. Sensible'
    BY <1>1, <1>4, <1>5, <1>6, <2>2 DEF Sensible, Busy, AllCalls
  <2>7. AnswersAgree'
    BY <1>1, <1>4, <1>5, <2>2 DEF AnswersAgree, AllCalls
  <2>8. ~Switching
    BY <2>4 DEF Switching, Changing
  <2>9. RowAgrees' /\ PageAgrees'
    BY <1>1, <1>6, <2>2, <2>8 DEF RowAgrees, PageAgrees
  <2> QED
    BY <2>5, <2>6, <2>7, <2>9
<1> QED
  BY <1>8, <1>9, <1>10 DEF Inv, Agrees

LEMMA ReloadKeeps ==
    ASSUME Inv, NEW l \in Lanes, Reload(l)
    PROVE  Inv'
<1> DEFINE new == Call("hydrate", cookie, Null)
<1>1. /\ status' = "loading" /\ me' = NoMe /\ form' = Null /\ view' = NoView
      /\ crossed' = (crossed \/ \E c \in Lanes : calls[c].kind \in Changing)
      /\ UNCHANGED <<members, rows, cookie, route>>
  BY DEF Reload, server
<1>2. Shape /\ Scalars /\ calls \in [AllCalls -> CallSet] /\ l \in AllCalls /\ crossed \in BOOLEAN
  BY DEF Inv, Shape, Scalars, AllCalls
<1>3. /\ new \in CallSet /\ Fits("hydrate", new.at) /\ new.kind = "hydrate" /\ new.token = cookie
      /\ new.heard /\ new.at = "resolve"
  <2>1. cookie \in Sids \cup {Null} /\ Null \in Answers /\ "hydrate" \in Reading
    BY <1>2 DEF Scalars, Reading, Answers
  <2> QED
    BY <2>1, CallTyped
<1>4. calls' = [c \in AllCalls |-> IF c = l THEN new ELSE LeftBehind(c)]
  BY <1>2 DEF Reload
<1> HIDE DEF new
<1>5. ASSUME NEW c \in AllCalls
      PROVE  /\ LeftBehind(c) \in CallSet /\ Fits(LeftBehind(c).kind, LeftBehind(c).at)
             /\ LeftBehind(c).kind \in {"none", calls[c].kind}
             /\ calls[c].kind \notin Changing => LeftBehind(c) = Idle
  BY <1>2, LeftBehindTyped
<1>6. /\ calls' \in [AllCalls -> CallSet]
      /\ calls'[l] = new /\ \A c \in AllCalls : c # l => calls'[c] = LeftBehind(c)
  BY <1>2, <1>3, <1>4, <1>5
<1>7. ASSUME NEW c \in Tenant PROVE calls'[c] = Idle
  <2>1. calls[c].kind \notin Changing
    BY <1>2, Places DEF Shape, Changing, Tenant
  <2> QED
    BY <1>5, <1>6, <2>1, Places DEF AllCalls
<1>8. Shape'
  <2>1. crossed' \in BOOLEAN
    BY <1>1, <1>2
  <2>2. Scalars'
    BY <1>1, <1>2, <2>1 DEF Scalars, NoMe, NoView, Answers
  <2>3. \A c \in AllCalls : Fits(calls'[c].kind, calls'[c].at)
    BY <1>3, <1>5, <1>6
  <2>4. \A c \in Lanes : calls'[c].kind \notin Tenant
    BY <1>2, <1>3, <1>5, <1>6, Places DEF Shape, AllCalls, Reading
  <2> QED
    BY <1>6, <1>7, <2>2, <2>3, <2>4, IdleTyped DEF Shape
<1>9. Checked' /\ Mounted'
  BY <1>1, <1>7, IdleTyped DEF Checked, Mounted, Scope, NoView
<1>10. ASSUME ~crossed'
       PROVE  Apart' /\ Sensible' /\ AnswersAgree' /\ RowAgrees' /\ PageAgrees'
  <2>1. \A c \in Lanes : calls[c].kind \notin Changing
    BY <1>1, <1>10
  <2>2. \A c \in Lanes : c # l => calls'[c] = Idle
    BY <1>5, <1>6, <2>1 DEF AllCalls
  <2>3. Apart' /\ AnswersAgree'
    BY <1>3, <1>6, <2>2, IdleTyped DEF Apart, AnswersAgree, Changing
  <2>4. Sensible'
    BY <1>1, <1>3, <1>6, <1>7, <2>2, IdleTyped DEF Sensible, Busy
  <2>5. RowAgrees' /\ PageAgrees'
    BY <1>1, <1>7, IdleTyped DEF RowAgrees, PageAgrees, NoView
  <2> QED
    BY <2>3, <2>4, <2>5
<1> QED
  BY <1>8, <1>9, <1>10 DEF Inv, Agrees

-----------------------------------------------------------------------------
(* A load of the page, and what happens outside the program.               *)

\* A load is sent, or has ended: the tenant calls are new or gone.
LEMMA LoadKeeps ==
    ASSUME Inv, UNCHANGED session, view.org # Null, view'.org = view.org,
           view' \in [org : Answers, phase : {"none", "loading", "ready", "error"},
                      jobs : Answers, leads : Answers],
           NEW sent \in BOOLEAN,
           calls' = [c \in DOMAIN calls |->
                       IF c \in Tenant THEN IF sent THEN Call(c, cookie, Null) ELSE Idle
                       ELSE calls[c]],
           PageAgrees /\ view'.phase = "ready" => view'.jobs = view.org /\ view'.leads = view.org
    PROVE  Inv'
<1>1. /\ Shape /\ Scalars /\ calls \in [AllCalls -> CallSet] /\ DOMAIN calls = AllCalls
      /\ UNCHANGED <<members, rows, cookie, status, me, route, form, crossed>>
  BY DEF Inv, Shape, session
<1>2. cookie \in Sids \cup {Null} /\ Null \in Answers
  BY <1>1 DEF Scalars, Answers
<1>3. ASSUME NEW c \in Tenant
      PROVE  LET n == Call(c, cookie, Null)
             IN  /\ n \in CallSet /\ n.kind = c /\ n.token = cookie /\ Fits(n.kind, n.at)
                 /\ n.at = "resolve"
  <2>1. c # "login" /\ c # "logout"
    BY DEF Tenant
  <2> QED
    BY <1>2, <2>1, CallTyped
<1>4. \A c \in Tenant : calls'[c] \in {Call(c, cookie, Null), Idle}
  BY <1>1 DEF AllCalls
<1>5. \A c \in Lanes : calls'[c] = calls[c]
  BY <1>1, Places DEF AllCalls
<1>6. Shape'
  <2>1. calls' \in [AllCalls -> CallSet]
    BY <1>1, <1>3, IdleTyped
  <2>2. Scalars'
    BY <1>1 DEF Scalars
  <2>3. ASSUME NEW c \in Tenant
        PROVE  Fits(calls'[c].kind, calls'[c].at) /\ calls'[c].kind \in {"none", c}
    BY <1>3, <1>4, IdleTyped
  <2>4. \A c \in AllCalls : Fits(calls'[c].kind, calls'[c].at)
    BY <1>1, <1>5, <2>3 DEF Shape, AllCalls
  <2> QED
    BY <1>1, <1>5, <2>1, <2>2, <2>3, <2>4 DEF Shape
<1>7. \A c \in Tenant : calls'[c].at \in {"idle", "resolve"}
  BY <1>3, <1>4, IdleTyped
<1>8. Checked' /\ Mounted'
  BY <1>1, <1>7 DEF Inv, Checked, Mounted
<1>9. ASSUME ~crossed
      PROVE  /\ Apart' /\ Sensible' /\ AnswersAgree'
             /\ ~Switching' => RowAgrees' /\ PageAgrees'
  <2>1. Apart /\ Sensible /\ AnswersAgree /\ (~Switching => RowAgrees /\ PageAgrees)
    BY <1>9 DEF Inv, Agrees
  <2>2. Apart' /\ AnswersAgree'
    BY <1>1, <1>5, <2>1 DEF Apart, AnswersAgree, Busy
  <2>3. Sensible'
    <3>1. ASSUME NEW c \in Tenant, Busy(c)' PROVE calls'[c].token = cookie
      BY <1>3, <1>4, <3>1, IdleTyped DEF Busy
    <3> QED
      BY <1>1, <1>5, <2>1, <3>1 DEF Sensible
  <2>4. (Switching => Switching') /\ (RowAgrees => RowAgrees')
    BY <1>1, <1>5 DEF Switching, RowAgrees
  <2>5. PageAgrees => PageAgrees'
    BY <1>7 DEF PageAgrees
  <2> QED
    BY <2>1, <2>2, <2>3, <2>4, <2>5
<1> QED
  BY <1>1, <1>6, <1>8, <1>9 DEF Inv, Agrees

LEMMA LoadsKeep ==
    ASSUME Inv, LoadDone \/ LoadFailed \/ Retry \/ OpenPage
    PROVE  Inv'
<1>1. /\ Shape /\ Scalars /\ calls \in [AllCalls -> CallSet]
      /\ view \in [org : Answers, phase : {"none", "loading", "ready", "error"},
                   jobs : Answers, leads : Answers]
      /\ view.phase # "none" => view.org # Null
  BY DEF Inv, Shape, Scalars, Mounted, NoView
<1>2. CASE LoadDone
  <2> DEFINE j == calls["jobs"].org
             l == calls["leads"].org
             w == [view EXCEPT !.phase = "ready", !.jobs = j, !.leads = l]
  <2>1. j \in Answers /\ l \in Answers
    BY <1>1 DEF AllCalls, Tenant, CallSet
  <2>2. PageAgrees => j = view.org /\ l = view.org
    BY <1>2 DEF LoadDone, PageAgrees, Tenant
  <2>3. view' = w /\ EndLoad /\ UNCHANGED session /\ view.phase = "loading"
    BY <1>2 DEF LoadDone
  <2> HIDE DEF j, l
  <2>4. /\ view' \in [org : Answers, phase : {"none", "loading", "ready", "error"},
                      jobs : Answers, leads : Answers]
        /\ view'.org = view.org /\ view'.jobs = j /\ view'.leads = l
    BY <1>1, <2>1, <2>3
  <2>5. calls' = [c \in DOMAIN calls |->
                    IF c \in Tenant THEN IF FALSE THEN Call(c, cookie, Null) ELSE Idle ELSE calls[c]]
    BY <2>3 DEF EndLoad
  <2> HIDE DEF w
  <2> QED
    BY <1>1, <2>2, <2>3, <2>4, <2>5, LoadKeeps
<1>3. CASE LoadFailed
  <2>1. view' = [view EXCEPT !.phase = "error"] /\ EndLoad /\ UNCHANGED session
        /\ view.phase = "loading"
    BY <1>3 DEF LoadFailed
  <2>2. /\ view' \in [org : Answers, phase : {"none", "loading", "ready", "error"},
                      jobs : Answers, leads : Answers]
        /\ view'.org = view.org /\ view'.phase = "error"
    BY <1>1, <2>1
  <2>3. calls' = [c \in DOMAIN calls |->
                    IF c \in Tenant THEN IF FALSE THEN Call(c, cookie, Null) ELSE Idle ELSE calls[c]]
    BY <2>1 DEF EndLoad
  <2> QED
    BY <1>1, <2>1, <2>2, <2>3, LoadKeeps
<1>4. CASE Retry \/ OpenPage
  <2>1. view' = Loading(view.org) /\ SendLoad /\ UNCHANGED session /\ view.phase # "none"
    BY <1>4 DEF Retry, OpenPage
  <2>2. /\ view' \in [org : Answers, phase : {"none", "loading", "ready", "error"},
                      jobs : Answers, leads : Answers]
        /\ view'.org = view.org /\ view'.phase = "loading"
    BY <1>1, <2>1 DEF Loading, NoView, Answers
  <2>3. calls' = [c \in DOMAIN calls |->
                    IF c \in Tenant THEN IF TRUE THEN Call(c, cookie, Null) ELSE Idle ELSE calls[c]]
    BY <2>1 DEF SendLoad
  <2> QED
    BY <1>1, <2>1, <2>2, <2>3, LoadKeeps
<1> QED
  BY <1>2, <1>3, <1>4

LEMMA ExpireKeeps ==
    ASSUME Inv, NEW s \in Sids, Expire(s)
    PROVE  Inv'
<1>1. /\ rows' = [rows EXCEPT ![s] = NoRow]
      /\ UNCHANGED <<members, calls, cookie, status, me, route, form, view, crossed>>
  BY DEF Expire, browser
<1>2. Shape /\ Scalars /\ rows \in [Sids -> [live : BOOLEAN, org : Answers]]
  BY DEF Inv, Shape, Scalars
<1>3. NoRow \in [live : BOOLEAN, org : Answers] /\ ~NoRow.live
  BY DEF NoRow, Answers
<1>4. rows' \in [Sids -> [live : BOOLEAN, org : Answers]]
  BY <1>1, <1>2, <1>3
<1>5. ASSUME NEW t \in Sids \cup {Null}, RowIn(rows', t).live
      PROVE  RowIn(rows', t) = RowIn(rows, t)
  BY <1>1, <1>2, <1>3, <1>5 DEF RowIn
<1>6. Shape' /\ Checked' /\ Mounted'
  BY <1>1, <1>2, <1>4 DEF Inv, Shape, Scalars, Checked, Mounted, Scope
<1>7. AnswersAgree => AnswersAgree'
  <2>1. \A c \in Lanes : calls[c].token \in Sids \cup {Null}
    BY <1>2 DEF Shape, CallSet, AllCalls
  <2> QED
    BY <1>1, <1>5, <2>1 DEF AnswersAgree
<1>8. RowAgrees => RowAgrees'
  BY <1>1, <1>2, <1>5 DEF RowAgrees, Scalars
<1>9. /\ (Apart => Apart') /\ (Sensible => Sensible') /\ (PageAgrees => PageAgrees')
      /\ (Switching => Switching')
  BY <1>1 DEF Apart, Sensible, PageAgrees, Switching, Busy
<1> QED
  BY <1>1, <1>6, <1>7, <1>8, <1>9 DEF Inv, Agrees

LEMMA RevokeKeeps ==
    ASSUME Inv, NEW o \in Orgs, Revoke(o)
    PROVE  Inv'
<1>1. /\ members' = members \ {o}
      /\ UNCHANGED <<rows, cookie, status, me, route, form, view, crossed>>
  BY DEF Revoke, browser
<1>2. Shape /\ Scalars /\ calls \in [AllCalls -> CallSet]
  BY DEF Inv, Shape
<1> DEFINE e(c) == calls[c].excused \/ (c \in Tenant /\ calls[c].at # "idle")
<1>3. calls' = [c \in AllCalls |-> [calls[c] EXCEPT !.excused = e(c)]]
  BY <1>2 DEF Revoke
<1>4. \A c \in AllCalls : e(c) \in BOOLEAN
  BY <1>2 DEF CallSet
<1>5. \A c \in Tenant : calls[c].at # "idle" => e(c)
  OBVIOUS
<1> HIDE DEF e
<1>6. ASSUME NEW c \in AllCalls
      PROVE  LET n == calls'[c]
             IN  /\ n \in CallSet /\ n.kind = calls[c].kind /\ n.at = calls[c].at
                 /\ n.token = calls[c].token /\ n.org = calls[c].org /\ n.heard = calls[c].heard
                 /\ n.excused = e(c)
  BY <1>2, <1>3, <1>4 DEF CallSet
<1>7. calls' \in [AllCalls -> CallSet]
  BY <1>3, <1>6
<1>8. Shape'
  <2>1. Scalars'
    BY <1>1, <1>2 DEF Scalars
  <2> QED
    BY <1>2, <1>6, <1>7, <2>1 DEF Shape, AllCalls
<1>9. Checked'
  BY <1>5, <1>6 DEF Checked, AllCalls
<1>10. Mounted'
  BY <1>1, <1>6 DEF Inv, Mounted, AllCalls
<1>11. /\ (Apart => Apart') /\ (Sensible => Sensible') /\ (PageAgrees => PageAgrees')
       /\ (Switching => Switching')
  <2>1. Apart => Apart'
    BY <1>6 DEF Apart, Busy, AllCalls
  <2>2. Sensible => Sensible'
    BY <1>1, <1>6 DEF Sensible, Busy, AllCalls
  <2>3. PageAgrees => PageAgrees'
    BY <1>1, <1>6 DEF PageAgrees, AllCalls
  <2>4. Switching => Switching'
    BY <1>6 DEF Switching, AllCalls
  <2> QED
    BY <2>1, <2>2, <2>3, <2>4
<1>12. (AnswersAgree => AnswersAgree') /\ (RowAgrees => RowAgrees')
  BY <1>1, <1>6 DEF AnswersAgree, RowAgrees, AllCalls
<1> QED
  BY <1>1, <1>8, <1>9, <1>10, <1>11, <1>12 DEF Inv, Agrees

-----------------------------------------------------------------------------
(* Every step.                                                             *)

LEMMA CallsKeep ==
    ASSUME Inv, NEW c \in Lanes,
           \/ SignIn(c) \/ SignOut(c) \/ RefreshMe(c)
           \/ \E o \in Orgs : Pick(c, o) \/ SelectOrg(c, o)
    PROVE  Inv'
<1>1. Null \in Answers /\ \A o \in Orgs : o \in Answers
  BY DEF Answers
<1>2. form \in {Null, "error"} \cup Lanes
  BY DEF Inv, Shape, Scalars
<1>3. CASE SignIn(c)
  <2>1. CurrentScreen = "signin" /\ Send(c, "login", Null) /\ form' = c
    BY <1>3 DEF SignIn
  <2>2. status = "anon"
    BY <2>1 DEF CurrentScreen, Screen
  <2> QED
    BY <1>1, <2>1, <2>2, SendKeeps
<1>4. CASE SignOut(c)
  BY <1>1, <1>2, <1>4, SendKeeps DEF SignOut
<1>5. CASE RefreshMe(c)
  BY <1>1, <1>2, <1>5, SendKeeps DEF RefreshMe
<1>6. ASSUME NEW o \in Orgs, Pick(c, o) PROVE Inv'
  <2>1. CurrentScreen = "picker" /\ Send(c, "switch", o) /\ form' = c
    BY <1>6 DEF Pick
  <2>2. me.org = Null
    BY <2>1 DEF CurrentScreen, Screen
  <2> QED
    BY <1>1, <2>1, <2>2, SendKeeps
<1>7. ASSUME NEW o \in Orgs, SelectOrg(c, o) PROVE Inv'
  <2>1. o # me.org /\ Send(c, "switch", o) /\ form' = form
    BY <1>7 DEF SelectOrg
  <2> QED
    BY <1>1, <1>2, <2>1, SendKeeps
<1> QED
  BY <1>3, <1>4, <1>5, <1>6, <1>7

LEMMA StutterKeeps == ASSUME Inv, UNCHANGED vars PROVE Inv'
<1>1. UNCHANGED <<members, rows, calls, cookie, status, me, route, form, view, crossed>>
  BY DEF vars
<1>2. Shape' /\ Checked' /\ Mounted'
  BY <1>1 DEF Inv, Shape, Scalars, Checked, Mounted, Scope
<1>3. Agrees'
  BY <1>1 DEF Inv, Agrees, Apart, Sensible, AnswersAgree, Switching, RowAgrees, PageAgrees, Busy
<1> QED
  BY <1>2, <1>3 DEF Inv

LEMMA Inductive == ASSUME Inv, [Next]_vars PROVE Inv'
<1>1. CASE UNCHANGED vars
  BY <1>1, StutterKeeps
<1>2. ASSUME NEW c \in AllCalls, Serve(c) PROVE Inv'
  <2>1. PICK r : Served(c, r)
    BY <1>2, ServeDoes DEF Inv
  <2> QED
    BY <2>1, ServedKeeps
<1>3. ASSUME NEW c \in Lanes, Hear(c) PROVE Inv'
  <2>1. PICK st, m, token, rest : Heard(c, st, m, token, rest)
    BY <1>3, HearDoes DEF Inv
  <2>2. form' \in {Null, "error"} \cup Lanes
    BY <1>3, FormTyped DEF Inv
  <2> QED
    BY <2>1, <2>2, HeardKeeps
<1>4. ASSUME NEW c \in Lanes, Unheard(c) PROVE Inv'
  BY <1>4, UnheardKeeps
<1>5. ASSUME NEW c \in Lanes,
             \/ SignIn(c) \/ SignOut(c) \/ RefreshMe(c)
             \/ \E o \in Orgs : Pick(c, o) \/ SelectOrg(c, o)
      PROVE  Inv'
  BY <1>5, CallsKeep
<1>6. ASSUME NEW c \in Lanes, Reload(c) PROVE Inv'
  BY <1>6, ReloadKeeps
<1>7. CASE GateToApp
  BY <1>7, GateKeeps DEF GateToApp
<1>8. CASE GateToLogin
  BY <1>8, GateKeeps DEF GateToLogin
<1>9. CASE LoadDone \/ LoadFailed \/ Retry \/ OpenPage
  BY <1>9, LoadsKeep
<1>10. ASSUME NEW s \in Sids, Expire(s) PROVE Inv'
  BY <1>10, ExpireKeeps
<1>11. ASSUME NEW o \in Orgs, Revoke(o) PROVE Inv'
  BY <1>11, RevokeKeeps
<1> QED
  BY <1>1, <1>2, <1>3, <1>4, <1>5, <1>6, <1>7, <1>8, <1>9, <1>10, <1>11 DEF Next, AllCalls

\* The invariant, in every reachable state.
THEOREM Invariant == Spec => []Inv
BY Starts, Inductive, PTL DEF Spec

\* The types of the variables.
THEOREM TypeCorrect == Spec => []TypeOK
<1>1. Inv => TypeOK
  BY Typed DEF Inv
<1> QED
  BY Invariant, <1>1, PTL

\* What a tenant route answers is of an organization the user is a member of, unless the
\* membership was revoked while the call was on its way (session.ts, requireContext).
THEOREM RevokedCorrect == Spec => []RevokedMeansNoData
<1>1. Inv => RevokedMeansNoData
  BY Promises
<1> QED
  BY Invariant, <1>1, PTL

\* A page shows the jobs and leads of the organization that heads it, as long as no switch is
\* on its way and the calls that change the session have come one at a time (OrgScope.tsx).
THEOREM ShownAlwaysBelongs == Spec => []ShownBelongs
<1>1. Inv => ShownBelongs
  BY Promises
<1> QED
  BY Invariant, <1>1, PTL

LEMMA OnlyLoginRevives ==
    ASSUME Inv, [Next]_vars, NEW s \in Sids, ~rows[s].live, rows'[s].live
    PROVE  \E c \in Lanes : calls[c].at = "insert"
<1>1. Shape /\ rows \in [Sids -> [live : BOOLEAN, org : Answers]]
  BY DEF Inv, Shape, Scalars
<1>2. ASSUME UNCHANGED rows PROVE FALSE
  BY <1>2
<1>3. ASSUME NEW c \in AllCalls, Serve(c) PROVE c \in Lanes /\ calls[c].at = "insert"
  <2>1. PICK r : Served(c, r)
    BY <1>1, <1>3, ServeDoes
  <2>2. CASE UNCHANGED rows
    BY <1>2, <2>2
  <2>3. CASE rows' = [rows EXCEPT ![calls[c].token] = WithOrg(calls[c].token, calls[c].org)]
    <3>1. WithOrg(s, calls[c].org) = rows[s]
      BY DEF WithOrg
    <3> QED
      BY <1>1, <2>3, <3>1
  <2>4. CASE rows' = IF calls[c].token = Null THEN rows ELSE [rows EXCEPT ![calls[c].token] = NoRow]
    BY <1>1, <2>4 DEF NoRow
  <2>5. CASE calls[c].at = "insert"
    <3>1. c \notin Tenant
      BY <1>1, <2>5, Places DEF Shape, Fits, AllCalls, Tenant, Reading
    <3> QED
      BY <2>5, <3>1 DEF AllCalls
  <2> QED
    BY <2>1, <2>2, <2>3, <2>4, <2>5 DEF Served
<1>4. ASSUME NEW c \in Lanes, Hear(c) PROVE FALSE
  BY <1>2, <1>4 DEF Hear, Hydrated, Refreshed, SignedIn, Switched, SignedOut, server
<1>5. ASSUME NEW c \in Lanes,
             \/ Unheard(c) \/ Reload(c) \/ SignIn(c) \/ SignOut(c) \/ RefreshMe(c)
             \/ \E o \in Orgs : Pick(c, o) \/ SelectOrg(c, o)
      PROVE  FALSE
  BY <1>2, <1>5
  DEF Unheard, Reload, SignIn, SignOut, RefreshMe, Pick, SelectOrg, Send, server
<1>6. ASSUME GateToApp \/ GateToLogin PROVE FALSE
  BY <1>2, <1>6 DEF GateToApp, GateToLogin, server
<1>7. ASSUME LoadDone \/ LoadFailed \/ Retry \/ OpenPage PROVE FALSE
  BY <1>2, <1>7 DEF LoadDone, LoadFailed, Retry, OpenPage, session
<1>8. ASSUME NEW t \in Sids, Expire(t) PROVE FALSE
  BY <1>1, <1>8 DEF Expire, NoRow
<1>9. ASSUME NEW o \in Orgs, Revoke(o) PROVE FALSE
  BY <1>2, <1>9 DEF Revoke
<1>10. ASSUME UNCHANGED vars PROVE FALSE
  BY <1>2, <1>10 DEF vars
<1> QED
  BY <1>3, <1>4, <1>5, <1>6, <1>7, <1>8, <1>9, <1>10 DEF Next, AllCalls

\* Only a login brings a session to life: one that has ended stays ended, whatever a switch had
\* found before (sessions.ts, setSessionActiveOrg).
THEOREM SessionsAlwaysByLogin == Spec => SessionsByLogin
<1>1. Inv /\ [Next]_vars =>
          [\A s \in Sids : ~rows[s].live /\ rows'[s].live => \E c \in Lanes : calls[c].at = "insert"]_vars
  BY OnlyLoginRevives
<1> QED
  BY Invariant, <1>1, PTL DEF Spec, SessionsByLogin

=============================================================================
