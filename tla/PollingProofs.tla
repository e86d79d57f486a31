--------------------------- MODULE PollingProofs ---------------------------
(***************************************************************************)
(* What one mounted hook keeps to, for any endpoint: lemmas that a module  *)
(* with polls instantiates for each of them.                               *)
(*                                                                         *)
(* PollInv says who owns a chain at every point of the hook's life: one    *)
(* chain of a page on screen is the current one, whatever else is alive    *)
(* was aborted before it was sent and is waiting to notice, and of a page  *)
(* that was left nothing goes on.                                          *)
(***************************************************************************)
EXTENDS Polling, TLAPS

Current == poll.chains[poll.current]

\* The effect has run once, and its first request has got nowhere yet.
FreshInv ==
    poll.mounted = "fresh" =>
        /\ poll.current = 1 /\ poll.chains[1] = Requesting /\ poll.chains[2] = Off
        /\ ~poll.parked

\* On screen one chain goes on, below the limit of failures and only while not parked; the
\* other is over, or a request that was aborted.
OnScreenInv ==
    poll.mounted = "yes" =>
        /\ ~poll.cancelled
        /\ ~Current.aborted
        /\ Current.at # "off" => poll.backoff <= MaxBackoff /\ ~poll.parked
        /\ \A i \in Chains :
            i # poll.current =>
                poll.chains[i].at = "off" \/ (poll.chains[i].at = "request" /\ poll.chains[i].aborted)

\* Of a page that was left no chain goes on.
LeftInv ==
    poll.mounted = "left" =>
        /\ poll.cancelled
        /\ \A i \in Chains :
            Active(i) => poll.chains[i].aborted /\ poll.chains[i].at # "timer"

PollInv ==
    /\ poll \in Polls
    /\ poll.mounted = "no" => poll = NotMounted
    /\ FreshInv /\ OnScreenInv /\ LeftInv

\* A terminal answer is on show only where the chain has ended for it.
EndInv ==
    poll.data \in Terminal => poll.mounted = "yes" /\ Current.at = "off" /\ ~poll.parked

\* A step of the hook.
PollStep ==
    \/ Mount \/ Remount \/ Unmount \/ Retry
    \/ \E i \in Chains : Chain(i)

-----------------------------------------------------------------------------

LEMMA PollFields ==
    ASSUME poll \in Polls
    PROVE  /\ poll.chains \in [Chains -> [at : ChainStates, answer : Answers \cup {Null}, aborted : BOOLEAN]]
           /\ poll.current \in Chains /\ poll.backoff \in 0..(MaxBackoff + 1)
           /\ poll.mounted \in {"no", "fresh", "yes", "left"}
BY DEF Polls

LEMMA OffTyped ==
    /\ Off \in [at : ChainStates, answer : Answers \cup {Null}, aborted : BOOLEAN]
    /\ Requesting \in [at : ChainStates, answer : Answers \cup {Null}, aborted : BOOLEAN]
    /\ Off.at = "off" /\ ~Off.aborted
    /\ Requesting.at = "request" /\ ~Requesting.aborted
BY DEF Off, Requesting, ChainStates

LEMMA ZeroBackoff ==
    ASSUME MaxBackoff \in Nat
    PROVE  0 \in 0..(MaxBackoff + 1)
OBVIOUS

LEMMA PollStart ==
    ASSUME MaxBackoff \in Nat, PollInit
    PROVE  PollInv /\ (Null \notin Terminal => EndInv)
<1>1. poll \in Polls
  BY DEF PollInit, NotMounted, Polls, Chains, Off, ChainStates
<1>2. poll.mounted = "no" /\ poll.data = Null
  BY DEF PollInit, NotMounted
<1> QED
  BY <1>1, <1>2 DEF PollInit, PollInv, EndInv, FreshInv, OnScreenInv, LeftInv

\* The effect puts chain i in front, and touches no other.
LEMMA StartedFields ==
    ASSUME MaxBackoff \in Nat, NEW p \in Polls, NEW i \in Chains
    PROVE  LET s == Started(p, i)
           IN  /\ s \in Polls
               /\ s.mounted = p.mounted /\ s.current = i /\ ~s.cancelled /\ s.backoff = 0
               /\ s.data = Null /\ s.phase = "loading" /\ ~s.parked
               /\ s.chains[i] = Requesting /\ \A j \in Chains \ {i} : s.chains[j] = p.chains[j]
<1> DEFINE ch == [p.chains EXCEPT ![i] = Requesting]
           s == [p EXCEPT !.chains = ch, !.current = i, !.cancelled = FALSE, !.backoff = 0,
                          !.data = Null, !.phase = "loading", !.parked = FALSE]
<1>1. Started(p, i) = s
  BY DEF Started
<1>2. /\ ch \in [Chains -> [at : ChainStates, answer : Answers \cup {Null}, aborted : BOOLEAN]]
      /\ ch[i] = Requesting /\ \A j \in Chains \ {i} : ch[j] = p.chains[j]
  BY OffTyped DEF Polls
<1> HIDE DEF ch
<1>3. /\ s \in Polls
      /\ s.mounted = p.mounted /\ s.current = i /\ ~s.cancelled /\ s.backoff = 0
      /\ s.data = Null /\ s.phase = "loading" /\ ~s.parked /\ s.chains = ch
  BY <1>2, ZeroBackoff DEF Polls
<1> HIDE DEF s
<1> QED
  BY <1>1, <1>2, <1>3

\* The cleanup cancels the current chain's timer, or aborts its request.
LEMMA CleanedUpFields ==
    ASSUME NEW p \in Polls
    PROVE  LET s == CleanedUp(p)
               c == s.chains[p.current]
           IN  /\ s \in Polls
               /\ s.mounted = p.mounted /\ s.current = p.current /\ s.cancelled
               /\ s.backoff = p.backoff /\ s.data = p.data /\ s.phase = p.phase
               /\ s.parked = p.parked
               /\ IF p.chains[p.current].at = "timer" THEN c = Off
                  ELSE c.at = p.chains[p.current].at /\ c.aborted
               /\ \A j \in Chains \ {p.current} : s.chains[j] = p.chains[j]
<1> DEFINE i == p.current
           old == p.chains[i]
           c == IF old.at = "timer" THEN Off ELSE [old EXCEPT !.aborted = TRUE]
           ch == [p.chains EXCEPT ![i] = c]
           s == [p EXCEPT !.cancelled = TRUE, !.chains = ch]
<1>1. CleanedUp(p) = s
  BY DEF CleanedUp
<1>2. i \in Chains /\ old \in [at : ChainStates, answer : Answers \cup {Null}, aborted : BOOLEAN]
  BY DEF Polls
<1>3. /\ c \in [at : ChainStates, answer : Answers \cup {Null}, aborted : BOOLEAN]
      /\ IF old.at = "timer" THEN c = Off ELSE c.at = old.at /\ c.aborted
  BY <1>2, OffTyped
<1> HIDE DEF c
<1>4. /\ ch \in [Chains -> [at : ChainStates, answer : Answers \cup {Null}, aborted : BOOLEAN]]
      /\ ch[i] = c /\ \A j \in Chains \ {i} : ch[j] = p.chains[j]
  BY <1>2, <1>3 DEF Polls
<1> HIDE DEF ch
<1>5. /\ s \in Polls
      /\ s.mounted = p.mounted /\ s.current = p.current /\ s.cancelled
      /\ s.backoff = p.backoff /\ s.data = p.data /\ s.phase = p.phase
      /\ s.parked = p.parked /\ s.chains = ch
  BY <1>4 DEF Polls
<1> HIDE DEF s
<1> QED
  BY <1>1, <1>3, <1>4, <1>5

LEMMA MountStep ==
    ASSUME MaxBackoff \in Nat, PollInv, Mount
    PROVE  PollInv' /\ poll'.data = Null
<1> DEFINE m == IF StrictMode THEN "fresh" ELSE "yes"
           s == Started(poll, 1)
           r == [s EXCEPT !.mounted = m]
<1>1. m \in {"fresh", "yes"} /\ poll = NotMounted /\ poll \in Polls
  BY DEF Mount, PollInv
<1>2. poll.chains[2] = Off
  BY <1>1 DEF NotMounted, Chains
<1>3. /\ s \in Polls /\ s.current = 1 /\ ~s.cancelled /\ s.backoff = 0 /\ s.data = Null
      /\ ~s.parked /\ s.chains[1] = Requesting /\ s.chains[2] = Off
  BY <1>1, <1>2, StartedFields DEF Chains
<1> HIDE DEF m, s
<1>4. /\ r \in Polls /\ r.mounted = m /\ r.current = 1 /\ ~r.cancelled /\ r.backoff = 0
      /\ r.data = Null /\ ~r.parked /\ r.chains[1] = Requesting /\ r.chains[2] = Off
  BY <1>1, <1>3 DEF Polls
<1>5. poll' = r
  BY DEF Mount, m, s
<1> HIDE DEF r
<1> QED
  BY <1>1, <1>4, <1>5, OffTyped
     DEF PollInv, FreshInv, OnScreenInv, LeftInv, Current, Chains

LEMMA RemountStep ==
    ASSUME MaxBackoff \in Nat, PollInv, Remount
    PROVE  PollInv' /\ poll'.data = Null
<1> DEFINE u == CleanedUp(poll)
           s == Started(u, 2)
           r == [s EXCEPT !.mounted = "yes"]
<1>1. /\ poll \in Polls /\ poll.current = 1 /\ poll.chains[1] = Requesting
  BY DEF Remount, PollInv, FreshInv
<1>2. u \in Polls /\ u.chains[1].at = "request" /\ u.chains[1].aborted
  BY <1>1, CleanedUpFields, OffTyped
<1> HIDE DEF u
<1>3. /\ s \in Polls /\ s.current = 2 /\ ~s.cancelled /\ s.backoff = 0 /\ s.data = Null
      /\ ~s.parked /\ s.chains[2] = Requesting /\ s.chains[1] = u.chains[1]
  BY <1>2, StartedFields DEF Chains
<1> HIDE DEF s
<1>4. /\ r \in Polls /\ r.mounted = "yes" /\ r.current = 2 /\ ~r.cancelled /\ r.backoff = 0
      /\ r.data = Null /\ ~r.parked /\ r.chains[2] = Requesting /\ r.chains[1] = u.chains[1]
  BY <1>3 DEF Polls
<1>5. poll' = r
  BY DEF Remount, s, u
<1> HIDE DEF r
<1> QED
  BY <1>2, <1>4, <1>5, OffTyped
     DEF PollInv, FreshInv, OnScreenInv, LeftInv, Current, Chains

LEMMA UnmountStep ==
    ASSUME MaxBackoff \in Nat, PollInv, Unmount
    PROVE  PollInv' /\ poll'.data = Null /\ poll'.mounted = "left"
<1> DEFINE s == CleanedUp(poll)
           i == poll.current
           r == [s EXCEPT !.mounted = "left", !.data = Null, !.phase = "loading",
                          !.backoff = 0, !.parked = FALSE]
<1>1. /\ poll \in Polls /\ i \in Chains /\ poll.mounted = "yes"
  BY DEF Unmount, PollInv, Polls
<1>2. /\ s \in Polls /\ s.cancelled
      /\ s.chains[i] = Off \/ (poll.chains[i].at # "timer" /\ s.chains[i].at = poll.chains[i].at /\ s.chains[i].aborted)
      /\ \A j \in Chains \ {i} : s.chains[j] = poll.chains[j]
  BY <1>1, CleanedUpFields
<1> HIDE DEF s
<1>3. /\ r \in Polls /\ r.mounted = "left" /\ r.cancelled /\ r.data = Null /\ r.chains = s.chains
  BY <1>1, <1>2, ZeroBackoff DEF Polls
<1>4. poll' = r
  BY DEF Unmount, s
<1> HIDE DEF r
<1>5. \A j \in Chains : s.chains[j].at # "off" => s.chains[j].aborted /\ s.chains[j].at # "timer"
  BY <1>1, <1>2, OffTyped DEF PollInv, OnScreenInv
<1> QED
  BY <1>1, <1>3, <1>4, <1>5
     DEF PollInv, FreshInv, OnScreenInv, LeftInv, Active

-----------------------------------------------------------------------------

LEMMA ChainReplaced ==
    ASSUME NEW p \in Polls, NEW i \in Chains,
           NEW c \in [at : ChainStates, answer : Answers \cup {Null}, aborted : BOOLEAN]
    PROVE  LET s == [p EXCEPT !.chains[i] = c]
           IN  /\ s \in Polls
               /\ s.mounted = p.mounted /\ s.current = p.current /\ s.cancelled = p.cancelled
               /\ s.backoff = p.backoff /\ s.data = p.data /\ s.phase = p.phase
               /\ s.parked = p.parked
               /\ s.chains[i] = c /\ \A j \in Chains \ {i} : s.chains[j] = p.chains[j]
<1> DEFINE ch == [p.chains EXCEPT ![i] = c]
           s == [p EXCEPT !.chains = ch]
<1>1. /\ ch \in [Chains -> [at : ChainStates, answer : Answers \cup {Null}, aborted : BOOLEAN]]
      /\ ch[i] = c /\ \A j \in Chains \ {i} : ch[j] = p.chains[j]
  BY DEF Polls
<1>2. s = [p EXCEPT !.chains[i] = c]
  OBVIOUS
<1> HIDE DEF ch
<1>3. /\ s \in Polls
      /\ s.mounted = p.mounted /\ s.current = p.current /\ s.cancelled = p.cancelled
      /\ s.backoff = p.backoff /\ s.data = p.data /\ s.phase = p.phase
      /\ s.parked = p.parked /\ s.chains = ch
  BY <1>1 DEF Polls
<1> HIDE DEF s
<1> QED
  BY <1>1, <1>2, <1>3

\* A chain that ends leaves the rest as it was.
LEMMA ChainOver ==
    ASSUME PollInv, NEW i \in Chains, poll.chains[i].at # "off", poll.mounted # "fresh",
           poll' = [poll EXCEPT !.chains[i] = Off]
    PROVE  /\ PollInv'
           /\ poll'.data = poll.data /\ poll'.mounted = poll.mounted
           /\ EndInv => EndInv'
<1>1. poll \in Polls /\ poll.current \in Chains
  BY DEF PollInv, Polls
<1>2. poll.mounted # "no"
  BY DEF PollInv, NotMounted, Off, Chains
<1>3. /\ poll' \in Polls
      /\ poll'.mounted = poll.mounted /\ poll'.current = poll.current
      /\ poll'.cancelled = poll.cancelled /\ poll'.backoff = poll.backoff
      /\ poll'.data = poll.data /\ poll'.parked = poll.parked
      /\ poll'.chains[i] = Off /\ \A j \in Chains \ {i} : poll'.chains[j] = poll.chains[j]
  BY <1>1, ChainReplaced, OffTyped
<1>4. PollInv'
  BY <1>1, <1>2, <1>3, OffTyped DEF PollInv, FreshInv, OnScreenInv, LeftInv, Current, Active
<1>5. EndInv => EndInv'
  BY <1>1, <1>3, OffTyped DEF EndInv, Current
<1> QED
  BY <1>3, <1>4, <1>5

LEMMA RetryStep ==
    ASSUME MaxBackoff \in Nat, PollInv, Retry
    PROVE  PollInv' /\ poll'.data = poll.data /\ (EndInv => EndInv')
<1> DEFINE i == poll.current
           s == [poll EXCEPT !.chains[i] = Requesting]
           r == [s EXCEPT !.backoff = 0, !.parked = FALSE, !.phase = "loading"]
<1>1. poll \in Polls /\ i \in Chains /\ poll.mounted = "yes" /\ poll.parked
  BY DEF Retry, PollInv, Polls, OnPage, FreshInv
<1>2. /\ s \in Polls
      /\ s.mounted = poll.mounted /\ s.current = i /\ s.cancelled = poll.cancelled
      /\ s.data = poll.data
      /\ s.chains[i] = Requesting /\ \A j \in Chains \ {i} : s.chains[j] = poll.chains[j]
  BY <1>1, ChainReplaced, OffTyped
<1>3. poll' = r
  BY DEF Retry
<1> HIDE DEF s
<1>4. /\ r \in Polls /\ r.mounted = "yes" /\ r.current = i /\ r.cancelled = poll.cancelled
      /\ r.data = poll.data /\ r.backoff = 0 /\ ~r.parked /\ r.chains = s.chains
  BY <1>1, <1>2, ZeroBackoff DEF Polls
<1> HIDE DEF r
<1> QED
  BY <1>1, <1>2, <1>3, <1>4, OffTyped
     DEF PollInv, FreshInv, OnScreenInv, LeftInv, Current, EndInv

\* On a page that is on screen, what goes on is the current chain.
LEMMA OnlyCurrent ==
    ASSUME PollInv, NEW i \in Chains, poll.chains[i].at # "off",
           poll.mounted # "fresh",
           ~poll.chains[i].aborted \/ poll.chains[i].at # "request"
    PROVE  \/ poll.mounted = "yes" /\ i = poll.current /\ ~poll.chains[i].aborted
              /\ poll.backoff <= MaxBackoff /\ ~poll.parked /\ ~poll.cancelled
           \/ poll.mounted = "left" /\ poll.cancelled /\ poll.chains[i].aborted
              /\ poll.chains[i].at # "timer"
<1>1. poll \in Polls /\ poll.mounted \in {"no", "fresh", "yes", "left"}
  BY DEF PollInv, Polls
<1>2. poll.mounted # "no"
  BY DEF PollInv, NotMounted, Off, Chains
<1> QED
  BY <1>1, <1>2 DEF PollInv, OnScreenInv, LeftInv, Current, Active

LEMMA ReadStep ==
    ASSUME MaxBackoff \in Nat, source \in Answers, PollInv, NEW i \in Chains, Read(i)
    PROVE  PollInv' /\ poll'.data = poll.data /\ (EndInv => EndInv')
<1> DEFINE old == poll.chains[i]
           c == [old EXCEPT !.at = "body", !.answer = source]
<1>1. /\ poll \in Polls
      /\ poll.mounted = "yes" /\ i = poll.current
      /\ poll.backoff <= MaxBackoff /\ ~poll.parked
  BY OnlyCurrent DEF Read, PollInv
<1>2. old \in [at : ChainStates, answer : Answers \cup {Null}, aborted : BOOLEAN] /\ ~old.aborted
  BY <1>1 DEF Polls, Read
<1>3. poll' = [poll EXCEPT !.chains[i] = c]
  BY <1>1, <1>2 DEF Read, Polls
<1>4. /\ c \in [at : ChainStates, answer : Answers \cup {Null}, aborted : BOOLEAN]
      /\ c.at = "body" /\ ~c.aborted
  BY <1>2 DEF ChainStates
<1> HIDE DEF c
<1>5. /\ poll' \in Polls
      /\ poll'.mounted = poll.mounted /\ poll'.current = poll.current
      /\ poll'.cancelled = poll.cancelled /\ poll'.backoff = poll.backoff
      /\ poll'.data = poll.data /\ poll'.parked = poll.parked
      /\ poll'.chains[i] = c /\ \A j \in Chains \ {i} : poll'.chains[j] = poll.chains[j]
  BY <1>1, <1>3, <1>4, ChainReplaced
<1>6. EndInv => EndInv'
  BY <1>1, <1>5 DEF EndInv, Current, Read
<1> QED
  BY <1>1, <1>4, <1>5, <1>6 DEF PollInv, FreshInv, OnScreenInv, LeftInv, Current

LEMMA FireStep ==
    ASSUME MaxBackoff \in Nat, PollInv, NEW i \in Chains, Fire(i)
    PROVE  PollInv' /\ poll'.data = poll.data /\ (EndInv => EndInv')
<1>1. poll \in Polls /\ poll.chains[i].at = "timer"
  BY DEF Fire, PollInv
<1>2. poll.mounted # "fresh"
  BY <1>1, OffTyped DEF PollInv, FreshInv, Chains
<1>3. /\ poll.mounted = "yes" /\ i = poll.current /\ ~poll.chains[i].aborted
      /\ poll.backoff <= MaxBackoff /\ ~poll.parked /\ ~poll.cancelled
  BY <1>1, <1>2, OnlyCurrent
<1> DEFINE s == [poll EXCEPT !.chains[i] = Requesting]
           r == [s EXCEPT !.current = i]
<1>4. poll' = r
  BY <1>3 DEF Fire
<1>5. /\ s \in Polls
      /\ s.mounted = "yes" /\ s.cancelled = poll.cancelled
      /\ s.data = poll.data /\ s.backoff = poll.backoff /\ s.parked = poll.parked
      /\ s.chains[i] = Requesting /\ \A j \in Chains \ {i} : s.chains[j] = poll.chains[j]
  BY <1>1, <1>3, ChainReplaced, OffTyped
<1> HIDE DEF s
<1>6. /\ r \in Polls /\ r.mounted = "yes" /\ r.current = i /\ ~r.cancelled
      /\ r.data = poll.data /\ r.backoff = poll.backoff /\ ~r.parked /\ r.chains = s.chains
  BY <1>3, <1>5 DEF Polls
<1> HIDE DEF r
<1>7. EndInv => EndInv'
  BY <1>1, <1>3, <1>4, <1>6 DEF EndInv, Current
<1> QED
  BY <1>3, <1>4, <1>5, <1>6, <1>7, OffTyped DEF PollInv, FreshInv, OnScreenInv, LeftInv, Current

\* An answer comes to the current chain only: no terminal one is on show yet, and a terminal
\* one ends the chain.
LEMMA DeliverStep ==
    ASSUME MaxBackoff \in Nat, PollInv, NEW i \in Chains, Deliver(i)
    PROVE  /\ PollInv' /\ (EndInv => EndInv')
           /\ EndInv /\ poll.data \in Terminal => poll'.data = poll.data
<1> DEFINE answer == poll.chains[i].answer
<1>1. /\ poll \in Polls /\ poll.chains[i].at = "body" /\ ~poll.chains[i].aborted
      /\ answer \in Answers \cup {Null}
  BY DEF Deliver, PollInv, Polls
<1>2. poll.mounted # "fresh"
  BY <1>1, OffTyped DEF PollInv, FreshInv, Chains
<1>3. /\ poll.mounted = "yes" /\ i = poll.current
      /\ poll.backoff <= MaxBackoff /\ ~poll.parked /\ ~poll.cancelled
  BY <1>1, <1>2, OnlyCurrent
<1> DEFINE s == [poll EXCEPT !.backoff = 0, !.data = answer]
           waiting == [Off EXCEPT !.at = "timer"]
<1>4. /\ s \in Polls /\ s.mounted = "yes" /\ s.current = i /\ ~s.cancelled /\ s.backoff = 0
      /\ s.data = answer /\ ~s.parked /\ s.chains = poll.chains
  BY <1>1, <1>3, ZeroBackoff DEF Polls
<1>5. /\ waiting \in [at : ChainStates, answer : Answers \cup {Null}, aborted : BOOLEAN]
      /\ waiting.at = "timer" /\ ~waiting.aborted
  BY DEF Off, ChainStates
<1>6. poll' = IF answer \in Terminal
              THEN [s EXCEPT !.chains[i] = Off, !.phase = "stopped"]
              ELSE [s EXCEPT !.chains[i] = waiting, !.current = i, !.phase = "polling"]
  BY <1>3 DEF Deliver
<1> HIDE DEF s, waiting, answer
<1>7. CASE answer \in Terminal
  <2> DEFINE e == [s EXCEPT !.chains[i] = Off]
             r == [e EXCEPT !.phase = "stopped"]
  <2>1. poll' = r
    BY <1>6, <1>7
  <2>2. /\ e \in Polls /\ e.mounted = "yes" /\ e.current = i /\ ~e.cancelled /\ ~e.parked
        /\ e.data = answer
        /\ e.chains[i] = Off /\ \A j \in Chains \ {i} : e.chains[j] = poll.chains[j]
    BY <1>4, ChainReplaced, OffTyped
  <2> HIDE DEF e
  <2>3. /\ r \in Polls /\ r.mounted = "yes" /\ r.current = i /\ ~r.cancelled /\ ~r.parked
        /\ r.data = answer /\ r.chains = e.chains
    BY <2>2 DEF Polls
  <2> HIDE DEF r
  <2>4. EndInv' /\ PollInv'
    BY <1>3, <2>1, <2>2, <2>3, OffTyped
       DEF EndInv, PollInv, FreshInv, OnScreenInv, LeftInv, Current
  <2> QED
    BY <2>4, <1>1, <1>3 DEF EndInv, Current
<1>8. CASE answer \notin Terminal
  <2> DEFINE e == [s EXCEPT !.chains[i] = waiting]
             r == [e EXCEPT !.current = i, !.phase = "polling"]
  <2>1. poll' = r
    BY <1>6, <1>8
  <2>2. /\ e \in Polls /\ e.mounted = "yes" /\ e.current = i /\ ~e.cancelled /\ ~e.parked
        /\ e.data = answer /\ e.backoff = 0
        /\ e.chains[i] = waiting /\ \A j \in Chains \ {i} : e.chains[j] = poll.chains[j]
    BY <1>4, <1>5, ChainReplaced
  <2> HIDE DEF e
  <2>3. /\ r \in Polls /\ r.mounted = "yes" /\ r.current = i /\ ~r.cancelled /\ ~r.parked
        /\ r.data = answer /\ r.backoff = 0 /\ r.chains = e.chains
    BY <2>2 DEF Polls
  <2> HIDE DEF r
  <2>4. PollInv' /\ EndInv'
    BY <1>3, <1>5, <1>8, <2>1, <2>2, <2>3
       DEF EndInv, PollInv, FreshInv, OnScreenInv, LeftInv, Current
  <2> QED
    BY <2>4, <1>1, <1>3 DEF EndInv, Current
<1> QED
  BY <1>7, <1>8

LEMMA RejectStep ==
    ASSUME MaxBackoff \in Nat, PollInv, NEW i \in Chains, Reject(i)
    PROVE  PollInv' /\ poll'.data = poll.data /\ (EndInv => EndInv')
<1>1. /\ poll \in Polls /\ poll.mounted # "fresh" /\ poll.chains[i].at \in {"request", "body"}
  BY DEF Reject, PollInv
<1>2. CASE Ignored(i)
  <2>1. poll' = [poll EXCEPT !.chains[i] = Off]
    BY <1>2 DEF Reject
  <2> QED
    BY <1>1, <2>1, ChainOver
<1>3. CASE ~Ignored(i)
  <2>1. /\ poll.mounted = "yes" /\ i = poll.current
        /\ poll.backoff <= MaxBackoff /\ ~poll.parked /\ ~poll.cancelled
    BY <1>1, <1>3, OnlyCurrent DEF Ignored
  <2> DEFINE n == poll.backoff + 1
             gone == GivesUp(n)
             c == IF gone THEN Off ELSE [Off EXCEPT !.at = "timer"]
             f == [poll EXCEPT !.backoff = n, !.phase = "error", !.parked = gone]
             e == [f EXCEPT !.chains[i] = c]
             r == [e EXCEPT !.current = i]
  <2>2. n \in 0..(MaxBackoff + 1) /\ gone \in BOOLEAN /\ (~gone => n <= MaxBackoff)
    BY <1>1, <2>1 DEF GivesUp, Polls
  <2>3. /\ c \in [at : ChainStates, answer : Answers \cup {Null}, aborted : BOOLEAN]
        /\ c.at = (IF gone THEN "off" ELSE "timer") /\ ~c.aborted
    BY DEF Off, ChainStates
  <2> HIDE DEF n, gone
  <2>4. /\ f \in Polls /\ f.mounted = "yes" /\ f.current = i /\ ~f.cancelled /\ f.backoff = n
        /\ f.data = poll.data /\ f.parked = gone /\ f.chains = poll.chains
    BY <1>1, <2>1, <2>2 DEF Polls
  <2>5. poll' = IF gone THEN [f EXCEPT !.chains[i] = Off]
                ELSE [f EXCEPT !.chains[i] = [Off EXCEPT !.at = "timer"], !.current = i]
    BY <1>3 DEF Reject, n, gone
  <2> HIDE DEF f
  <2>6. poll' = IF gone THEN e ELSE r
    BY <2>5
  <2> HIDE DEF c
  <2>7. /\ e \in Polls /\ e.mounted = "yes" /\ e.current = i /\ ~e.cancelled /\ e.backoff = n
        /\ e.data = poll.data /\ e.parked = gone
        /\ e.chains[i] = c /\ \A j \in Chains \ {i} : e.chains[j] = poll.chains[j]
    BY <2>3, <2>4, ChainReplaced
  <2> HIDE DEF e
  <2>8. /\ r \in Polls /\ r.mounted = "yes" /\ r.current = i /\ ~r.cancelled /\ r.backoff = n
        /\ r.data = poll.data /\ r.parked = gone /\ r.chains = e.chains
    BY <2>7 DEF Polls
  <2> HIDE DEF r
  <2>9. EndInv => poll.data \notin Terminal
    BY <1>1, <2>1 DEF EndInv, Current
  <2>10. PollInv' /\ poll'.data = poll.data
    BY <2>1, <2>2, <2>3, <2>6, <2>7, <2>8
       DEF PollInv, FreshInv, OnScreenInv, LeftInv, Current
  <2> QED
    BY <2>9, <2>10 DEF EndInv
<1> QED
  BY <1>2, <1>3

-----------------------------------------------------------------------------

\* Every step of the hook keeps its invariant.
LEMMA PollKept ==
    ASSUME MaxBackoff \in Nat, source \in Answers, PollInv, PollStep \/ UNCHANGED poll
    PROVE  PollInv'
<1>1. CASE UNCHANGED poll
  BY <1>1 DEF PollInv, FreshInv, OnScreenInv, LeftInv, Current, Active
<1>2. CASE PollStep
  BY <1>2, MountStep, RemountStep, UnmountStep, RetryStep, ReadStep, DeliverStep, RejectStep,
     FireStep DEF PollStep, Chain
<1> QED
  BY <1>1, <1>2

\* A terminal answer stays on show until the page is left.
LEMMA EndKept ==
    ASSUME MaxBackoff \in Nat, source \in Answers, Null \notin Terminal,
           PollInv, EndInv, PollStep \/ UNCHANGED poll
    PROVE  /\ EndInv'
           /\ poll.data \in Terminal /\ poll'.mounted # "left" => poll'.data = poll.data
<1>1. CASE UNCHANGED poll
  BY <1>1 DEF EndInv, Current
<1>2. CASE Mount
  BY <1>2, MountStep DEF EndInv, Mount
<1>3. CASE Remount
  BY <1>3, RemountStep DEF EndInv, Remount
<1>4. CASE Unmount
  BY <1>4, UnmountStep DEF EndInv
<1>5. CASE Retry \/ \E i \in Chains : Chain(i)
  BY <1>5, RetryStep, ReadStep, DeliverStep, RejectStep, FireStep DEF Chain
<1> QED
  BY <1>1, <1>2, <1>3, <1>4, <1>5 DEF PollStep

\* "only one request runs at a time" (use-polling.ts:5).
LEMMA OneRequest ==
    ASSUME PollInv
    PROVE  OneRequestAtATime
<1>1. /\ poll \in Polls /\ poll.mounted \in {"no", "fresh", "yes", "left"}
      /\ poll.current \in Chains
  BY DEF PollInv, Polls
<1>2. CASE poll.mounted = "no"
  BY <1>2, OffTyped DEF PollInv, NotMounted, OneRequestAtATime, Active
<1>3. CASE poll.mounted = "fresh"
  BY <1>3, OffTyped DEF PollInv, FreshInv, OneRequestAtATime, Active, Chains
<1>4. CASE poll.mounted \in {"yes", "left"}
  BY <1>1, <1>4 DEF PollInv, OnScreenInv, LeftInv, OneRequestAtATime, Active
<1> QED
  BY <1>1, <1>2, <1>3, <1>4

=============================================================================
