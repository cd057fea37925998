-------------------------- MODULE MatchCallsProofs --------------------------
(***************************************************************************)
(* One client call by call (module MatchCalls), for every number of games, *)
(* searches and nested calls, whatever user code calls: how searches end,  *)
(* and how events fold into the steps of Matcher.                          *)
(*                                                                         *)
(* CallsInv says what the calls in progress remember of the current        *)
(* search, and how far each search has come; MapInv what they will do to   *)
(* the map; FoldInv what is left to do of an event in which user code made *)
(* no calls: Phase, one disjunct for each kind of call on top.             *)
(***************************************************************************)
EXTENDS MatchCalls, FiniteSetTheorems, SequenceTheorems, TLAPS

IsSeq(s) == \E S : s \in Seq(S)

Ids == [advertiser : Nodes, match : Games]

(* Call x is on top of the calls q.                                        *)
Cons(x, q) == <<x>> \o q

-----------------------------------------------------------------------------
(* Stacks                                                                  *)

(* Two calls and one are three.                                            *)
LEMMA TwoAndOne ==
  ASSUME NEW a, NEW b, NEW c
  PROVE  <<a, b>> \o <<c>> = <<a, b, c>>
<1> DEFINE s == <<a, b>> \o <<c>>
           t == <<a, b, c>>
           U == {a, b, c}
<1>1. s \in Seq(U) /\ t \in Seq(U) /\ Len(s) = 3 /\ Len(t) = 3
  OBVIOUS
<1>2. \A i \in 1..3 : s[i] = t[i]
  OBVIOUS
<1> HIDE DEF s, t
<1>3. s = t
  BY <1>1, <1>2, SeqEqual
<1> QED BY <1>3 DEF s, t

(* What is left when the top call is done.                                 *)
LEMMA Popped ==
  ASSUME NEW st, IsSeq(st), st # <<>>
  PROVE  /\ IsSeq(Tail(st)) /\ Len(st) \in Nat /\ Len(st) >= 1
         /\ Len(Tail(st)) = Len(st) - 1
         /\ \A j \in 1..(Len(st) - 1) : Tail(st)[j] = st[j + 1]
         /\ DOMAIN Tail(st) = 1..(Len(st) - 1)
         /\ DOMAIN st = 1..Len(st)
         /\ Head(st) = st[1]
<1>1. PICK S : st \in Seq(S)
  BY DEF IsSeq
<1>2. Tail(st) \in Seq(S) /\ Len(st) \in Nat /\ Len(st) >= 1
      /\ Len(Tail(st)) = Len(st) - 1
  BY <1>1
<1>3. \A j \in 1..(Len(st) - 1) : Tail(st)[j] = st[j + 1]
  BY <1>1
<1> QED BY <1>1, <1>2, <1>3 DEF IsSeq

(* Appending to a history keeps what it had.                               *)
LEMMA Appended ==
  ASSUME NEW s, IsSeq(s), NEW e
  PROVE  /\ IsSeq(Append(s, e))
         /\ Len(s) \in Nat /\ DOMAIN s = 1..Len(s)
         /\ DOMAIN Append(s, e) = 1..(Len(s) + 1)
         /\ \A i \in DOMAIN s : Append(s, e)[i] = s[i]
         /\ Append(s, e)[Len(s) + 1] = e
<1>1. PICK S : s \in Seq(S)
  BY DEF IsSeq
<1> DEFINE U == S \cup {e}
<1>2. s \in Seq(U)
  BY <1>1
<1>3. Append(s, e) \in Seq(U)
  BY <1>2
<1> QED BY <1>2, <1>3 DEF IsSeq

(* A stack is its top on what is under it.                                 *)
LEMMA TopOf ==
  ASSUME NEW x, NEW q, IsSeq(q)
  PROVE  /\ IsSeq(Cons(x, q)) /\ Cons(x, q) # <<>>
         /\ Head(Cons(x, q)) = x /\ Tail(Cons(x, q)) = q
         /\ Cons(x, q)[1] = x
<1>1. PICK S : q \in Seq(S)
  BY DEF IsSeq
<1> DEFINE U == S \cup {x}
           c == Cons(x, q)
<1>2. q \in Seq(U) /\ <<x>> \in Seq(U) /\ Len(<<x>>) = 1 /\ <<x>>[1] = x
  BY <1>1
<1>3. c \in Seq(U) /\ Len(c) = Len(q) + 1 /\ c[1] = x
      /\ \A j \in 1..Len(q) : c[j + 1] = q[j]
  BY <1>2 DEF Cons
<1>4. Len(q) \in Nat
  BY <1>2
<1> HIDE DEF c, U
<1>5. c # <<>> /\ Head(c) = x
  BY <1>3, <1>4
<1>6. Tail(c) = q
  <2>1. Tail(c) \in Seq(U) /\ Len(Tail(c)) = Len(q)
        /\ \A j \in 1..Len(q) : Tail(c)[j] = c[j + 1]
    BY <1>3, <1>4, <1>5
  <2>2. \A j \in 1..Len(q) : Tail(c)[j] = q[j]
    BY <1>3, <2>1
  <2> QED BY <1>2, <2>1, <2>2, SeqEqual
<1>7. IsSeq(c)
  BY <1>3 DEF IsSeq
<1> QED BY <1>3, <1>5, <1>6, <1>7 DEF c

(* Calls pushed together are pushed one by one.                            *)
LEMMA OneByOne ==
  ASSUME NEW a, NEW b, NEW q, IsSeq(q)
  PROVE  /\ <<a, b>> \o q = Cons(a, Cons(b, q))
         /\ \A x : (<<a, b>> \o <<x>>) \o q = Cons(a, Cons(b, Cons(x, q)))
<1>1. <<a, b>> \o q = Cons(a, Cons(b, q))
  <2>1. PICK S : q \in Seq(S)
    BY DEF IsSeq
  <2> DEFINE U == S \cup {a, b}
             s == <<a, b>> \o q
             d == <<b>> \o q
             t == <<a>> \o d
  <2>2. q \in Seq(U) /\ <<a, b>> \in Seq(U) /\ <<a>> \in Seq(U) /\ <<b>> \in Seq(U)
        /\ Len(q) \in Nat
    BY <2>1
  <2>3. s \in Seq(U) /\ Len(s) = Len(q) + 2 /\ s[1] = a /\ s[2] = b
        /\ \A j \in 3..(Len(q) + 2) : s[j] = q[j - 2]
    BY <2>2
  <2>4. d \in Seq(U) /\ Len(d) = Len(q) + 1 /\ d[1] = b
        /\ \A j \in 2..(Len(q) + 1) : d[j] = q[j - 1]
    BY <2>2
  <2> HIDE DEF d
  <2>5. t \in Seq(U) /\ Len(t) = Len(q) + 2 /\ t[1] = a
        /\ \A j \in 2..(Len(q) + 2) : t[j] = d[j - 1]
    BY <2>2, <2>4
  <2> HIDE DEF s, t, U
  <2>6. ASSUME NEW j \in 1..(Len(q) + 2) PROVE s[j] = t[j]
    <3>1. CASE j = 1
      BY <2>3, <2>5, <3>1
    <3>2. CASE j = 2
      BY <2>2, <2>3, <2>4, <2>5, <3>2
    <3>3. CASE j \in 3..(Len(q) + 2)
      <4>1. s[j] = q[j - 2]
        BY <2>3, <3>3
      <4>2. t[j] = d[j - 1]
        BY <2>2, <2>5, <3>3
      <4>3. j - 1 \in 2..(Len(q) + 1) /\ (j - 1) - 1 = j - 2
        BY <2>2, <3>3
      <4> QED BY <2>4, <4>1, <4>2, <4>3
    <3> QED BY <2>2, <3>1, <3>2, <3>3
  <2>7. s = t
    BY <2>3, <2>5, <2>6, SeqEqual
  <2> QED BY <2>7 DEF s, t, d, Cons
<1>2. ASSUME NEW x
      PROVE  (<<a, b>> \o <<x>>) \o q = Cons(a, Cons(b, Cons(x, q)))
  <2>1. PICK S : q \in Seq(S)
    BY DEF IsSeq
  <2> DEFINE U == S \cup {a, b, x}
             s == (<<a, b>> \o <<x>>) \o q
             c == <<x>> \o q
             d == <<b>> \o c
             t == <<a>> \o d
  <2>2. q \in Seq(U) /\ <<a>> \in Seq(U) /\ <<b>> \in Seq(U) /\ <<x>> \in Seq(U)
        /\ <<a, b, x>> \in Seq(U) /\ Len(q) \in Nat
    BY <2>1
  <2>3. s = <<a, b, x>> \o q
    BY TwoAndOne
  <2>4. s \in Seq(U) /\ Len(s) = Len(q) + 3 /\ s[1] = a /\ s[2] = b /\ s[3] = x
        /\ \A j \in 4..(Len(q) + 3) : s[j] = q[j - 3]
    BY <2>2, <2>3
  <2>5. c \in Seq(U) /\ Len(c) = Len(q) + 1 /\ c[1] = x
        /\ \A j \in 2..(Len(q) + 1) : c[j] = q[j - 1]
    BY <2>2
  <2> HIDE DEF c
  <2>6. d \in Seq(U) /\ Len(d) = Len(q) + 2 /\ d[1] = b
        /\ \A j \in 2..(Len(q) + 2) : d[j] = c[j - 1]
    BY <2>2, <2>5
  <2> HIDE DEF d
  <2>7. t \in Seq(U) /\ Len(t) = Len(q) + 3 /\ t[1] = a
        /\ \A j \in 2..(Len(q) + 3) : t[j] = d[j - 1]
    BY <2>2, <2>6
  <2> HIDE DEF s, t, U
  <2>8. ASSUME NEW j \in 1..(Len(q) + 3) PROVE s[j] = t[j]
    <3>1. CASE j = 1
      BY <2>4, <2>7, <3>1
    <3>2. CASE j = 2
      BY <2>2, <2>4, <2>6, <2>7, <3>2
    <3>3. CASE j = 3
      BY <2>2, <2>4, <2>5, <2>6, <2>7, <3>3
    <3>4. CASE j \in 4..(Len(q) + 3)
      <4>1. s[j] = q[j - 3]
        BY <2>4, <3>4
      <4>2. t[j] = d[j - 1]
        BY <2>2, <2>7, <3>4
      <4>3. j - 1 \in 2..(Len(q) + 2) /\ (j - 1) - 1 = j - 2
        BY <2>2, <3>4
      <4>4. d[j - 1] = c[j - 2]
        BY <2>6, <4>3
      <4>5. j - 2 \in 2..(Len(q) + 1) /\ (j - 2) - 1 = j - 3
        BY <2>2, <3>4
      <4> QED BY <2>5, <4>1, <4>2, <4>4, <4>5
    <3> QED BY <2>2, <3>1, <3>2, <3>3, <3>4
  <2>9. s = t
    BY <2>4, <2>7, <2>8, SeqEqual
  <2> QED BY <2>9 DEF s, t, d, c, Cons
<1> QED BY <1>1, <1>2

(* A stack that is not empty is its head on its tail.                      *)
LEMMA Split ==
  ASSUME NEW st, IsSeq(st), st # <<>>
  PROVE  /\ IsSeq(Tail(st)) /\ st = Cons(Head(st), Tail(st))
         /\ Range(st) = {Head(st)} \cup Range(Tail(st))
<1>1. /\ IsSeq(Tail(st)) /\ Len(st) \in Nat /\ Len(st) >= 1
      /\ Len(Tail(st)) = Len(st) - 1
      /\ \A j \in 1..(Len(st) - 1) : Tail(st)[j] = st[j + 1]
      /\ DOMAIN Tail(st) = 1..(Len(st) - 1)
      /\ DOMAIN st = 1..Len(st)
      /\ Head(st) = st[1]
  BY Popped
<1> DEFINE h == Head(st)
           t == Tail(st)
           n == Len(st)
<1> HIDE DEF h, t, n
<1>2. /\ n \in Nat /\ n >= 1 /\ DOMAIN t = 1..(n - 1) /\ DOMAIN st = 1..n /\ h = st[1]
      /\ \A j \in 1..(n - 1) : t[j] = st[j + 1]
  BY <1>1 DEF h, t, n
<1>3. /\ \A j \in DOMAIN st : j = 1 \/ (j - 1 \in DOMAIN t /\ t[j - 1] = st[j])
      /\ \A j \in DOMAIN t : j + 1 \in DOMAIN st /\ t[j] = st[j + 1]
      /\ 1 \in DOMAIN st
  BY <1>2
<1>4. Range(st) = {h} \cup Range(t)
  <2>1. ASSUME NEW j \in DOMAIN st PROVE st[j] \in {h} \cup Range(t)
    BY <1>2, <1>3 DEF Range
  <2>2. ASSUME NEW j \in DOMAIN t PROVE t[j] \in Range(st)
    BY <1>3 DEF Range
  <2>3. h \in Range(st)
    BY <1>2, <1>3 DEF Range
  <2> QED BY <2>1, <2>2, <2>3 DEF Range
<1>5. st = Cons(h, t)
  <2>1. PICK S : st \in Seq(S)
    BY DEF IsSeq
  <2>2. h \in S /\ t \in Seq(S)
    BY <2>1 DEF h, t
  <2> DEFINE c == <<h>> \o t
  <2>3. <<h>> \in Seq(S) /\ Len(<<h>>) = 1 /\ Len(t) = n - 1
    BY <1>1, <2>2 DEF t, n
  <2>4. c \in Seq(S) /\ Len(c) = n /\ c[1] = h /\ \A j \in 2..n : c[j] = t[j - 1]
    BY <1>2, <2>2, <2>3
  <2> HIDE DEF c
  <2>5. \A j \in 1..n : c[j] = st[j]
    BY <1>2, <1>3, <2>4
  <2>6. Len(st) = n
    BY DEF n
  <2>7. c = st
    BY <2>1, <2>4, <2>5, <2>6, SeqEqual
  <2> QED BY <2>7 DEF c, Cons
<1> QED BY <1>1, <1>4, <1>5 DEF h, t

(* The same, read from the parts.                                          *)
LEMMA OnTopOf ==
  ASSUME NEW x, NEW q, IsSeq(q)
  PROVE  Range(Cons(x, q)) = {x} \cup Range(q)
<1> DEFINE st == Cons(x, q)
<1>1. IsSeq(st) /\ st # <<>> /\ Head(st) = x /\ Tail(st) = q
  BY TopOf
<1> HIDE DEF st
<1>2. Range(st) = {x} \cup Range(q)
  BY <1>1, Split
<1> QED BY <1>2 DEF st

(* No call is in progress in an empty stack.                               *)
LEMMA NoCall == IsSeq(<<>>) /\ Range(<<>>) = {}
BY DEF IsSeq, Range

-----------------------------------------------------------------------------
(* What the calls in progress remember                                     *)

Busy(a) == a.state # "IDLE"

Agents ==
  [state : {"IDLE", "SERVING_WAITING_CLAIMS", "JOINING_WAITING_ACK"},
   matchId : Ids \cup {None}, target : Wishes \cup {None}, callback : Nat]

(* An agent has a target and a callback while it searches, and unless it   *)
(* went astray that search claimed or advertised the game it knows of.     *)
AgentOK(a, n, tr, sy) ==
  /\ n \in Nat
  /\ a \in Agents
  /\ a.callback <= n
  /\ Busy(a) <=> a.callback # 0
  /\ Busy(a) => a.target \in Wishes
  /\ Busy(a) /\ a.matchId # None /\ ~sy => <<a.callback, a.matchId>> \in tr

(* A call that goes on to bind or to tell search c remembers that search,  *)
(* unless it is over or the agent went astray.                             *)
Recalled(x, c, tr, sy) ==
  /\ x.op \in {"agent", "claimed", "accepted"} => x.id \in Ids
  /\ x.op = "claimed" => c = 0 \/ sy \/ <<c, x.id>> \in tr
  /\ x.op = "accepted" => c = 0 \/ sy \/ x.by = c

Recalls(st, c, tr, sy) == \A x \in Range(st) : Recalled(x, c, tr, sy)

-----------------------------------------------------------------------------
(* How searches end                                                        *)

(* The callbacks in progress, and the one that runs.                       *)
Waiting(st) == {x.n : x \in {x \in Range(st) : x.op = "called"}}
Running(st) == IF st # <<>> /\ Head(st).op = "called" THEN {Head(st).n} ELSE {}

(* A search was told, or began inside the call of a callback.              *)
Settled(tl, fr, s) ==
  \/ \E i \in DOMAIN tl : tl[i].search = s
  \/ \E k \in DOMAIN tl : <<s, k>> \in fr

(* Callback i left stopMatch half done.                                    *)
Again(d, i) == <<i, "throw">> \in d \/ <<i, "stop">> \in d

(* With callbacks W in progress, of which R runs: a search other than the  *)
(* current one c is settled, and so is that one if a callback is about to  *)
(* clear it.  One that was told goes on only if its callback runs or left  *)
(* stopMatch half done; one that began inside a callback, only until that  *)
(* returns.                                                                *)
Endings(W, R, c, n, tl, d, fr) ==
  /\ IsSeq(tl)
  /\ W \subseteq DOMAIN tl
  /\ \A i \in DOMAIN tl : tl[i].search \in 1..n
  /\ \A s, k : <<s, k>> \in fr => s \in 1..n
  /\ \A s \in 1..n : s = c \/ Settled(tl, fr, s)
  /\ W # {} => c = 0 \/ Settled(tl, fr, c)
  /\ \A i \in DOMAIN tl : tl[i].search = c => Again(d, i) \/ i \in R
  /\ \A i, j \in DOMAIN tl : i < j /\ tl[i].search = tl[j].search => Again(d, i)
  /\ \A k : <<c, k>> \in fr => <<k, "throw">> \in d \/ k \in W

OwnMatch(tl) == \A i \in DOMAIN tl : tl[i].search = tl[i].by \/ tl[i].amid

CallsInv ==
  /\ AgentOK(agent, searches, tried, astray)
  /\ astray \in BOOLEAN
  /\ incoming \in M!Message \cup {None}
  /\ inner \in Nat
  /\ IsSeq(stack)
  /\ Recalls(stack, agent.callback, tried, astray)
  /\ Endings(Waiting(stack), Running(stack), agent.callback, searches, told, did, from)
  /\ OwnMatch(told)

-----------------------------------------------------------------------------
(* Calls pushed and popped                                                 *)

(* Calls of other kinds remember nothing, and an idle agent is nobody's.   *)
LEMMA Forgotten ==
  ASSUME NEW st, NEW c, NEW tr, NEW sy, Recalls(st, c, tr, sy), NEW tr2, NEW sy2
  PROVE  Recalls(st, 0, tr2, sy2)
BY DEF Recalls, Recalled

(* A call on top of others.                                                *)
LEMMA Pushed ==
  ASSUME NEW x, NEW q, IsSeq(q)
  PROVE  /\ IsSeq(Cons(x, q))
         /\ x.op = "called" => Waiting(Cons(x, q)) = {x.n} \cup Waiting(q)
                               /\ Running(Cons(x, q)) = {x.n}
         /\ x.op # "called" => Waiting(Cons(x, q)) = Waiting(q)
                               /\ Running(Cons(x, q)) = {}
         /\ \A c, tr, sy : Recalls(Cons(x, q), c, tr, sy)
              <=> Recalled(x, c, tr, sy) /\ Recalls(q, c, tr, sy)
<1> DEFINE st == Cons(x, q)
<1>1. IsSeq(st) /\ st # <<>> /\ Head(st) = x
  BY TopOf
<1>2. Range(st) = {x} \cup Range(q)
  BY OnTopOf
<1> HIDE DEF st
<1>3. \A c, tr, sy : Recalls(st, c, tr, sy)
        <=> Recalled(x, c, tr, sy) /\ Recalls(q, c, tr, sy)
  BY <1>2 DEF Recalls
<1>4. x.op = "called" => Waiting(st) = {x.n} \cup Waiting(q) /\ Running(st) = {x.n}
  BY <1>1, <1>2 DEF Waiting, Running
<1>5. x.op # "called" => Waiting(st) = Waiting(q) /\ Running(st) = {}
  BY <1>1, <1>2 DEF Waiting, Running
<1> QED BY <1>1, <1>3, <1>4, <1>5 DEF st

(* The top call is done.                                                   *)
LEMMA Popping ==
  ASSUME NEW st, IsSeq(st), st # <<>>
  PROVE  /\ IsSeq(Tail(st))
         /\ Head(st) \in Range(st)
         /\ Head(st).op = "called" => Waiting(st) = {Head(st).n} \cup Waiting(Tail(st))
                                      /\ Running(st) = {Head(st).n}
         /\ Head(st).op # "called" => Waiting(st) = Waiting(Tail(st))
                                      /\ Running(st) = {}
         /\ \A c, tr, sy : Recalls(st, c, tr, sy) =>
              Recalled(Head(st), c, tr, sy) /\ Recalls(Tail(st), c, tr, sy)
<1> DEFINE x == Head(st)
           q == Tail(st)
<1>1. IsSeq(q) /\ st = Cons(x, q) /\ Range(st) = {x} \cup Range(q)
  BY Split
<1> HIDE DEF x, q
<1> QED BY <1>1, Pushed DEF x, q

(* The two handlers of an update event.                                    *)
LEMMA RaisedCalls ==
  ASSUME NEW id \in Ids, NEW q, IsSeq(q)
  PROVE  /\ IsSeq(Raise(id) \o q)
         /\ Waiting(Raise(id) \o q) = Waiting(q)
         /\ \A c, tr, sy : Recalls(q, c, tr, sy) => Recalls(Raise(id) \o q, c, tr, sy)
<1> DEFINE a == [op |-> "agent", id |-> id]
           l == [op |-> "listener", id |-> id]
<1>1. Raise(id) \o q = Cons(a, Cons(l, q))
  BY OneByOne DEF Raise
<1>2. a.op = "agent" /\ l.op = "listener" /\ a.id = id
  OBVIOUS
<1> HIDE DEF a, l
<1>3. \A c, tr, sy : Recalled(a, c, tr, sy) /\ Recalled(l, c, tr, sy)
  BY <1>2 DEF Recalled
<1>4. IsSeq(Cons(l, q)) /\ Waiting(Cons(l, q)) = Waiting(q)
      /\ \A c, tr, sy : Recalls(q, c, tr, sy) => Recalls(Cons(l, q), c, tr, sy)
  BY <1>2, <1>3, Pushed
<1> QED BY <1>1, <1>2, <1>3, <1>4, Pushed

(* The same with one call more that waits for them.                        *)
LEMMA RaisedOver ==
  ASSUME NEW id, NEW x, NEW q, IsSeq(q)
  PROVE  (Raise(id) \o <<x>>) \o q = Raise(id) \o Cons(x, q)
<1> DEFINE a == [op |-> "agent", id |-> id]
           l == [op |-> "listener", id |-> id]
<1>1. Raise(id) = <<a, l>>
  BY DEF Raise
<1> HIDE DEF a, l
<1>2. (<<a, l>> \o <<x>>) \o q = Cons(a, Cons(l, Cons(x, q)))
  BY OneByOne
<1>3. <<a, l>> \o Cons(x, q) = Cons(a, Cons(l, Cons(x, q)))
  <2>1. IsSeq(Cons(x, q))
    BY TopOf
  <2> QED BY <2>1, OneByOne
<1> QED BY <1>1, <1>2, <1>3

(* The two readings of the same calls.                                     *)
LEMMA CallsOfStack ==
  /\ InCallbacks = Waiting(stack)
  /\ \A rest : Midway(rest) <=> \E x \in Range(rest) : x.op \in {"claimed", "accepted"}
BY DEF InCallbacks, Waiting, Midway, Range

-----------------------------------------------------------------------------
(* Searches that go on, end and begin                                      *)

(* Calls that are no callbacks change nothing about how searches end.      *)
LEMMA EndingsMove ==
  ASSUME NEW W, NEW R, NEW c, NEW n, NEW tl, NEW d, NEW fr,
         Endings(W, {}, c, n, tl, d, fr)
  PROVE  Endings(W, R, c, n, tl, d, fr)
BY DEF Endings

(* The callback is called: it runs, and an earlier call of it that is in   *)
(* progress called stopMatch.                                              *)
LEMMA EndingsTell ==
  ASSUME NEW W, NEW R, NEW c \in Nat, c # 0, NEW n \in Nat, c <= n, NEW tl, NEW d, NEW fr,
         Endings(W, R, c, n, tl, d, fr), NEW r, r.search = c,
         NEW d2, d \subseteq d2, \A i \in R : Again(d2, i)
  PROVE  Endings({Len(tl) + 1} \cup W, {Len(tl) + 1}, c, n, Append(tl, r), d2, fr)
<1> DEFINE new == Append(tl, r)
           k == Len(tl) + 1
<1>1. /\ IsSeq(new) /\ Len(tl) \in Nat /\ DOMAIN tl = 1..Len(tl)
      /\ DOMAIN new = 1..(Len(tl) + 1)
      /\ \A i \in DOMAIN tl : new[i] = tl[i]
      /\ new[Len(tl) + 1] = r
  BY Appended DEF Endings
<1> HIDE DEF new
<1>2. /\ k \in DOMAIN new /\ new[k].search = c
      /\ \A i \in DOMAIN tl : i \in DOMAIN new /\ i < k /\ new[i] = tl[i]
      /\ \A i \in DOMAIN new : i = k \/ (i \in DOMAIN tl /\ new[i] = tl[i])
  BY <1>1
<1>3. \A i : Again(d, i) => Again(d2, i)
  BY DEF Again
<1>4. \A s : Settled(tl, fr, s) => Settled(new, fr, s)
  BY <1>2 DEF Settled
<1>5. Settled(new, fr, c)
  BY <1>2 DEF Settled
<1>6. \A i \in DOMAIN tl : tl[i].search = c => Again(d2, i)
  BY <1>3 DEF Endings
<1>7. ASSUME NEW i \in DOMAIN new, NEW j \in DOMAIN new, i < j,
             new[i].search = new[j].search
      PROVE  Again(d2, i)
  <2>1. i \in DOMAIN tl /\ new[i] = tl[i]
    BY <1>1, <1>2, <1>7
  <2>2. CASE j = k
    BY <1>2, <1>6, <1>7, <2>1, <2>2
  <2>3. CASE j \in DOMAIN tl
    <3>1. new[j] = tl[j]
      BY <1>2, <2>3
    <3> QED BY <1>3, <1>7, <2>1, <2>3, <3>1 DEF Endings
  <2> QED BY <1>2, <2>2, <2>3
<1> HIDE DEF k
<1>8. \A i \in DOMAIN new : new[i].search = c => Again(d2, i) \/ i \in {k}
  BY <1>2, <1>6
<1>9. \A i \in DOMAIN new : new[i].search \in 1..n
  <2>1. c \in 1..n
    OBVIOUS
  <2> QED BY <1>2, <2>1 DEF Endings
<1>10. {k} \cup W \subseteq DOMAIN new
  BY <1>2 DEF Endings
<1>11. \A i : <<c, i>> \in fr => <<i, "throw">> \in d2 \/ i \in {k} \cup W
  BY DEF Endings
<1>12. \A s \in 1..n : s = c \/ Settled(new, fr, s)
  BY <1>4 DEF Endings
<1>13. \A s, i : <<s, i>> \in fr => s \in 1..n
  BY DEF Endings
<1>14. Endings({k} \cup W, {k}, c, n, new, d2, fr)
  BY <1>1, <1>5, <1>7, <1>8, <1>9, <1>10, <1>11, <1>12, <1>13 DEF Endings
<1> QED BY <1>14 DEF new, k

(* The state is cleared when a callback returns.                           *)
LEMMA EndingsClear ==
  ASSUME NEW W, NEW R, NEW c, NEW n \in Nat, NEW tl, NEW d, NEW fr,
         Endings(W, R, c, n, tl, d, fr), c = 0 \/ W # {},
         NEW W2, W2 \subseteq W, NEW R2
  PROVE  Endings(W2, R2, 0, n, tl, d, fr)
<1>1. \A s \in 1..n : Settled(tl, fr, s)
  <2>1. \A s \in 1..n : s # 0
    OBVIOUS
  <2> QED BY <2>1 DEF Endings
<1>2. \A i \in DOMAIN tl : tl[i].search # 0
  <2>1. \A i \in DOMAIN tl : tl[i].search \in 1..n
    BY DEF Endings
  <2> QED BY <2>1
<1>3. \A k : <<0, k>> \notin fr
  <2>1. \A k : <<0, k>> \in fr => 0 \in 1..n
    BY DEF Endings
  <2>2. 0 \notin 1..n
    OBVIOUS
  <2> QED BY <2>1, <2>2
<1> QED BY <1>1, <1>2, <1>3 DEF Endings

(* The running callback throws.                                            *)
LEMMA EndingsThrow ==
  ASSUME NEW W, NEW k, NEW c, NEW n, NEW tl, NEW d, NEW fr,
         Endings({k} \cup W, {k}, c, n, tl, d, fr), NEW R
  PROVE  Endings(W, R, c, n, tl, d \cup {<<k, "throw">>}, fr)
<1> DEFINE d2 == d \cup {<<k, "throw">>}
<1>1. (\A i : Again(d, i) => Again(d2, i)) /\ Again(d2, k)
  BY DEF Again
<1>2. \A i : <<i, "throw">> \in d => <<i, "throw">> \in d2
  OBVIOUS
<1>3. <<k, "throw">> \in d2
  OBVIOUS
<1> HIDE DEF d2
<1>4. Endings(W, R, c, n, tl, d2, fr)
  BY <1>1, <1>2, <1>3 DEF Endings
<1> QED BY <1>4 DEF d2

(* A search begins, inside the callbacks in progress.                      *)
LEMMA EndingsFind ==
  ASSUME NEW W, NEW R, NEW n \in Nat, NEW tl, NEW d, NEW fr,
         Endings(W, R, 0, n, tl, d, fr), NEW R2
  PROVE  Endings(W, R2, n + 1, n + 1, tl, d, fr \cup {<<n + 1, w>> : w \in W})
<1> DEFINE fr2 == fr \cup {<<n + 1, w>> : w \in W}
<1>1. /\ \A s, k : <<s, k>> \in fr2 <=> <<s, k>> \in fr \/ (s = n + 1 /\ k \in W)
      /\ fr \subseteq fr2
  OBVIOUS
<1> HIDE DEF fr2
<1>2. \A s \in 1..(n + 1) : s = n + 1 \/ s \in 1..n
  OBVIOUS
<1>3. \A s \in 1..n : s \in 1..(n + 1) /\ s # n + 1 /\ s # 0
  OBVIOUS
<1>4. n + 1 \in 1..(n + 1)
  OBVIOUS
<1>5. \A s : Settled(tl, fr, s) => Settled(tl, fr2, s)
  BY <1>1 DEF Settled
<1>6. W # {} => Settled(tl, fr2, n + 1)
  BY <1>1 DEF Settled, Endings
<1>7. \A k : <<n + 1, k>> \in fr2 => k \in W
  BY <1>1, <1>3 DEF Endings
<1>8. \A s \in 1..(n + 1) : s = n + 1 \/ Settled(tl, fr2, s)
  BY <1>2, <1>3, <1>5 DEF Endings
<1>9. \A s, k : <<s, k>> \in fr2 => s \in 1..(n + 1)
  BY <1>1, <1>3, <1>4 DEF Endings
<1>10. \A i \in DOMAIN tl : tl[i].search \in 1..(n + 1) /\ tl[i].search # n + 1
  BY <1>3 DEF Endings
<1>11. Endings(W, R2, n + 1, n + 1, tl, d, fr2)
  BY <1>6, <1>7, <1>8, <1>9, <1>10 DEF Endings
<1> QED BY <1>11 DEF fr2

-----------------------------------------------------------------------------
(* What the operations do to the calls in progress                         *)

(* startMatch leaves an agent that searches; the calls under it that know  *)
(* of another search are what leads it astray.                             *)
LEMMA Starting ==
  ASSUME NEW wish \in Wishes, NEW search \in Nat, search # 0,
         NEW rest, IsSeq(rest), NEW c, NEW sy, Recalls(rest, c, tried, sy),
         StartMatch(wish, search, rest)
  PROVE  /\ agent' \in Agents /\ Busy(agent') /\ agent'.callback = search
         /\ agent'.target = wish
         /\ agent'.matchId # None => <<search, agent'.matchId>> \in tried'
         /\ astray' \in BOOLEAN
         /\ IsSeq(stack') /\ Waiting(stack') = Waiting(rest)
         /\ Recalls(stack', search, tried', astray')
<1> DEFINE open == M!Joinable(Me, wish, map)
           own == M!getMatchID(Me, Head(wish))
<1>1. open \subseteq Ids
  BY DEF M!Joinable, M!MatchIds, Ids
<1>2. own \in Ids /\ own # None
  <2>1. Me \in Nodes /\ Head(wish) \in Games /\ None \notin Ids
    BY CallsAssumption DEF Ids
  <2>2. own = [advertiser |-> Me, match |-> Head(wish)]
    BY DEF M!getMatchID
  <2> QED BY <2>1, <2>2 DEF Ids
<1>3. astray' = Midway(rest) /\ astray' \in BOOLEAN
  BY DEF StartMatch, Midway
<1>4. Recalls(rest, search, tried', astray')
  <2>1. \A x \in Range(rest) : x.op \in {"claimed", "accepted"} => astray'
    BY <1>3, CallsOfStack
  <2> QED BY <2>1 DEF Recalls, Recalled
<1>5. CASE \E id \in open :
             /\ agent' = [state |-> "JOINING_WAITING_ACK", matchId |-> None,
                          target |-> wish, callback |-> search]
             /\ tried' = tried \cup {<<search, id>>}
             /\ OnClaim(id, Me, <<[op |-> "claimed", id |-> id]>> \o rest)
  <2> HIDE DEF open
  <2>1. PICK id \in open :
             /\ agent' = [state |-> "JOINING_WAITING_ACK", matchId |-> None,
                          target |-> wish, callback |-> search]
             /\ tried' = tried \cup {<<search, id>>}
             /\ OnClaim(id, Me, <<[op |-> "claimed", id |-> id]>> \o rest)
    BY <1>5
  <2>2. id \in Ids
    BY <1>1
  <2>3. /\ agent' \in Agents /\ Busy(agent') /\ agent'.callback = search
        /\ agent'.target = wish /\ agent'.matchId = None
    BY <2>1 DEF Agents, Busy
  <2> DEFINE top == [op |-> "claimed", id |-> id]
             q == Cons(top, rest)
  <2>4. top.op = "claimed" /\ top.id = id /\ <<search, id>> \in tried'
    BY <2>1
  <2>5. stack' = q \/ stack' = Raise(id) \o q
    BY <2>1 DEF OnClaim, Cons
  <2> HIDE DEF top
  <2>6. Recalled(top, search, tried', astray')
    BY <2>2, <2>4 DEF Recalled
  <2>7. IsSeq(q) /\ Waiting(q) = Waiting(rest) /\ Recalls(q, search, tried', astray')
    BY <1>4, <2>4, <2>6, Pushed
  <2> HIDE DEF q
  <2>8. IsSeq(stack') /\ Waiting(stack') = Waiting(rest)
        /\ Recalls(stack', search, tried', astray')
    <3>1. CASE stack' = q
      BY <2>7, <3>1
    <3>2. CASE stack' = Raise(id) \o q
      BY <2>2, <2>7, <3>2, RaisedCalls
    <3> QED BY <2>5, <3>1, <3>2
  <2> QED BY <1>3, <2>3, <2>8
<1>6. CASE /\ agent' = [state |-> "SERVING_WAITING_CLAIMS", matchId |-> own,
                        target |-> wish, callback |-> search]
           /\ tried' = tried \cup {<<search, own>>}
           /\ OnAdvertise(own, rest)
  <2> HIDE DEF own
  <2>1. /\ agent' \in Agents /\ Busy(agent') /\ agent'.callback = search
        /\ agent'.target = wish /\ agent'.matchId = own
    BY <1>2, <1>6 DEF Agents, Busy
  <2>2. stack' = Raise(own) \o rest
    BY <1>6 DEF OnAdvertise
  <2>3. IsSeq(stack') /\ Waiting(stack') = Waiting(rest)
        /\ Recalls(stack', search, tried', astray')
    BY <1>2, <1>4, <2>2, RaisedCalls
  <2> QED BY <1>3, <1>6, <2>1, <2>3
<1> QED BY <1>5, <1>6 DEF StartMatch

(* Clearing the state.                                                     *)
LEMMA Clearing ==
  ASSUME Clear
  PROVE  /\ agent' \in Agents /\ ~Busy(agent') /\ agent'.callback = 0
         /\ agent'.matchId = None /\ astray' = FALSE
BY DEF Clear, Cleared, Agents, Busy

(* What the invariant says of the agent.                                   *)
LEMMA BusyAgent ==
  ASSUME CallsInv
  PROVE  /\ searches \in Nat /\ agent \in Agents
         /\ agent.callback \in Nat /\ agent.callback <= searches
         /\ (agent.state = "IDLE" <=> agent.callback = 0)
         /\ (agent.state # "IDLE" => agent.target \in Wishes)
         /\ (agent.state # "IDLE" /\ agent.matchId # None /\ ~astray =>
               <<agent.callback, agent.matchId>> \in tried)
<1>1. AgentOK(agent, searches, tried, astray)
  BY DEF CallsInv
<1>2. agent.callback \in Nat
  BY <1>1 DEF AgentOK, Agents
<1> QED BY <1>1, <1>2 DEF AgentOK, Busy

(* Telling the callback, on top of calls that hold no other callback.      *)
LEMMA Telling ==
  ASSUME CallsInv, NEW id, NEW user, NEW by, NEW stops,
         NEW rest, IsSeq(rest), Waiting(rest) = Waiting(stack),
         Recalls(rest, agent.callback, tried, astray),
         Tell(id, user, by, stops, rest),
         agent.callback = 0 \/ astray \/ by = agent.callback,
         UNCHANGED <<searches, tried, from, incoming>>, inner' \in Nat,
         did \subseteq did', \A i \in Running(stack) : Again(did', i),
         agent.callback = 0 => did' = did
  PROVE  CallsInv'
<1>1. /\ searches \in Nat /\ agent.callback \in Nat /\ agent.callback <= searches
      /\ agent \in Agents
  BY BusyAgent
<1>2. CASE agent.callback = 0
  <2>1. Clear /\ stack' = rest /\ told' = told
    BY <1>2 DEF Tell
  <2>2. /\ agent' \in Agents /\ ~Busy(agent') /\ agent'.callback = 0 /\ astray' = FALSE
    BY <2>1, Clearing
  <2>3. AgentOK(agent', searches, tried, astray')
    BY <1>1, <2>2 DEF AgentOK
  <2>4. Recalls(rest, 0, tried, astray')
    BY Forgotten
  <2>5. Endings(Waiting(rest), Running(rest), 0, searches, told, did, from)
    BY <1>1, <1>2, EndingsClear DEF CallsInv
  <2> QED BY <1>2, <2>1, <2>2, <2>3, <2>4, <2>5 DEF CallsInv
<1>3. CASE agent.callback # 0
  <2> DEFINE k == Len(told) + 1
             x == [op |-> "called", n |-> k, stops |-> stops]
             r == [search |-> agent.callback, match |-> id, user |-> user,
                   by |-> by, amid |-> astray]
  <2>1. /\ stack' = Cons(x, rest) /\ told' = Append(told, r)
        /\ agent' = agent /\ astray' = astray
    BY <1>3 DEF Tell, Cons
  <2>2. x.op = "called" /\ x.n = k
    OBVIOUS
  <2>3. r.search = agent.callback /\ r.by = by /\ r.amid = astray
    OBVIOUS
  <2> HIDE DEF x, r
  <2>4. Recalled(x, agent.callback, tried, astray)
    BY <2>2 DEF Recalled
  <2>5. /\ IsSeq(stack') /\ Waiting(stack') = {k} \cup Waiting(stack)
        /\ Running(stack') = {k}
        /\ Recalls(stack', agent.callback, tried, astray)
    BY <2>1, <2>2, <2>4, Pushed
  <2>6. Endings({k} \cup Waiting(stack), {k}, agent.callback, searches,
                Append(told, r), did', from)
    BY <1>1, <1>3, <2>3, EndingsTell DEF CallsInv
  <2>7. OwnMatch(Append(told, r))
    <3>1. IsSeq(told) /\ OwnMatch(told)
      BY DEF CallsInv, Endings
    <3>2. /\ DOMAIN told = 1..Len(told) /\ Len(told) \in Nat
          /\ DOMAIN Append(told, r) = 1..(Len(told) + 1)
          /\ \A i \in DOMAIN told : Append(told, r)[i] = told[i]
          /\ Append(told, r)[Len(told) + 1] = r
      BY <3>1, Appended
    <3>3. \A i \in DOMAIN Append(told, r) : i = Len(told) + 1 \/ i \in DOMAIN told
      BY <3>2
    <3>4. r.search = r.by \/ r.amid
      BY <1>3, <2>3
    <3> QED BY <3>1, <3>2, <3>3, <3>4 DEF OwnMatch
  <2> QED BY <2>1, <2>5, <2>6, <2>7 DEF CallsInv
<1> QED BY <1>2, <1>3

(* A step that does nothing to how searches end.                           *)
LEMMA Moving ==
  ASSUME CallsInv, Running(stack) = {},
         agent'.callback = agent.callback,
         UNCHANGED <<searches, told, did, from>>,
         AgentOK(agent', searches, tried', astray'), astray' \in BOOLEAN,
         incoming' \in M!Message \cup {None}, inner' \in Nat,
         IsSeq(stack'), Waiting(stack') = Waiting(stack),
         Recalls(stack', agent.callback, tried', astray')
  PROVE  CallsInv'
<1>1. Endings(Waiting(stack), Running(stack'), agent.callback, searches, told, did, from)
  BY EndingsMove DEF CallsInv
<1> QED BY <1>1 DEF CallsInv

(* The same search begins anew.                                            *)
LEMMA Restarting ==
  ASSUME CallsInv, agent.state # "IDLE", Running(stack) = {},
         NEW rest, IsSeq(rest), Waiting(rest) = Waiting(stack),
         NEW sy, Recalls(rest, agent.callback, tried, sy), Restart(rest),
         UNCHANGED <<searches, did, from, incoming>>, inner' \in Nat
  PROVE  CallsInv'
<1>1. /\ agent.callback \in Nat /\ agent.callback # 0 /\ agent.target \in Wishes
      /\ searches \in Nat /\ agent.callback <= searches
  BY BusyAgent
<1>2. StartMatch(agent.target, agent.callback, rest) /\ told' = told
  BY DEF Restart
<1>3. /\ agent' \in Agents /\ Busy(agent') /\ agent'.callback = agent.callback
      /\ agent'.target = agent.target
      /\ agent'.matchId # None => <<agent.callback, agent'.matchId>> \in tried'
      /\ astray' \in BOOLEAN
      /\ IsSeq(stack') /\ Waiting(stack') = Waiting(rest)
      /\ Recalls(stack', agent.callback, tried', astray')
  BY <1>1, <1>2, Starting
<1>4. AgentOK(agent', searches, tried', astray')
  BY <1>1, <1>3 DEF AgentOK
<1> QED BY <1>2, <1>3, <1>4, Moving DEF CallsInv

(* findMatch.                                                              *)
LEMMA Finding ==
  ASSUME CallsInv, NEW wish \in Wishes, FindMatch(wish),
         UNCHANGED <<incoming, did>>
  PROVE  CallsInv'
<1>1. /\ agent.callback = 0 /\ searches \in Nat
      /\ searches' = searches + 1 /\ searches + 1 \in Nat /\ searches + 1 # 0
      /\ from' = from \cup {<<searches + 1, w>> : w \in Waiting(stack)}
      /\ told' = told /\ StartMatch(wish, searches + 1, stack)
      /\ inner' \in Nat
  BY BusyAgent, CallsOfStack DEF FindMatch, Inner, CallsInv
<1>2. /\ agent' \in Agents /\ Busy(agent') /\ agent'.callback = searches + 1
      /\ agent'.target = wish
      /\ agent'.matchId # None => <<searches + 1, agent'.matchId>> \in tried'
      /\ astray' \in BOOLEAN
      /\ IsSeq(stack') /\ Waiting(stack') = Waiting(stack)
      /\ Recalls(stack', searches + 1, tried', astray')
  BY <1>1, Starting DEF CallsInv
<1>3. AgentOK(agent', searches', tried', astray')
  BY <1>1, <1>2 DEF AgentOK
<1>4. Endings(Waiting(stack), Running(stack), 0, searches, told, did, from)
  BY <1>1 DEF CallsInv
<1>5. Endings(Waiting(stack), Running(stack'), searches + 1, searches + 1, told, did,
              from \cup {<<searches + 1, w>> : w \in Waiting(stack)})
  BY <1>1, <1>4, EndingsFind
<1> QED BY <1>1, <1>2, <1>3, <1>5 DEF CallsInv

(* stopMatch, called by a callback that did so is on record.               *)
LEMMA Stopping ==
  ASSUME CallsInv, StopMatch, incoming' = incoming,
         did \subseteq did', \A i \in Running(stack) : Again(did', i)
  PROVE  CallsInv'
<1>1. /\ Tell(None, None, agent.callback, TRUE, stack)
      /\ UNCHANGED <<searches, tried, from>> /\ agent.state # "IDLE"
  BY DEF StopMatch
<1>2. agent.callback # 0
  BY <1>1, BusyAgent
<1>3. inner' \in Nat
  BY DEF StopMatch, Inner, CallsInv
<1> QED BY <1>1, <1>2, <1>3, Telling DEF CallsInv

-----------------------------------------------------------------------------
(* The steps of the innermost call                                         *)

(* The stack without its top call.                                         *)
LEMMA TopGone ==
  ASSUME CallsInv, stack # <<>>
  PROVE  /\ IsSeq(Tail(stack))
         /\ Recalls(Tail(stack), agent.callback, tried, astray)
         /\ Recalled(Head(stack), agent.callback, tried, astray)
         /\ Head(stack).op = "called" =>
              Waiting(stack) = {Head(stack).n} \cup Waiting(Tail(stack))
              /\ Running(stack) = {Head(stack).n}
         /\ Head(stack).op # "called" =>
              Waiting(Tail(stack)) = Waiting(stack) /\ Running(stack) = {}
BY Popping DEF CallsInv

(* An ack handled, with a call on top of the others that waits for it.     *)
LEMMA Acking ==
  ASSUME NEW id \in Ids, NEW user, NEW q, IsSeq(q), OnAck(id, user, q)
  PROVE  /\ IsSeq(stack') /\ Waiting(stack') = Waiting(q)
         /\ \A c, tr, sy : Recalls(q, c, tr, sy) => Recalls(stack', c, tr, sy)
<1> DEFINE x == [op |-> "remove", id |-> id]
<1>1. x.op = "remove"
  OBVIOUS
<1>2. stack' = q \/ stack' = (Raise(id) \o <<x>>) \o q
  BY DEF OnAck
<1> HIDE DEF x
<1>3. \A c, tr, sy : Recalled(x, c, tr, sy)
  BY <1>1 DEF Recalled
<1>4. /\ IsSeq(Cons(x, q)) /\ Waiting(Cons(x, q)) = Waiting(q)
      /\ \A c, tr, sy : Recalls(q, c, tr, sy) => Recalls(Cons(x, q), c, tr, sy)
  BY <1>1, <1>3, Pushed
<1>5. (Raise(id) \o <<x>>) \o q = Raise(id) \o Cons(x, q)
  BY RaisedOver
<1>6. /\ IsSeq(Raise(id) \o Cons(x, q))
      /\ Waiting(Raise(id) \o Cons(x, q)) = Waiting(Cons(x, q))
      /\ \A c, tr, sy : Recalls(Cons(x, q), c, tr, sy)
                          => Recalls(Raise(id) \o Cons(x, q), c, tr, sy)
  BY <1>4, RaisedCalls
<1> QED BY <1>2, <1>4, <1>5, <1>6

(* The agent's handler, ...                                                *)
LEMMA AgentStep ==
  ASSUME CallsInv, Agent, incoming' = incoming
  PROVE  CallsInv'
<1> DEFINE id == Head(stack).id
           rest == Tail(stack)
           by == IF <<agent.callback, id>> \in tried THEN agent.callback ELSE 0
<1>1. /\ stack # <<>> /\ Head(stack).op = "agent"
      /\ UNCHANGED <<searches, did, from, inner>>
  BY DEF Agent, Top
<1>2. /\ IsSeq(rest) /\ Waiting(rest) = Waiting(stack) /\ Running(stack) = {}
      /\ Recalls(rest, agent.callback, tried, astray)
      /\ Recalled(Head(stack), agent.callback, tried, astray)
  BY <1>1, TopGone
<1>3. id \in Ids /\ id # None
  <2>1. None \notin Ids
    BY CallsAssumption DEF Ids
  <2> QED BY <1>1, <1>2, <2>1 DEF Recalled
<1>4. /\ inner' \in Nat /\ incoming' \in M!Message \cup {None}
      /\ AgentOK(agent, searches, tried, astray) /\ astray \in BOOLEAN
  BY <1>1 DEF CallsInv
<1>5. Concerns(id) /\ agent.state # "IDLE" =>
        agent.callback = 0 \/ astray \/ by = agent.callback
  BY <1>3, BusyAgent DEF Concerns
<1>6. CASE /\ Concerns(id) /\ agent.state = "SERVING_WAITING_CLAIMS"
           /\ OnAck(id, Head(map[id].claimsSeen),
                    <<[op |-> "accepted", id |-> id,
                       user |-> Head(map[id].claimsSeen), by |-> by]>> \o rest)
           /\ UNCHANGED <<agent, actionAge, tried, told, astray>>
  <2> DEFINE u == Head(map[id].claimsSeen)
             x == [op |-> "accepted", id |-> id, user |-> u, by |-> by]
             q == Cons(x, rest)
  <2>1. OnAck(id, u, q)
    BY <1>6 DEF Cons
  <2>2. x.op = "accepted" /\ x.id = id /\ x.by = by
    OBVIOUS
  <2> HIDE DEF x, u, by
  <2>3. Recalled(x, agent.callback, tried, astray)
    BY <1>3, <1>5, <1>6, <2>2 DEF Recalled
  <2> HIDE DEF id, rest
  <2>4. IsSeq(q) /\ Waiting(q) = Waiting(stack)
        /\ Recalls(q, agent.callback, tried, astray)
    BY <1>2, <2>2, <2>3, Pushed
  <2> HIDE DEF q
  <2>5. IsSeq(stack') /\ Waiting(stack') = Waiting(stack)
        /\ Recalls(stack', agent.callback, tried, astray)
    BY <1>3, <2>1, <2>4, Acking
  <2> QED BY <1>1, <1>2, <1>4, <1>6, <2>5, Moving
<1>7. CASE /\ Concerns(id) /\ agent.state = "JOINING_WAITING_ACK"
           /\ Tell(id, Me, by, FALSE, rest) /\ UNCHANGED <<actionAge, outbox, tried>>
  <2> HIDE DEF id, rest, by
  <2>1. agent.callback = 0 \/ astray \/ by = agent.callback
    BY <1>5, <1>7
  <2> QED BY <1>1, <1>2, <1>4, <1>7, <2>1, Telling
<1>8. CASE agent.state = "JOINING_WAITING_ACK" /\ Restart(rest)
  <2> HIDE DEF rest
  <2>1. agent.state # "IDLE"
    BY <1>8
  <2> QED BY <1>1, <1>2, <1>4, <1>8, <2>1, Restarting
<1>9. CASE stack' = rest /\ UNCHANGED <<clientVars, tried, told, astray>>
  <2> HIDE DEF rest
  <2>1. agent' = agent /\ UNCHANGED <<tried, told, astray>>
    BY <1>9 DEF clientVars
  <2> QED BY <1>1, <1>2, <1>4, <1>9, <2>1, Moving
<1> QED BY <1>6, <1>7, <1>8, <1>9 DEF Agent

(* ... what it does once its ack was sent, ...                             *)
LEMMA AcceptedStep ==
  ASSUME CallsInv, Accepted, incoming' = incoming
  PROVE  CallsInv'
<1> DEFINE x == Head(stack)
           rest == Tail(stack)
<1>1. /\ stack # <<>> /\ x.op = "accepted"
      /\ Tell(x.id, x.user, x.by, FALSE, rest)
      /\ UNCHANGED <<searches, tried, did, from, inner>>
  BY DEF Accepted, Top
<1>2. /\ IsSeq(rest) /\ Waiting(rest) = Waiting(stack) /\ Running(stack) = {}
      /\ Recalls(rest, agent.callback, tried, astray)
      /\ Recalled(x, agent.callback, tried, astray)
  BY <1>1, TopGone
<1>3. agent.callback = 0 \/ astray \/ x.by = agent.callback
  BY <1>1, <1>2 DEF Recalled
<1>4. inner' \in Nat
  BY <1>1 DEF CallsInv
<1> QED BY <1>1, <1>2, <1>3, <1>4, Telling

(* ... and a callback that returns, ...                                    *)
LEMMA ReturnsStep ==
  ASSUME CallsInv, Returns, incoming' = incoming
  PROVE  CallsInv'
<1>1. /\ stack # <<>> /\ Head(stack).op = "called" /\ Clear
      /\ stack' = Tail(stack)
      /\ UNCHANGED <<searches, tried, told, did, from, inner>>
  BY DEF Returns, Top
<1>2. /\ IsSeq(Tail(stack)) /\ Recalls(Tail(stack), agent.callback, tried, astray)
      /\ Waiting(stack) = {Head(stack).n} \cup Waiting(Tail(stack))
  BY <1>1, TopGone
<1>3. /\ agent' \in Agents /\ ~Busy(agent') /\ agent'.callback = 0 /\ astray' = FALSE
  BY <1>1, Clearing
<1>4. searches \in Nat /\ AgentOK(agent', searches, tried, astray')
  BY <1>3, BusyAgent DEF AgentOK
<1>5. Recalls(Tail(stack), 0, tried, astray')
  BY <1>2, Forgotten
<1>6. Endings(Waiting(Tail(stack)), Running(Tail(stack)), 0, searches, told, did, from)
  BY <1>2, <1>4, EndingsClear DEF CallsInv
<1> QED BY <1>1, <1>2, <1>3, <1>4, <1>5, <1>6 DEF CallsInv

(* ... throws out of stopMatch ...                                         *)
LEMMA ThrowsStep ==
  ASSUME CallsInv, Throws, incoming' = incoming
  PROVE  CallsInv'
<1> DEFINE k == Head(stack).n
<1>1. /\ stack # <<>> /\ Head(stack).op = "called" /\ stack' = Tail(stack)
      /\ agent' = agent /\ did' = did \cup {<<k, "throw">>}
      /\ UNCHANGED <<searches, tried, told, from, astray, inner>>
  BY DEF Throws, Top, clientVars
<1>2. /\ IsSeq(Tail(stack)) /\ Recalls(Tail(stack), agent.callback, tried, astray)
      /\ Waiting(stack) = {k} \cup Waiting(Tail(stack)) /\ Running(stack) = {k}
  BY <1>1, TopGone
<1> HIDE DEF k
<1>3. Endings(Waiting(Tail(stack)), Running(Tail(stack)), agent.callback, searches,
              told, did', from)
  BY <1>1, <1>2, EndingsThrow DEF CallsInv
<1> QED BY <1>1, <1>2, <1>3 DEF CallsInv

(* ... or calls.                                                           *)
LEMMA CallbackStep ==
  ASSUME CallsInv, CallbackCalls, incoming' = incoming
  PROVE  CallsInv'
<1>1. stack # <<>> /\ Head(stack).op = "called"
  BY DEF CallbackCalls, Top
<1>2. CASE Finds /\ UNCHANGED did
  BY <1>2, Finding DEF Finds
<1>3. CASE Stops /\ did' = did \cup {<<Head(stack).n, "stop">>}
  <2>1. Running(stack) = {Head(stack).n}
    BY <1>1, TopGone
  <2>2. \A i \in Running(stack) : Again(did', i)
    BY <1>3, <2>1 DEF Again
  <2> QED BY <1>3, <2>2, Stopping DEF Stops
<1> QED BY <1>2, <1>3 DEF CallbackCalls

(* The listeners return or call.                                           *)
LEMMA ListenerStep ==
  ASSUME CallsInv, Listener, incoming' = incoming
  PROVE  CallsInv'
<1>1. stack # <<>> /\ Head(stack).op = "listener"
  BY DEF Listener, Top
<1>2. /\ IsSeq(Tail(stack)) /\ Recalls(Tail(stack), agent.callback, tried, astray)
      /\ Waiting(Tail(stack)) = Waiting(stack) /\ Running(stack) = {}
  BY <1>1, TopGone
<1>3. CASE stack' = Tail(stack) /\ UNCHANGED <<clientVars, historyVars>>
  <2>1. agent' = agent
        /\ UNCHANGED <<searches, tried, told, did, from, astray, inner>>
    BY <1>3 DEF clientVars, historyVars
  <2> QED BY <1>2, <1>3, <2>1, Moving DEF CallsInv
<1>4. CASE Finds /\ UNCHANGED did
  BY <1>4, Finding DEF Finds
<1>5. CASE Stops /\ UNCHANGED did
  <2>1. \A i \in Running(stack) : Again(did', i)
    BY <1>2
  <2> QED BY <1>5, <2>1, Stopping DEF Stops
<1> QED BY <1>3, <1>4, <1>5 DEF Listener

(* The acked game is removed.                                              *)
LEMMA RemoveStep ==
  ASSUME CallsInv, Remove, incoming' = incoming
  PROVE  CallsInv'
<1>1. /\ stack # <<>> /\ Head(stack).op = "remove" /\ stack' = Tail(stack)
      /\ agent' = agent
      /\ UNCHANGED <<searches, tried, told, did, from, astray, inner>>
  BY DEF Remove, Top, historyVars
<1>2. /\ IsSeq(Tail(stack)) /\ Recalls(Tail(stack), agent.callback, tried, astray)
      /\ Waiting(Tail(stack)) = Waiting(stack) /\ Running(stack) = {}
  BY <1>1, TopGone
<1> QED BY <1>1, <1>2, Moving DEF CallsInv

(* The joiner learns which game it claimed.                                *)
LEMMA ClaimSentStep ==
  ASSUME CallsInv, ClaimSent, incoming' = incoming
  PROVE  CallsInv'
<1> DEFINE id == Head(stack).id
<1>1. /\ stack # <<>> /\ Head(stack).op = "claimed" /\ stack' = Tail(stack)
      /\ agent' = [agent EXCEPT !.matchId = id]
      /\ UNCHANGED <<searches, tried, told, did, from, astray, inner>>
  BY DEF ClaimSent, Top, historyVars
<1>2. /\ IsSeq(Tail(stack)) /\ Recalls(Tail(stack), agent.callback, tried, astray)
      /\ Recalled(Head(stack), agent.callback, tried, astray)
      /\ Waiting(Tail(stack)) = Waiting(stack) /\ Running(stack) = {}
  BY <1>1, TopGone
<1>3. id \in Ids /\ (agent.callback = 0 \/ astray \/ <<agent.callback, id>> \in tried)
  BY <1>1, <1>2 DEF Recalled
<1>4. agent \in Agents /\ AgentOK(agent, searches, tried, astray)
  BY BusyAgent DEF CallsInv
<1> HIDE DEF id
<1>5. /\ agent' \in Agents /\ agent'.matchId = id /\ agent'.state = agent.state
      /\ agent'.callback = agent.callback /\ agent'.target = agent.target
  BY <1>1, <1>3, <1>4 DEF Agents
<1>6. AgentOK(agent', searches, tried, astray)
  BY <1>3, <1>4, <1>5 DEF AgentOK, Busy
<1> QED BY <1>1, <1>2, <1>5, <1>6, Moving DEF CallsInv

-----------------------------------------------------------------------------
(* The events                                                              *)

(* At rest no call is in progress.                                         *)
LEMMA AtRest ==
  /\ IsSeq(<<>>) /\ Waiting(<<>>) = {} /\ Running(<<>>) = {}
  /\ \A c, tr, sy : Recalls(<<>>, c, tr, sy)
BY NoCall DEF Waiting, Running, Recalls

(* A message arrives.                                                      *)
LEMMA ReceiveStep ==
  ASSUME CallsInv, stack = <<>>, incoming # None, Receive(incoming)
  PROVE  CallsInv'
<1> DEFINE id == incoming.matchId
           e == <<>>
<1>1. id \in Ids
  BY DEF CallsInv, M!Message, M!MatchIds, Ids
<1>2. /\ incoming' = None /\ inner' = 0 /\ agent' = agent
      /\ UNCHANGED <<searches, tried, told, did, from, astray>>
  BY DEF Receive
<1>3. /\ IsSeq(e) /\ Waiting(e) = {} /\ Running(e) = {} /\ e = stack
      /\ Recalls(e, agent.callback, tried, astray)
  BY AtRest
<1>4. stack' = e \/ stack' = Raise(id) \o e \/ OnAck(id, incoming.user, e)
  BY DEF Receive, OnAdvertise, OnClaim
<1> HIDE DEF id, e
<1>5. IsSeq(stack') /\ Waiting(stack') = {} /\ Recalls(stack', agent.callback, tried, astray)
  <2>1. CASE stack' = e
    BY <1>3, <2>1
  <2>2. CASE stack' = Raise(id) \o e
    BY <1>1, <1>3, <2>2, RaisedCalls
  <2>3. CASE OnAck(id, incoming.user, e)
    <3>1. IsSeq(stack') /\ Waiting(stack') = Waiting(e)
          /\ \A c, tr, sy : Recalls(e, c, tr, sy) => Recalls(stack', c, tr, sy)
      BY <1>1, <1>3, <2>3, Acking
    <3> QED BY <1>3, <3>1
  <2> QED BY <1>4, <2>1, <2>2, <2>3
<1> QED BY <1>2, <1>3, <1>5, Moving DEF CallsInv

(* The agent's own interval.                                               *)
LEMMA PollStep ==
  ASSUME CallsInv, stack = <<>>, Poll
  PROVE  CallsInv'
<1> DEFINE e == <<>>
<1>1. /\ agent.state # "IDLE" /\ Restart(e) /\ inner' = 0
      /\ UNCHANGED <<incoming, searches, did, from>>
  BY BusyAgent DEF Poll, Restart
<1>2. /\ IsSeq(e) /\ Waiting(e) = Waiting(stack) /\ Running(stack) = {}
      /\ Recalls(e, agent.callback, tried, astray)
  BY AtRest
<1> HIDE DEF e
<1> QED BY <1>1, <1>2, Restarting

(* Every step keeps what the calls remember and how searches end.          *)
LEMMA CallsStep ==
  ASSUME CallsInv, [Next]_vars
  PROVE  CallsInv'
<1>1. CASE Event
  <2>1. stack = <<>> /\ Running(stack) = {}
    BY <1>1, AtRest DEF Event
  <2>2. CASE CheckTimeouts
    <3>1. /\ stack' = stack /\ agent' = agent /\ inner' = 0
          /\ UNCHANGED <<searches, tried, told, did, from, astray, incoming>>
      BY <2>1, <2>2 DEF CheckTimeouts
    <3> QED BY <2>1, <3>1, Moving DEF CallsInv
  <2>3. CASE UserCalls
    <3>1. UNCHANGED <<incoming, did>> /\ \A i \in Running(stack) : Again(did', i)
      BY <2>1, <2>3 DEF UserCalls
    <3> QED BY <2>3, <3>1, Finding, Stopping DEF UserCalls
  <2> QED BY <1>1, <2>1, <2>2, <2>3, ReceiveStep, PollStep DEF Event
<1>2. CASE Step
  BY <1>2, AgentStep, AcceptedStep, ReturnsStep, ThrowsStep, CallbackStep,
     ListenerStep, RemoveStep, ClaimSentStep DEF Step
<1>3. CASE Environment
  <2>1. /\ stack = <<>> /\ stack' = stack /\ Running(stack) = {}
        /\ UNCHANGED <<searches, tried, told, did, from, astray, inner>>
    BY <1>3, AtRest DEF Environment, historyVars
  <2>2. agent' = agent
    BY <1>3 DEF Environment, Flush, Arrive, Tick, clientVars
  <2>3. incoming' \in M!Message \cup {None}
    BY <1>3 DEF Environment, Flush, Arrive, Tick, CallsInv
  <2> QED BY <2>1, <2>2, <2>3, Moving DEF CallsInv
<1>4. CASE UNCHANGED vars
  BY <1>4 DEF vars, clientVars, historyVars, CallsInv
<1> QED BY <1>1, <1>2, <1>3, <1>4 DEF Next

-----------------------------------------------------------------------------
(* Theorems                                                                *)

(* CallsInv is an invariant of a client, however often the callback and    *)
(* the listeners call findMatch and stopMatch in the middle of its calls   *)
(* (raiseUpdateEvent, _matchCallback, startMatch, stopMatch).              *)
THEOREM CallsInvariance == Spec => []CallsInv
<1>1. Init => CallsInv
  <2> SUFFICES ASSUME Init PROVE CallsInv
    OBVIOUS
  <2>1. /\ stack = <<>> /\ searches = 0 /\ tried = {} /\ told = <<>>
        /\ did = {} /\ from = {} /\ astray = FALSE /\ inner = 0 /\ incoming = None
        /\ agent = [state |-> "IDLE", matchId |-> None, target |-> None,
                    callback |-> 0]
    BY DEF Init, Cleared
  <2>2. AgentOK(agent, 0, {}, FALSE) /\ agent.callback = 0
    BY <2>1 DEF AgentOK, Agents, Busy
  <2>3. OwnMatch(<<>>) /\ Endings({}, {}, 0, 0, <<>>, {}, {})
    <3>1. DOMAIN <<>> = {} /\ 1..0 = {}
      OBVIOUS
    <3> QED BY <3>1, AtRest DEF Endings, OwnMatch
  <2> QED BY <2>1, <2>2, <2>3, AtRest DEF CallsInv
<1>2. CallsInv /\ [Next]_vars => CallsInv'
  BY CallsStep
<1> QED BY <1>1, <1>2, PTL DEF Spec

(* No search ends behind its user's back (startMatch, clearState): at rest *)
(* each is on or was told, or began inside a callback that then returned.  *)
THEOREM SearchesAreTold == Spec => []EverySearchIsTold
<1>1. CallsInv => EverySearchIsTold
  <2> SUFFICES ASSUME CallsInv, NEW t \in 1..searches
               PROVE  \/ agent.state # "IDLE" /\ agent.callback = t
                      \/ \E i \in DOMAIN told : told[i].search = t
                      \/ \E n \in DOMAIN told : <<t, n>> \in from
    BY DEF EverySearchIsTold
  <2>1. t = agent.callback \/ Settled(told, from, t)
    BY DEF CallsInv, Endings
  <2>2. t = agent.callback => agent.state # "IDLE"
    BY BusyAgent
  <2> QED BY <2>1, <2>2 DEF Settled
<1> QED BY <1>1, CallsInvariance, PTL

(* None is told twice unless its own callback threw out of stopMatch or    *)
(* called it again (stopMatch, _matchCallback).                            *)
THEOREM SearchesAreToldOnce == Spec => []ToldTwiceOnlyByCallback
<1>1. CallsInv => ToldTwiceOnlyByCallback
  BY DEF CallsInv, Endings, Again, ToldTwiceOnlyByCallback
<1> QED BY <1>1, CallsInvariance, PTL

(* A search begun inside a callback is over when all calls have returned,  *)
(* unless that callback threw out of stopMatch (startMatch, clearState).   *)
THEOREM CallbackSearchesEnd == Spec => []CallbacksSearchInVain
<1>1. CallsInv => CallbacksSearchInVain
  <2> SUFFICES ASSUME CallsInv, stack = <<>>, NEW n \in DOMAIN told,
                      <<agent.callback, n>> \in from
               PROVE  <<n, "throw">> \in did
    BY DEF CallbacksSearchInVain
  <2>1. Waiting(stack) = {}
    BY AtRest
  <2> QED BY <2>1 DEF CallsInv, Endings
<1> QED BY <1>1, CallsInvariance, PTL

(* A callback hears of no other search's match, unless its search began    *)
(* while the claim or the acceptance of another was still being sent       *)
(* (startMatch, handleMatchStateUpdate).                                   *)
THEOREM CallbacksHearTheirOwn == Spec => []ToldOfOwnMatch
<1>1. CallsInv => ToldOfOwnMatch
  BY DEF CallsInv, OwnMatch, ToldOfOwnMatch
<1> QED BY <1>1, CallsInvariance, PTL

-----------------------------------------------------------------------------
(* Maps                                                                    *)

Maps == [Ids -> M!MatchState \cup {None}]
Posts == [M!Message -> Nat]

(* What the agent looks for in the entry of a game: an ack, a claim.       *)
Acked(mp, id) == mp[id] # None /\ mp[id].acksSeen # <<>>
Unanswered(mp, id) == mp[id] # None /\ mp[id].claimsSeen # <<>>

(* An entry and what the handlers make of it.                              *)
LEMMA Entries ==
  ASSUME NEW e \in M!MatchState
  PROVE  /\ e # None
         /\ e.claimsSeen \in Seq(Nodes) /\ e.acksSeen \in Seq(Nodes)
         /\ LET x == [e EXCEPT !.seenAge = 0]
            IN x \in M!MatchState /\ x.claimsSeen = e.claimsSeen
               /\ x.acksSeen = e.acksSeen
         /\ \A user \in Nodes :
              /\ M!WithClaim(e, user) \in M!MatchState
              /\ M!WithClaim(e, user).claimsSeen = Append(e.claimsSeen, user)
              /\ M!WithClaim(e, user).acksSeen = e.acksSeen
              /\ M!WithAck(e, user) \in M!MatchState
              /\ M!WithAck(e, user).acksSeen = Append(e.acksSeen, user)
              /\ M!WithAck(e, user).claimsSeen = e.claimsSeen
<1>1. e # None
  BY FoldsAssumption
<1>2. e.claimsSeen \in Seq(Nodes) /\ e.acksSeen \in Seq(Nodes)
      /\ e.seenAge \in 0..M!SeenLimit
  BY DEF M!MatchState
<1>3. M!SeenLimit \in Nat /\ 0 \in 0..M!SeenLimit
  BY FoldsAssumption DEF M!SeenLimit
<1>4. ASSUME NEW user \in Nodes
      PROVE  Append(e.claimsSeen, user) \in Seq(Nodes)
             /\ Append(e.acksSeen, user) \in Seq(Nodes)
  BY <1>2
<1> QED BY <1>1, <1>2, <1>3, <1>4 DEF M!MatchState, M!WithClaim, M!WithAck

(* A new entry.                                                            *)
LEMMA NewEntry ==
  /\ M!NewMatch \in M!MatchState
  /\ M!NewMatch.claimsSeen = <<>> /\ M!NewMatch.acksSeen = <<>>
<1>1. M!SeenLimit \in Nat /\ 0 \in 0..M!SeenLimit
  BY FoldsAssumption DEF M!SeenLimit
<1>2. <<>> \in Seq(Nodes)
  OBVIOUS
<1> QED BY <1>1, <1>2 DEF M!NewMatch, M!MatchState

(* An advert makes an entry or makes it young again, ...                   *)
LEMMA Advertised ==
  ASSUME NEW mp \in Maps, NEW id \in Ids
  PROVE  LET new == M!HandleAdvertise(mp, id)
         IN /\ new \in Maps /\ new[id] # None
            /\ \A i \in Ids : i # id => new[i] = mp[i]
            /\ \A i \in Ids : Acked(new, i) => Acked(mp, i)
            /\ \A i \in Ids : Unanswered(new, i) => Unanswered(mp, i)
            /\ mp[id] # None => new[id].claimsSeen = mp[id].claimsSeen
                                /\ new[id].acksSeen = mp[id].acksSeen
<1> DEFINE new == M!HandleAdvertise(mp, id)
           e == mp[id]
<1>1. mp[id] \in M!MatchState \cup {None}
  BY DEF Maps
<1>2. new = [mp EXCEPT ![id] = IF e = None THEN M!NewMatch
                               ELSE [e EXCEPT !.seenAge = 0]]
  BY DEF M!HandleAdvertise
<1>3. /\ new[id] = IF e = None THEN M!NewMatch ELSE [e EXCEPT !.seenAge = 0]
      /\ \A i \in Ids : i # id => new[i] = mp[i]
      /\ new[id] \in M!MatchState => new \in Maps
  BY <1>2 DEF Maps
<1> HIDE DEF new
<1>4. CASE e = None
  BY <1>3, <1>4, NewEntry, Entries DEF Acked, Unanswered, new
<1>5. CASE e # None
  <2>1. e \in M!MatchState
    BY <1>1, <1>5
  <2> HIDE DEF e
  <2>2. /\ new[id] \in M!MatchState /\ new[id].claimsSeen = e.claimsSeen
        /\ new[id].acksSeen = e.acksSeen
    BY <1>3, <1>5, <2>1, Entries
  <2> QED BY <1>3, <1>5, <2>2, Entries DEF Acked, Unanswered, new, e
<1> QED BY <1>4, <1>5

(* ... a claim and an ack are appended to it, ...                          *)
LEMMA Claimed ==
  ASSUME NEW mp \in Maps, NEW id \in Ids, NEW user \in Nodes,
         M!NewClaim(mp, id, user)
  PROVE  LET new == M!HandleClaim(mp, id, user)
         IN /\ new \in Maps /\ new[id] # None
            /\ new[id].claimsSeen = Append(mp[id].claimsSeen, user)
            /\ new[id].acksSeen = mp[id].acksSeen
            /\ \A i \in Ids : i # id => new[i] = mp[i]
<1> DEFINE new == M!HandleClaim(mp, id, user)
           e == mp[id]
<1>1. e \in M!MatchState
  BY DEF Maps, M!NewClaim, M!Listed
<1>2. new = [mp EXCEPT ![id] = M!WithClaim(e, user)]
  BY DEF M!HandleClaim
<1> HIDE DEF e
<1>3. M!WithClaim(e, user) \in M!MatchState
      /\ M!WithClaim(e, user).claimsSeen = Append(e.claimsSeen, user)
      /\ M!WithClaim(e, user).acksSeen = e.acksSeen
  BY <1>1, Entries
<1>4. new \in Maps /\ new[id] = M!WithClaim(e, user)
      /\ \A i \in Ids : i # id => new[i] = mp[i]
  BY <1>2, <1>3 DEF Maps
<1> HIDE DEF new
<1>5. new[id] # None
  BY <1>3, <1>4, Entries
<1> QED BY <1>3, <1>4, <1>5 DEF new, e

(* An ack on record.                                                       *)
LEMMA AckNoted ==
  ASSUME NEW mp \in Maps, NEW id \in Ids, NEW user \in Nodes,
         M!NewAck(mp, id, user)
  PROVE  LET new == M!HandleAck(mp, id, user)
         IN /\ new \in Maps /\ new[id] # None
            /\ new[id].acksSeen = Append(mp[id].acksSeen, user)
            /\ new[id].claimsSeen = mp[id].claimsSeen
            /\ \A i \in Ids : i # id => new[i] = mp[i]
<1> DEFINE new == M!HandleAck(mp, id, user)
           e == mp[id]
<1>1. e \in M!MatchState
  BY DEF Maps, M!NewAck, M!Listed
<1>2. new = [mp EXCEPT ![id] = M!WithAck(e, user)]
  BY DEF M!HandleAck
<1> HIDE DEF e
<1>3. M!WithAck(e, user) \in M!MatchState
      /\ M!WithAck(e, user).acksSeen = Append(e.acksSeen, user)
      /\ M!WithAck(e, user).claimsSeen = e.claimsSeen
  BY <1>1, Entries
<1>4. new \in Maps /\ new[id] = M!WithAck(e, user)
      /\ \A i \in Ids : i # id => new[i] = mp[i]
  BY <1>2, <1>3 DEF Maps
<1> HIDE DEF new
<1>5. new[id] # None
  BY <1>3, <1>4, Entries
<1> QED BY <1>3, <1>4, <1>5 DEF new, e

(* ... and entries are removed.                                            *)
LEMMA Removed ==
  ASSUME NEW mp \in Maps, NEW S
  PROVE  LET new == M!Without(mp, S)
         IN /\ new \in Maps
            /\ \A i \in Ids : new[i] = IF i \in S THEN None ELSE mp[i]
            /\ \A i \in Ids : Acked(new, i) => Acked(mp, i) /\ i \notin S
            /\ \A i \in Ids : Unanswered(new, i) => Unanswered(mp, i) /\ i \notin S
<1> DEFINE new == M!Without(mp, S)
<1>1. new = [i \in Ids |-> IF i \in S THEN None ELSE mp[i]]
  BY DEF M!Without, M!MatchIds, Ids
<1>2. new \in Maps /\ \A i \in Ids : new[i] = IF i \in S THEN None ELSE mp[i]
  BY <1>1 DEF Maps
<1> HIDE DEF new
<1> QED BY <1>2 DEF new, Acked, Unanswered

(* Removals add up.                                                        *)
LEMMA RemovedTwice ==
  ASSUME NEW mp \in Maps, NEW S, NEW T
  PROVE  /\ M!Without(M!Without(mp, S), T) = M!Without(mp, S \cup T)
         /\ M!Without(mp, {}) = mp
<1>1. \A R : M!Without(mp, R) = [i \in Ids |-> IF i \in R THEN None ELSE mp[i]]
  BY DEF M!Without, M!MatchIds, Ids
<1>2. \A R, x : M!Without(x, R) = [i \in Ids |-> IF i \in R THEN None ELSE x[i]]
  BY DEF M!Without, M!MatchIds, Ids
<1>3. mp = [i \in Ids |-> mp[i]]
  BY DEF Maps
<1>4. M!Without(mp, {}) = mp
  <2>1. M!Without(mp, {}) = [i \in Ids |-> mp[i]]
    BY <1>1
  <2> QED BY <1>3, <2>1
<1>5. M!Without(M!Without(mp, S), T) = M!Without(mp, S \cup T)
  <2> DEFINE x == M!Without(mp, S)
  <2>1. \A i \in Ids : x[i] = IF i \in S THEN None ELSE mp[i]
    BY <1>1
  <2>2. M!Without(x, T) = [i \in Ids |-> IF i \in T THEN None ELSE x[i]]
    BY <1>2
  <2>3. M!Without(mp, S \cup T) = [i \in Ids |-> IF i \in S \cup T THEN None ELSE mp[i]]
    BY <1>1
  <2> HIDE DEF x
  <2>4. \A i \in Ids : (IF i \in T THEN None ELSE x[i])
                         = (IF i \in S \cup T THEN None ELSE mp[i])
    BY <2>1
  <2>5. M!Without(x, T) = M!Without(mp, S \cup T)
    BY <2>2, <2>3, <2>4
  <2> QED BY <2>5 DEF x
<1> QED BY <1>4, <1>5

(* What is done to one game does not matter to one who removes it.         *)
LEMMA RemovedAnyway ==
  ASSUME NEW mp \in Maps, NEW new \in Maps, NEW id,
         \A i \in Ids : i # id => new[i] = mp[i], NEW S, id \in S
  PROVE  M!Without(new, S) = M!Without(mp, S)
<1>1. \A x : M!Without(x, S) = [i \in Ids |-> IF i \in S THEN None ELSE x[i]]
  BY DEF M!Without, M!MatchIds, Ids
<1>2. \A i \in Ids : (IF i \in S THEN None ELSE new[i])
                       = (IF i \in S THEN None ELSE mp[i])
  OBVIOUS
<1> QED BY <1>1, <1>2

-----------------------------------------------------------------------------
(* What is unfinished in the map and the calls that will finish it         *)

Removes(st, id) == \E x \in Range(st) : x.op = "remove" /\ x.id = id

(* A call that clears the agent when it goes on, whatever happens.         *)
Ends(x) == x.op = "accepted" \/ (x.op = "called" /\ ~x.stops)
Closes(st) == \E x \in Range(st) : Ends(x)

Asks(st, id) == st # <<>> /\ Head(st).op = "agent" /\ Head(st).id = id

Hosts(a) == a.state = "SERVING_WAITING_CLAIMS"
Joins(a) == a.state = "JOINING_WAITING_ACK"

(* Claims that are being sent are for games of others, and no host that is *)
(* not astray sends one.                                                   *)
Sending(a, st, sy) ==
  \A x \in Range(st) :
    x.op = "claimed" => x.id.advertiser # Me /\ (~Hosts(a) \/ sy)

(* A host serves a game of its own, a joiner waits for another's.          *)
Sides(a, sy) ==
  /\ Hosts(a) => a.matchId \in Ids
  /\ Hosts(a) /\ ~sy => a.matchId.advertiser = Me
  /\ Joins(a) /\ a.matchId # None /\ ~sy => a.matchId.advertiser # Me

(* An acked game is about to be removed, and a claim on a served game is   *)
(* about to be seen or was seen.                                           *)
Tidy(mp, a, st, sy) ==
  /\ \A id \in Ids : Acked(mp, id) => Removes(st, id)
  /\ Hosts(a) /\ Unanswered(mp, a.matchId) /\ ~sy => Asks(st, a.matchId) \/ Closes(st)
  /\ Sides(a, sy)
  /\ Sending(a, st, sy)

MapInv ==
  /\ map \in Maps
  /\ outbox \in Posts
  /\ Tidy(map, agent, stack, astray)

(* Publishing adds a copy.                                                 *)
Posted(o, m) == [o EXCEPT ![m] = M!Older(@, MaxCopies)]

(* A copy more is a copy.                                                  *)
LEMMA PostedType ==
  ASSUME NEW o \in Posts, NEW m PROVE Posted(o, m) \in Posts
<1>1. \A x \in Nat : M!Older(x, MaxCopies) \in Nat
  BY FoldsAssumption DEF M!Older
<1>2. CASE m \in M!Message
  <2>1. M!Older(o[m], MaxCopies) \in Nat
    BY <1>1, <1>2 DEF Posts
  <2> QED BY <2>1 DEF Posted, Posts
<1>3. CASE m \notin M!Message
  BY <1>3 DEF Posted, Posts
<1> QED BY <1>2, <1>3

(* What waits is what is on top and what waits under it.                   *)
LEMMA WaitsUnder ==
  ASSUME NEW st, IsSeq(st), st # <<>>
  PROVE  /\ IsSeq(Tail(st))
         /\ \A id : Removes(st, id) =>
              Removes(Tail(st), id) \/ (Head(st).op = "remove" /\ Head(st).id = id)
         /\ Closes(st) => Closes(Tail(st)) \/ Ends(Head(st))
         /\ \A a, sy : Sending(a, st, sy) => Sending(a, Tail(st), sy)
         /\ \A a, sy : Sending(a, st, sy) /\ Head(st).op = "claimed" =>
              Head(st).id.advertiser # Me /\ (~Hosts(a) \/ sy)
<1>1. Range(st) = {Head(st)} \cup Range(Tail(st)) /\ IsSeq(Tail(st))
  BY Split
<1> QED BY <1>1 DEF Removes, Closes, Sending

(* What waits under a call still waits under a call more.                  *)
LEMMA WaitsOver ==
  ASSUME NEW x, NEW q, IsSeq(q)
  PROVE  /\ \A id : Removes(q, id) \/ (x.op = "remove" /\ x.id = id) =>
              Removes(Cons(x, q), id)
         /\ Closes(q) \/ Ends(x) => Closes(Cons(x, q))
         /\ \A a, sy : Sending(a, q, sy) /\ x.op # "claimed" =>
              Sending(a, Cons(x, q), sy)
         /\ \A a, sy : Sending(a, q, sy) /\ x.id.advertiser # Me /\ (~Hosts(a) \/ sy) =>
              Sending(a, Cons(x, q), sy)
<1>1. Range(Cons(x, q)) = {x} \cup Range(q)
  BY OnTopOf
<1> QED BY <1>1 DEF Removes, Closes, Sending

(* Whatever the agent does now: it sends no claim, or it is astray.        *)
LEMMA StillSends ==
  ASSUME NEW a, NEW st, NEW sy, Sending(a, st, sy), NEW b, NEW sy2,
         sy2 \/ ~Hosts(b) \/ ~Midway(st)
  PROVE  Sending(b, st, sy2)
BY CallsOfStack DEF Sending

(* An update event on top of the calls that wait.                          *)
LEMMA RaisedStack ==
  ASSUME NEW id, NEW q, IsSeq(q)
  PROVE  LET st == Raise(id) \o q
             l == [op |-> "listener", id |-> id]
             a == [op |-> "agent", id |-> id]
         IN /\ st = Cons(a, Cons(l, q)) /\ IsSeq(st)
            /\ Asks(st, id)
            /\ \A i : Removes(q, i) => Removes(st, i)
            /\ Closes(q) => Closes(st)
            /\ \A b, sy : Sending(b, q, sy) => Sending(b, st, sy)
<1> DEFINE l == [op |-> "listener", id |-> id]
           a == [op |-> "agent", id |-> id]
           st == Raise(id) \o q
           t == Cons(l, q)
<1>1. st = Cons(a, t)
  BY OneByOne DEF Raise
<1>2. a.op = "agent" /\ a.id = id /\ l.op = "listener"
  OBVIOUS
<1> HIDE DEF a, l, st
<1>3. IsSeq(t)
  BY TopOf
<1>4. /\ \A i : Removes(q, i) => Removes(t, i)
      /\ Closes(q) => Closes(t)
      /\ \A b, sy : Sending(b, q, sy) => Sending(b, t, sy)
  BY <1>2, WaitsOver
<1> HIDE DEF t
<1>5. IsSeq(st) /\ Asks(st, id)
  BY <1>1, <1>2, <1>3, TopOf DEF Asks
<1>6. /\ \A i : Removes(t, i) => Removes(st, i)
      /\ Closes(t) => Closes(st)
      /\ \A b, sy : Sending(b, t, sy) => Sending(b, st, sy)
  BY <1>1, <1>2, <1>3, WaitsOver
<1> QED BY <1>1, <1>4, <1>5, <1>6 DEF st, a, l, t

(* Starting a search keeps the map tidy, however it starts.                *)
LEMMA StartTidy ==
  ASSUME map \in Maps, outbox \in Posts,
         NEW wish \in Wishes, NEW search, NEW rest, IsSeq(rest),
         \A id \in Ids : Acked(map, id) => Removes(rest, id),
         NEW a, NEW sy, Sending(a, rest, sy),
         StartMatch(wish, search, rest)
  PROVE  MapInv'
<1> DEFINE own == M!getMatchID(Me, Head(wish))
           open == M!Joinable(Me, wish, map)
<1>1. own \in Ids /\ own.advertiser = Me
  <2>1. Me \in Nodes /\ Head(wish) \in Games
    BY CallsAssumption
  <2> QED BY <2>1 DEF Ids, M!getMatchID
<1>2. \A id \in open : id \in Ids /\ id.advertiser # Me
  BY DEF M!Joinable, M!MatchIds, Ids
<1>3. Sending(agent', rest, astray')
  <2>1. astray' = Midway(rest)
    BY DEF StartMatch
  <2> QED BY <2>1, StillSends
<1> HIDE DEF own, open
<1>4. ASSUME NEW id \in open,
             agent' = [state |-> "JOINING_WAITING_ACK", matchId |-> None,
                       target |-> wish, callback |-> search],
             Publish(M!ClaimMsg(id, Me)),
             OnClaim(id, Me, <<[op |-> "claimed", id |-> id]>> \o rest)
      PROVE  MapInv'
  <2> DEFINE x == [op |-> "claimed", id |-> id]
             q == Cons(x, rest)
  <2>1. /\ map' = M!HandleClaim(map, id, Me)
        /\ stack' = IF M!NewClaim(map, id, Me) THEN Raise(id) \o q ELSE q
    BY <1>4 DEF OnClaim, Cons
  <2>2. x.op = "claimed" /\ x.id = id /\ ~Hosts(agent') /\ agent'.matchId = None
    BY <1>4 DEF Hosts
  <2> HIDE DEF x
  <2>3. /\ IsSeq(q) /\ \A i : Removes(rest, i) => Removes(q, i)
        /\ Sending(agent', q, astray')
    BY <1>2, <1>3, <2>2, TopOf, WaitsOver
  <2> HIDE DEF q
  <2>4. /\ \A i : Removes(q, i) => Removes(stack', i)
        /\ Sending(agent', stack', astray')
    BY <2>1, <2>3, RaisedStack
  <2>5. /\ map' \in Maps
        /\ \A i \in Ids : Acked(map', i) => Acked(map, i)
    <3>1. CASE M!NewClaim(map, id, Me)
      <4>1. /\ map' \in Maps /\ map'[id].acksSeen = map[id].acksSeen
            /\ \A i \in Ids : i # id => map'[i] = map[i]
        BY <1>2, <2>1, <3>1, CallsAssumption, Claimed
      <4>2. map[id] # None
        BY <3>1 DEF M!NewClaim, M!Listed
      <4> QED BY <4>1, <4>2 DEF Acked
    <3>2. CASE ~M!NewClaim(map, id, Me)
      BY <2>1, <3>2 DEF M!HandleClaim
    <3> QED BY <3>1, <3>2
  <2>6. outbox' \in Posts
    BY <1>4, PostedType DEF Publish, Posted
  <2>7. Sides(agent', astray')
    BY <2>2 DEF Sides, Joins
  <2> QED BY <2>2, <2>3, <2>4, <2>5, <2>6, <2>7 DEF MapInv, Tidy
<1>5. ASSUME agent' = [state |-> "SERVING_WAITING_CLAIMS", matchId |-> own,
                       target |-> wish, callback |-> search],
             Publish(M!AdvertiseMsg(own)),
             OnAdvertise(own, rest)
      PROVE  MapInv'
  <2>1. map' = M!HandleAdvertise(map, own) /\ stack' = Raise(own) \o rest
    BY <1>5 DEF OnAdvertise
  <2>2. /\ Asks(stack', own) /\ Sending(agent', stack', astray')
        /\ \A i : Removes(rest, i) => Removes(stack', i)
    BY <1>3, <2>1, RaisedStack
  <2>3. map' \in Maps /\ \A i \in Ids : Acked(map', i) => Acked(map, i)
    BY <1>1, <2>1, Advertised
  <2>4. outbox' \in Posts
    BY <1>5, PostedType DEF Publish, Posted
  <2>5. Sides(agent', astray') /\ agent'.matchId = own
    BY <1>1, <1>5 DEF Sides, Joins
  <2> QED BY <2>2, <2>3, <2>4, <2>5 DEF MapInv, Tidy
<1> QED BY <1>4, <1>5 DEF StartMatch, own, open

(* The pushes of an ack.                                                   *)
LEMMA AckedStack ==
  ASSUME NEW id, NEW q, IsSeq(q)
  PROVE  LET l == [op |-> "listener", id |-> id]
             a == [op |-> "agent", id |-> id]
             x == [op |-> "remove", id |-> id]
             st == Raise(id) \o <<x>> \o q
         IN /\ st = Cons(a, Cons(l, Cons(x, q))) /\ IsSeq(st)
            /\ Removes(st, id) /\ Asks(st, id)
            /\ \A i : Removes(q, i) => Removes(st, i)
            /\ Closes(q) => Closes(st)
            /\ \A b, sy : Sending(b, q, sy) => Sending(b, st, sy)
<1> DEFINE l == [op |-> "listener", id |-> id]
           a == [op |-> "agent", id |-> id]
           x == [op |-> "remove", id |-> id]
           st == Raise(id) \o <<x>> \o q
           t == Cons(x, q)
           u == Cons(l, t)
<1>1. st = Cons(a, u)
  BY OneByOne DEF Raise
<1>2. /\ a.op = "agent" /\ a.id = id /\ l.op = "listener"
      /\ x.op = "remove" /\ x.id = id
  OBVIOUS
<1> HIDE DEF a, l, x, st
<1>3. /\ IsSeq(t) /\ \A i : Removes(q, i) \/ i = id => Removes(t, i)
      /\ Closes(q) => Closes(t)
      /\ \A b, sy : Sending(b, q, sy) => Sending(b, t, sy)
  BY <1>2, TopOf, WaitsOver
<1> HIDE DEF t
<1>4. /\ IsSeq(u) /\ \A i : Removes(t, i) => Removes(u, i)
      /\ Closes(t) => Closes(u)
      /\ \A b, sy : Sending(b, t, sy) => Sending(b, u, sy)
  BY <1>2, <1>3, TopOf, WaitsOver
<1> HIDE DEF u
<1>5. IsSeq(st) /\ Asks(st, id)
  BY <1>1, <1>2, <1>4, TopOf DEF Asks
<1>6. /\ \A i : Removes(u, i) => Removes(st, i)
      /\ Closes(u) => Closes(st)
      /\ \A b, sy : Sending(b, u, sy) => Sending(b, st, sy)
  BY <1>1, <1>2, <1>4, WaitsOver
<1>7. /\ st = Cons(a, u) /\ IsSeq(st) /\ Removes(st, id) /\ Asks(st, id)
      /\ \A i : Removes(q, i) => Removes(st, i)
      /\ Closes(q) => Closes(st)
      /\ \A b, sy : Sending(b, q, sy) => Sending(b, st, sy)
  BY <1>1, <1>3, <1>4, <1>5, <1>6
<1> QED BY <1>7 DEF st, a, l, x, t, u

(* What an ack does to a map whose acked games wait to be removed.         *)
LEMMA AckTidy ==
  ASSUME map \in Maps, NEW id \in Ids, NEW user \in Nodes, NEW rest, IsSeq(rest),
         OnAck(id, user, rest), \A i \in Ids : Acked(map, i) => Removes(rest, i)
  PROVE  /\ map' \in Maps
         /\ \A i \in Ids : Acked(map', i) => Removes(stack', i)
         /\ \A i \in Ids : Unanswered(map', i) => Unanswered(map, i)
         /\ Closes(rest) => Closes(stack')
         /\ \A b, sy : Sending(b, rest, sy) => Sending(b, stack', sy)
<1>1. CASE M!NewAck(map, id, user)
  <2>1. /\ map' = M!HandleAck(map, id, user)
        /\ stack' = Raise(id) \o <<[op |-> "remove", id |-> id]>> \o rest
    BY <1>1 DEF OnAck
  <2>2. /\ map' \in Maps /\ map'[id].claimsSeen = map[id].claimsSeen
        /\ map[id] # None
        /\ \A i \in Ids : i # id => map'[i] = map[i]
    BY <1>1, <2>1, AckNoted DEF M!NewAck, M!Listed
  <2>3. /\ Removes(stack', id)
        /\ \A i : Removes(rest, i) => Removes(stack', i)
        /\ Closes(rest) => Closes(stack')
        /\ \A b, sy : Sending(b, rest, sy) => Sending(b, stack', sy)
    BY <2>1, AckedStack
  <2> QED BY <2>2, <2>3 DEF Acked, Unanswered
<1>2. CASE ~M!NewAck(map, id, user)
  BY <1>2 DEF OnAck
<1> QED BY <1>1, <1>2

(* A stack without its top call is as tidy, if that call had nothing to    *)
(* finish.                                                                 *)
LEMMA TidyTail ==
  ASSUME NEW mp, NEW a, NEW st, IsSeq(st), st # <<>>, NEW sy, Tidy(mp, a, st, sy),
         Head(st).op \notin {"agent", "remove"}, ~Ends(Head(st))
  PROVE  Tidy(mp, a, Tail(st), sy)
<1>1. ~Asks(st, a.matchId)
  BY DEF Asks
<1>2. /\ \A id : Removes(st, id) => Removes(Tail(st), id)
      /\ Closes(st) => Closes(Tail(st))
      /\ Sending(a, st, sy) => Sending(a, Tail(st), sy)
  BY WaitsUnder
<1> QED BY <1>1, <1>2 DEF Tidy

(* An idle agent has nothing to answer.                                    *)
LEMMA ClearTidy ==
  ASSUME NEW mp, NEW st, \A id \in Ids : Acked(mp, id) => Removes(st, id),
         NEW a, NEW sy, Sending(a, st, sy), Clear
  PROVE  Tidy(mp, agent', st, astray')
<1>1. agent'.state = "IDLE"
  BY DEF Clear, Cleared
<1>2. ~Hosts(agent') /\ ~Joins(agent')
  BY <1>1 DEF Hosts, Joins
<1>3. Sending(agent', st, astray')
  BY <1>2, StillSends
<1> QED BY <1>2, <1>3 DEF Tidy, Sides

(* Telling the callback.                                                   *)
LEMMA TellTidy ==
  ASSUME map' \in Maps, outbox' \in Posts, NEW rest, IsSeq(rest),
         NEW id, NEW user, NEW by, NEW stops,
         \A i \in Ids : Acked(map', i) => Removes(rest, i),
         Hosts(agent) /\ Unanswered(map', agent.matchId) /\ ~astray =>
           Closes(rest) \/ ~stops,
         Sides(agent, astray), Sending(agent, rest, astray), Tell(id, user, by, stops, rest)
  PROVE  MapInv'
<1>1. CASE agent.callback = 0
  <2>1. Clear /\ stack' = rest
    BY <1>1 DEF Tell
  <2> QED BY <2>1, ClearTidy DEF MapInv
<1>2. CASE agent.callback # 0
  <2> DEFINE x == [op |-> "called", n |-> Len(told) + 1, stops |-> stops]
  <2>1. stack' = Cons(x, rest) /\ agent' = agent /\ astray' = astray
    BY <1>2 DEF Tell, Cons
  <2>2. x.op = "called" /\ (~stops => Ends(x))
    BY DEF Ends
  <2> HIDE DEF x
  <2>3. /\ \A i : Removes(rest, i) => Removes(stack', i)
        /\ Closes(rest) \/ ~stops => Closes(stack')
        /\ Sending(agent, stack', astray)
    BY <2>1, <2>2, WaitsOver
  <2> QED BY <2>1, <2>3 DEF MapInv, Tidy
<1> QED BY <1>1, <1>2

(* findMatch and stopMatch, wherever they are called.                      *)
LEMMA UserTidy ==
  ASSUME CallsInv, MapInv, (\E wish \in Wishes : FindMatch(wish)) \/ StopMatch,
         \A i : ~Asks(stack, i)
  PROVE  MapInv'
<1>1. /\ IsSeq(stack) /\ map \in Maps /\ outbox \in Posts
      /\ \A id \in Ids : Acked(map, id) => Removes(stack, id)
      /\ Sides(agent, astray) /\ Sending(agent, stack, astray)
      /\ Hosts(agent) /\ Unanswered(map, agent.matchId) /\ ~astray => Closes(stack)
  BY DEF CallsInv, MapInv, Tidy
<1>2. ASSUME NEW wish \in Wishes, FindMatch(wish)
      PROVE  MapInv'
  <2>1. StartMatch(wish, searches + 1, stack)
    BY <1>2 DEF FindMatch
  <2> QED BY <1>1, <2>1, StartTidy
<1>3. CASE StopMatch
  <2>1. Tell(None, None, agent.callback, TRUE, stack)
    BY <1>3 DEF StopMatch
  <2>2. CASE agent.state = "SERVING_WAITING_CLAIMS"
    <3>1. /\ map' = M!Without(map, {agent.matchId})
          /\ outbox' = Posted(outbox, M!UnadvertiseMsg(agent.matchId))
      BY <1>3, <2>2 DEF StopMatch, Unadvertise, Publish, Posted
    <3>2. /\ map' \in Maps /\ ~Unanswered(map', agent.matchId)
          /\ \A i \in Ids : Acked(map', i) => Acked(map, i)
      <4>1. agent.matchId \in Ids
        BY <1>1, <2>2 DEF Sides, Hosts
      <4> QED BY <1>1, <3>1, <4>1, Removed
    <3>3. outbox' \in Posts
      BY <1>1, <3>1, PostedType
    <3> QED BY <1>1, <2>1, <3>2, <3>3, TellTidy
  <2>3. CASE agent.state # "SERVING_WAITING_CLAIMS"
    <3>1. map' = map /\ outbox' = outbox
      BY <1>3, <2>3 DEF StopMatch
    <3> QED BY <1>1, <2>1, <3>1, TellTidy
  <2> QED BY <2>2, <2>3
<1> QED BY <1>2, <1>3

(* The world outside touches no more than ages and what is under way.      *)
LEMMA WorldTidy ==
  ASSUME MapInv, Environment
  PROVE  MapInv'
<1>1. stack' = stack /\ agent' = agent /\ astray' = astray
  BY DEF Environment, Flush, Arrive, Tick, clientVars, historyVars
<1>2. CASE map' = map
  <2>1. Nothing \in Posts
    BY DEF Nothing, Posts
  <2>2. outbox' \in Posts
    BY <1>2, <2>1 DEF Environment, Flush, Arrive, Tick, clientVars, MapInv
  <2> QED BY <1>1, <1>2, <2>2 DEF MapInv
<1>3. CASE Tick
  <2>1. ASSUME NEW e \in M!MatchState
        PROVE  LET x == [e EXCEPT !.seenAge = M!Older(@, M!SeenLimit)]
               IN x \in M!MatchState /\ x.claimsSeen = e.claimsSeen
                  /\ x.acksSeen = e.acksSeen
    <3>1. M!SeenLimit \in Nat
      BY FoldsAssumption DEF M!SeenLimit
    <3>2. M!Older(e.seenAge, M!SeenLimit) \in 0..M!SeenLimit
      BY <3>1 DEF M!Older, M!MatchState
    <3> QED BY <3>2 DEF M!MatchState
  <2>2. /\ outbox' = outbox
        /\ map' = [id \in Ids |->
                     IF map[id] # None
                     THEN [map[id] EXCEPT !.seenAge = M!Older(@, M!SeenLimit)]
                     ELSE None]
    BY <1>3 DEF Tick, M!Listed, M!MatchIds, Ids
  <2>3. ASSUME NEW id \in Ids
        PROVE  /\ map'[id] \in M!MatchState \cup {None}
               /\ Acked(map', id) => Acked(map, id)
               /\ Unanswered(map', id) => Unanswered(map, id)
    <3>1. map[id] \in M!MatchState \cup {None}
      BY DEF MapInv, Maps
    <3>2. map'[id] = IF map[id] # None
                     THEN [map[id] EXCEPT !.seenAge = M!Older(@, M!SeenLimit)]
                     ELSE None
      BY <2>2
    <3>3. CASE map[id] = None
      BY <3>2, <3>3 DEF Acked, Unanswered
    <3>4. CASE map[id] \in M!MatchState
      BY <2>1, <3>2, <3>4, Entries DEF Acked, Unanswered
    <3> QED BY <3>1, <3>3, <3>4
  <2>4. map' \in Maps
    BY <2>2, <2>3 DEF Maps
  <2> QED BY <1>1, <2>2, <2>3, <2>4 DEF MapInv, Tidy, Sides
<1> QED BY <1>2, <1>3 DEF Environment, Flush, Arrive, clientVars

(* The agent leaves a tidy map.                                            *)
LEMMA AgentTidy ==
  ASSUME CallsInv, MapInv, Agent
  PROVE  MapInv'
<1> DEFINE id == Head(stack).id
           rest == Tail(stack)
           first == Head(map[id].claimsSeen)
           by == IF <<agent.callback, id>> \in tried THEN agent.callback ELSE 0
<1>1. stack # <<>> /\ Head(stack).op = "agent" /\ IsSeq(stack)
  BY DEF Agent, Top, CallsInv
<1>2. /\ IsSeq(rest)
      /\ \A i : Removes(stack, i) => Removes(rest, i)
      /\ Closes(stack) => Closes(rest)
      /\ \A a, sy : Sending(a, stack, sy) => Sending(a, rest, sy)
  <2>1. ~Ends(Head(stack))
    BY <1>1 DEF Ends
  <2> QED BY <1>1, <2>1, WaitsUnder
<1>3. /\ \A i \in Ids : Acked(map, i) => Removes(rest, i)
      /\ map \in Maps /\ outbox \in Posts
      /\ Sides(agent, astray) /\ Sending(agent, rest, astray)
      /\ Hosts(agent) /\ Unanswered(map, agent.matchId) /\ ~astray =>
           agent.matchId = id \/ Closes(rest)
  BY <1>2 DEF MapInv, Tidy, Asks
<1>4. id \in Ids
  BY <1>1, TopGone DEF Recalled
<1>5. CASE /\ Concerns(id) /\ agent.state = "SERVING_WAITING_CLAIMS"
           /\ map[id].claimsSeen # <<>>
           /\ Publish(M!AckMsg(id, first))
           /\ OnAck(id, first,
               <<[op |-> "accepted", id |-> id, user |-> first, by |-> by]>> \o rest)
           /\ UNCHANGED <<agent, astray>>
  <2> DEFINE x == [op |-> "accepted", id |-> id, user |-> first, by |-> by]
             q == Cons(x, rest)
  <2>1. first \in Nodes
    <3>1. map[id] \in M!MatchState /\ map[id].claimsSeen # <<>>
      BY <1>3, <1>4, <1>5 DEF Maps, Concerns, M!Listed
    <3>2. map[id].claimsSeen \in Seq(Nodes)
      BY <3>1, Entries
    <3> QED BY <3>1, <3>2
  <2>2. OnAck(id, first, q)
    BY <1>5 DEF Cons
  <2>3. x.op = "accepted" /\ Ends(x)
    BY DEF Ends
  <2>4. outbox' \in Posts /\ agent' = agent /\ astray' = astray
    BY <1>3, <1>5, PostedType DEF Publish, Posted
  <2> HIDE DEF x, first, rest, id
  <2>5. /\ IsSeq(q) /\ Closes(q)
        /\ \A i : Removes(rest, i) => Removes(q, i)
        /\ Sending(agent, q, astray)
    BY <1>2, <1>3, <2>3, TopOf, WaitsOver
  <2> HIDE DEF q
  <2>6. /\ map' \in Maps
        /\ \A i \in Ids : Acked(map', i) => Removes(stack', i)
        /\ Closes(stack')
        /\ Sending(agent, stack', astray)
    BY <1>3, <1>4, <2>1, <2>2, <2>5, AckTidy
  <2> QED BY <1>3, <2>4, <2>6 DEF MapInv, Tidy
<1>6. CASE /\ agent.state = "JOINING_WAITING_ACK"
           /\ map' = M!Without(map, {id}) /\ outbox' = outbox
           /\ Tell(id, Me, by, FALSE, rest)
  <2>1. ~Hosts(agent)
    BY <1>6 DEF Hosts
  <2>2. map' \in Maps /\ \A i \in Ids : Acked(map', i) => Acked(map, i)
    BY <1>3, <1>6, Removed
  <2> HIDE DEF rest, id, by
  <2> QED BY <1>2, <1>3, <1>6, <2>1, <2>2, TellTidy
<1>7. CASE agent.state = "JOINING_WAITING_ACK" /\ Restart(rest)
  <2>1. agent.target \in Wishes
    BY <1>7, BusyAgent
  <2>2. StartMatch(agent.target, agent.callback, rest)
    BY <1>7 DEF Restart
  <2> HIDE DEF rest
  <2> QED BY <1>2, <1>3, <2>1, <2>2, StartTidy
<1>8. CASE /\ ~(/\ Concerns(id) /\ agent.state = "SERVING_WAITING_CLAIMS"
                /\ map[id].claimsSeen # <<>>)
           /\ stack' = rest /\ UNCHANGED <<clientVars, tried, told, astray>>
  <2>1. Hosts(agent) /\ Unanswered(map, agent.matchId) => agent.matchId # id
    BY <1>8 DEF Hosts, Unanswered, Concerns, M!Listed
  <2>2. Tidy(map, agent, rest, astray)
    BY <1>3, <2>1 DEF Tidy
  <2>3. map' = map /\ agent' = agent /\ outbox' = outbox /\ astray' = astray
    BY <1>8 DEF clientVars
  <2> QED BY <1>3, <1>8, <2>2, <2>3 DEF MapInv
<1> QED BY <1>5, <1>6, <1>7, <1>8 DEF Agent

(* The other calls do what they waited for, or nothing.                    *)
LEMMA CallTidy ==
  ASSUME CallsInv, MapInv, Step
  PROVE  MapInv'
<1> DEFINE top == Head(stack)
           rest == Tail(stack)
<1>0. IsSeq(stack) /\ stack # <<>>
  BY DEF Step, Agent, Accepted, Returns, Throws, CallbackCalls, Listener, Remove,
         ClaimSent, Top, CallsInv
<1>1. /\ IsSeq(rest)
      /\ \A i : Removes(stack, i) =>
           Removes(rest, i) \/ (top.op = "remove" /\ top.id = i)
      /\ Closes(stack) => Closes(rest) \/ Ends(top)
      /\ \A a, sy : Sending(a, stack, sy) => Sending(a, rest, sy)
  BY <1>0, WaitsUnder
<1>2. /\ map \in Maps /\ outbox \in Posts /\ Tidy(map, agent, stack, astray)
      /\ Sides(agent, astray) /\ Sending(agent, rest, astray)
  BY <1>1 DEF MapInv, Tidy
<1>3. CASE Accepted
  <2>1. /\ top.op = "accepted" /\ Tell(top.id, top.user, top.by, FALSE, rest)
        /\ map' = M!Without(map, {top.id}) /\ outbox' = outbox
    BY <1>3 DEF Accepted, Top
  <2>2. map' \in Maps /\ \A i \in Ids : Acked(map', i) => Acked(map, i)
    BY <1>2, <2>1, Removed
  <2> HIDE DEF top, rest
  <2>3. \A i \in Ids : Acked(map', i) => Removes(rest, i)
    BY <1>1, <1>2, <2>1, <2>2 DEF Tidy
  <2> QED BY <1>1, <1>2, <2>1, <2>2, <2>3, TellTidy
<1>4. CASE Returns
  <2>1. /\ top.op = "called" /\ Clear /\ stack' = rest
        /\ map' = map /\ outbox' = outbox
    BY <1>4 DEF Returns, Top
  <2> HIDE DEF top, rest
  <2>2. \A i \in Ids : Acked(map, i) => Removes(rest, i)
    BY <1>1, <1>2, <2>1 DEF Tidy
  <2> QED BY <1>2, <2>1, <2>2, ClearTidy DEF MapInv
<1>5. CASE Throws
  <2>1. /\ top.op = "called" /\ top.stops /\ stack' = rest
        /\ map' = map /\ outbox' = outbox /\ agent' = agent /\ astray' = astray
    BY <1>5 DEF Throws, Top, clientVars
  <2>2. ~Ends(top)
    BY <2>1 DEF Ends
  <2> QED BY <1>0, <1>2, <2>1, <2>2, TidyTail DEF MapInv
<1>6. CASE CallbackCalls
  <2>1. (\E wish \in Wishes : FindMatch(wish)) \/ StopMatch
    BY <1>6 DEF CallbackCalls, Finds, Stops
  <2>2. \A i : ~Asks(stack, i)
    BY <1>6 DEF CallbackCalls, Top, Asks
  <2> QED BY <2>1, <2>2, UserTidy
<1>7. CASE Listener
  <2>1. top.op = "listener"
    BY <1>7 DEF Listener, Top
  <2>2. ~Ends(top) /\ \A i : ~Asks(stack, i)
    BY <2>1 DEF Ends, Asks
  <2>3. CASE stack' = rest /\ UNCHANGED <<clientVars, historyVars>>
    <3>1. map' = map /\ outbox' = outbox /\ agent' = agent /\ astray' = astray
      BY <2>3 DEF clientVars, historyVars
    <3> QED BY <1>0, <1>2, <2>1, <2>2, <2>3, <3>1, TidyTail DEF MapInv
  <2>4. CASE (\E wish \in Wishes : FindMatch(wish)) \/ StopMatch
    BY <2>2, <2>4, UserTidy
  <2> QED BY <1>7, <2>3, <2>4 DEF Listener, Finds, Stops
<1>8. CASE Remove
  <2>1. /\ top.op = "remove" /\ stack' = rest /\ agent' = agent /\ astray' = astray
        /\ outbox' = outbox /\ map' = M!Without(map, {top.id})
    BY <1>8 DEF Remove, Top, historyVars
  <2>2. ~Asks(stack, agent.matchId) /\ ~Ends(top)
    BY <2>1 DEF Asks, Ends
  <2>3. /\ map' \in Maps
        /\ \A i \in Ids : Acked(map', i) => Acked(map, i) /\ i # top.id
        /\ \A i \in Ids : Unanswered(map', i) => Unanswered(map, i)
    BY <1>2, <2>1, Removed
  <2> HIDE DEF top, rest
  <2> QED BY <1>1, <1>2, <2>1, <2>2, <2>3 DEF MapInv, Tidy, Sides
<1>9. CASE ClaimSent
  <2>1. /\ top.op = "claimed" /\ stack' = rest /\ map' = map /\ astray' = astray
        /\ outbox' = outbox /\ agent' = [agent EXCEPT !.matchId = top.id]
    BY <1>9 DEF ClaimSent, Top, historyVars
  <2>2. /\ top.id.advertiser # Me /\ (~Hosts(agent) \/ astray) /\ top.id \in Ids
    <3>1. top.id \in Ids
      BY <1>0, <2>1, TopGone DEF Recalled
    <3> QED BY <1>0, <1>2, <2>1, <3>1, WaitsUnder DEF Tidy
  <2>3. ~Asks(stack, agent'.matchId) /\ ~Ends(top)
    BY <2>1 DEF Asks, Ends
  <2> HIDE DEF top, rest
  <2>4. agent'.state = agent.state /\ agent'.matchId = top.id
    BY <2>1, BusyAgent DEF Agents
  <2>5. Sending(agent', rest, astray) /\ Sides(agent', astray)
        /\ (~Hosts(agent') \/ astray)
    BY <1>2, <2>2, <2>4 DEF Sending, Sides, Hosts, Joins
  <2>6. \A i \in Ids : Acked(map, i) => Removes(rest, i)
    BY <1>1, <1>2, <2>1 DEF Tidy
  <2> QED BY <1>2, <2>1, <2>5, <2>6 DEF MapInv, Tidy
<1> QED BY <1>3, <1>4, <1>5, <1>6, <1>7, <1>8, <1>9, AgentTidy DEF Step

(* What the map is like when no call is in progress.                       *)
LEMMA TidyAtRest ==
  ASSUME MapInv, stack = <<>>
  PROVE  /\ \A id \in Ids : ~Acked(map, id)
         /\ Hosts(agent) /\ ~astray => ~Unanswered(map, agent.matchId)
         /\ \A a, sy : Sending(a, <<>>, sy)
BY NoCall DEF MapInv, Tidy, Removes, Asks, Closes, Sending

(* Every event begins tidily.                                              *)
LEMMA EventTidy ==
  ASSUME CallsInv, MapInv, Event
  PROVE  MapInv'
<1> DEFINE e == <<>>
<1>1. /\ stack = e /\ IsSeq(e) /\ (\A i : ~Asks(e, i))
      /\ \A id \in Ids : ~Acked(map, id)
      /\ Hosts(agent) /\ ~astray => ~Unanswered(map, agent.matchId)
      /\ \A a, sy : Sending(a, e, sy)
      /\ Sides(agent, astray) /\ map \in Maps /\ outbox \in Posts
  BY AtRest, TidyAtRest DEF Event, MapInv, Tidy, Asks
<1>2. CASE incoming # None /\ Receive(incoming)
  <2> DEFINE m == incoming
             id == m.matchId
  <2>1. /\ m \in M!Message /\ id \in Ids
        /\ m.type \in {"claim", "ack"} => m.user \in Nodes
    BY <1>2 DEF CallsInv, M!Message, M!MatchIds, Ids
  <2>2. agent' = agent /\ outbox' = outbox /\ astray' = astray
    BY <1>2 DEF Receive
  <2>a. \/ m.type = "advertise" /\ OnAdvertise(id, e)
        \/ m.type = "unadvertise" /\ Unadvertise(id) /\ stack' = e
        \/ m.type = "claim" /\ OnClaim(id, m.user, e)
        \/ m.type = "ack" /\ OnAck(id, m.user, e)
    BY <1>2 DEF Receive
  <2> HIDE DEF id, e
  <2>3. ASSUME OnAdvertise(id, e) PROVE MapInv'
    <3>1. map' = M!HandleAdvertise(map, id) /\ stack' = Raise(id) \o e
      BY <2>3 DEF OnAdvertise
    <3>2. \A b, sy : Sending(b, stack', sy)
      BY <1>1, <3>1, RaisedStack
    <3>3. /\ map' \in Maps /\ \A i \in Ids : Acked(map', i) => Acked(map, i)
          /\ \A i \in Ids : Unanswered(map', i) => Unanswered(map, i)
      BY <1>1, <2>1, <3>1, Advertised
    <3> QED BY <1>1, <2>2, <3>2, <3>3 DEF MapInv, Tidy, Sides
  <2>4. ASSUME Unadvertise(id), stack' = e PROVE MapInv'
    <3>1. map' = M!Without(map, {id}) /\ stack' = e
      BY <2>4 DEF Unadvertise
    <3>2. /\ map' \in Maps /\ \A i \in Ids : Acked(map', i) => Acked(map, i)
          /\ \A i \in Ids : Unanswered(map', i) => Unanswered(map, i)
      BY <1>1, <3>1, Removed
    <3> QED BY <1>1, <2>2, <3>1, <3>2 DEF MapInv, Tidy, Sides
  <2>5. ASSUME m.type = "claim", OnClaim(id, m.user, e) PROVE MapInv'
    <3>1. CASE M!NewClaim(map, id, m.user)
      <4>1. map' = M!HandleClaim(map, id, m.user) /\ stack' = Raise(id) \o e
        BY <2>5, <3>1 DEF OnClaim
      <4>2. Asks(stack', id) /\ \A b, sy : Sending(b, stack', sy)
        BY <1>1, <4>1, RaisedStack
      <4>3. /\ map' \in Maps /\ map'[id].acksSeen = map[id].acksSeen
            /\ \A i \in Ids : i # id => map'[i] = map[i]
            /\ map[id] # None
        BY <1>1, <2>1, <2>5, <3>1, <4>1, Claimed DEF M!NewClaim, M!Listed
      <4>4. /\ \A i \in Ids : Acked(map', i) => Acked(map, i)
            /\ \A i \in Ids : Unanswered(map', i) => Unanswered(map, i) \/ i = id
        BY <4>3 DEF Acked, Unanswered
      <4> QED BY <1>1, <2>2, <4>2, <4>3, <4>4 DEF MapInv, Tidy, Sides
    <3>2. CASE ~M!NewClaim(map, id, m.user)
      <4>1. map' = map /\ stack' = e
        BY <2>5, <3>2 DEF OnClaim, M!HandleClaim
      <4> QED BY <1>1, <2>2, <4>1 DEF MapInv, Tidy
    <3> QED BY <3>1, <3>2
  <2>6. ASSUME m.type = "ack", OnAck(id, m.user, e) PROVE MapInv'
    <3>1. /\ map' \in Maps
          /\ \A i \in Ids : Acked(map', i) => Removes(stack', i)
          /\ \A i \in Ids : Unanswered(map', i) => Unanswered(map, i)
          /\ \A b, sy : Sending(b, stack', sy)
      BY <1>1, <2>1, <2>6, AckTidy
    <3> QED BY <1>1, <2>2, <3>1 DEF MapInv, Tidy, Sides
  <2> QED BY <2>3, <2>4, <2>5, <2>6, <2>a
<1>3. CASE UserCalls
  BY <1>1, <1>3, UserTidy DEF UserCalls
<1>4. CASE Poll
  <2>1. agent.target \in Wishes /\ StartMatch(agent.target, agent.callback, e)
    BY <1>4, BusyAgent DEF Poll
  <2> HIDE DEF e
  <2> QED BY <1>1, <2>1, StartTidy
<1>5. CASE CheckTimeouts
  <2>1. /\ map' = M!Without(map, M!Stale(map)) /\ agent' = agent
        /\ outbox' = outbox /\ stack' = e /\ astray' = astray
    BY <1>1, <1>5 DEF CheckTimeouts
  <2>2. /\ map' \in Maps /\ \A i \in Ids : Acked(map', i) => Acked(map, i)
        /\ \A i \in Ids : Unanswered(map', i) => Unanswered(map, i)
    BY <1>1, <2>1, Removed
  <2> HIDE DEF e
  <2> QED BY <1>1, <2>1, <2>2 DEF MapInv, Tidy, Sides
<1> QED BY <1>2, <1>3, <1>4, <1>5 DEF Event

(* The map is tidy, however often user code calls (handleAckMessage,       *)
(* handleMatchStateUpdate, startMatch).                                    *)
LEMMA MapStep ==
  ASSUME CallsInv, MapInv, [Next]_vars
  PROVE  MapInv'
<1>1. CASE UNCHANGED vars
  BY <1>1 DEF vars, clientVars, historyVars, MapInv
<1> QED BY <1>1, CallTidy, EventTidy, WorldTidy DEF Next


-----------------------------------------------------------------------------
(* How events fold                                                         *)

(* The games that calls remove when their turn comes.                      *)
Own(x) == IF x.op \in {"remove", "accepted"} THEN {x.id} ELSE {}
Gone(st) == {c.id : c \in {c \in Range(st) : c.op \in {"remove", "accepted"}}}

(* Calls of these kinds, and no others.                                    *)
Only(st, ops) == IsSeq(st) /\ \A c \in Range(st) : c.op \in ops

Quiet(st) == Only(st, {"listener", "remove"})
Loose(st) == Only(st, {"listener", "remove", "accepted"})

(* The same, read from the parts.                                          *)
LEMMA Joined ==
  ASSUME NEW x, NEW q, IsSeq(q)
  PROVE  /\ Range(Cons(x, q)) = {x} \cup Range(q)
         /\ Gone(Cons(x, q)) = Own(x) \cup Gone(q)
         /\ \A ops : Only(Cons(x, q), ops) <=> x.op \in ops /\ Only(q, ops)
<1> DEFINE st == Cons(x, q)
<1>1. IsSeq(st) /\ st # <<>> /\ Head(st) = x /\ Tail(st) = q
  BY TopOf
<1> HIDE DEF st
<1>2. Range(st) = {x} \cup Range(q)
  BY <1>1, Split
<1>3. Gone(st) = Own(x) \cup Gone(q)
  BY <1>2 DEF Gone, Own
<1>4. \A ops : Only(st, ops) <=> x.op \in ops /\ Only(q, ops)
  BY <1>1, <1>2 DEF Only
<1> QED BY <1>2, <1>3, <1>4 DEF st

(* Nothing waits in an empty stack.                                        *)
LEMMA NothingWaits ==
  /\ IsSeq(<<>>) /\ Range(<<>>) = {} /\ Gone(<<>>) = {} /\ \A ops : Only(<<>>, ops)
<1>1. IsSeq(<<>>) /\ Range(<<>>) = {}
  BY NoCall
<1> QED BY <1>1 DEF Gone, Only

-----------------------------------------------------------------------------
(* What an event comes to.  b is the client when it began; f, mp, ag, ob   *)
(* and t are what it leaves: the rest of the state, the map, the agent,    *)
(* the copies to send, and what a callback was told, if one was.           *)

AllClear == [state |-> "IDLE", matchId |-> None, target |-> None, callback |-> 0]

Fixed == [age |-> actionAge, incoming |-> incoming, tried |-> tried,
          searches |-> searches]

Kept(b, f) ==
  f.age = b.actionAge /\ f.tried = b.tried /\ f.searches = b.searches

(* AcceptClaim                                                             *)
Ended(id, mm, base, gone, mp, ag, ob, t) ==
  LET first == Head(mm[id].claimsSeen)
      ack == M!AckMsg(id, first)
  IN /\ mp = M!Without(mm, gone \cup {id})
     /\ ag = AllClear
     /\ ob = Posted(Posted(base, ack), ack)
     /\ t = {<<id, first>>}

(* StartMatch                                                              *)
JoinedGame(b, f, wish, mm, gone, mp, ag, ob, t) ==
  \E id \in M!Joinable(Me, wish, mm), s \in Nat :
    /\ f.tried = b.tried \cup {<<s, id>>}
    /\ mp = M!Without(M!HandleClaim(mm, id, Me), gone)
    /\ ag.state = "JOINING_WAITING_ACK" /\ ag.matchId = id /\ ag.target = wish
    /\ ob = Posted(b.outbox, M!ClaimMsg(id, Me))
    /\ t = {}

ServedGame(b, f, wish, mm, gone, mp, ag, ob, t) ==
  LET own == M!getMatchID(Me, Head(wish))
      listed == M!HandleAdvertise(mm, own)
      sent == Posted(b.outbox, M!AdvertiseMsg(own))
  IN /\ M!Joinable(Me, wish, mm) = {}
     /\ \E s \in Nat : f.tried = b.tried \cup {<<s, own>>}
     /\ \/ /\ listed[own].claimsSeen = <<>>
           /\ mp = M!Without(listed, gone)
           /\ ag.state = "SERVING_WAITING_CLAIMS" /\ ag.matchId = own
           /\ ag.target = wish
           /\ ob = sent
           /\ t = {}
        \/ /\ listed[own].claimsSeen # <<>>
           /\ Ended(own, listed, sent, gone, mp, ag, ob, t)

Began(b, f, wish, mm, gone, mp, ag, ob, t) ==
  /\ f.age = 0
  /\ \/ JoinedGame(b, f, wish, mm, gone, mp, ag, ob, t)
     \/ ServedGame(b, f, wish, mm, gone, mp, ag, ob, t)

Same(b, f, ag, ob, t) ==
  Kept(b, f) /\ ag = b.agent /\ ob = b.outbox /\ t = {}

ServesIt(b, id) == Hosts(b.agent) /\ b.agent.matchId = id
AwaitsIt(b, id) == Joins(b.agent) /\ b.agent.matchId = id

HeardClaim(b, f, m, mp, ag, ob, t) ==
  LET id == m.matchId
      mm == M!HandleClaim(b.map, id, m.user)
  IN \/ /\ M!NewClaim(b.map, id, m.user) /\ ServesIt(b, id)
        /\ Kept(b, f)
        /\ Ended(id, mm, b.outbox, {}, mp, ag, ob, t)
     \/ /\ ~(M!NewClaim(b.map, id, m.user) /\ ServesIt(b, id))
        /\ mp = mm
        /\ Same(b, f, ag, ob, t)

HeardAck(b, f, m, mp, ag, ob, t) ==
  LET id == m.matchId
      mm == M!HandleAck(b.map, id, m.user)
  IN \/ /\ M!NewAck(b.map, id, m.user) /\ AwaitsIt(b, id)
        /\ Head(mm[id].acksSeen) = Me
        /\ Kept(b, f)
        /\ mp = M!Without(mm, {id}) /\ ag = AllClear /\ ob = b.outbox
        /\ t = {<<id, Me>>}
     \/ /\ M!NewAck(b.map, id, m.user) /\ AwaitsIt(b, id)
        /\ Head(mm[id].acksSeen) # Me
        /\ f.searches = b.searches
        /\ Began(b, f, b.agent.target, mm, {id}, mp, ag, ob, t)
     \/ /\ M!NewAck(b.map, id, m.user) /\ ~AwaitsIt(b, id)
        /\ mp = M!Without(mm, {id})
        /\ Same(b, f, ag, ob, t)
     \/ /\ ~M!NewAck(b.map, id, m.user)
        /\ mp = b.map
        /\ Same(b, f, ag, ob, t)

Heard(b, f, m, mp, ag, ob, t) ==
  \/ /\ m.type = "advertise" /\ mp = M!HandleAdvertise(b.map, m.matchId)
     /\ Same(b, f, ag, ob, t)
  \/ /\ m.type = "unadvertise" /\ mp = M!Without(b.map, {m.matchId})
     /\ Same(b, f, ag, ob, t)
  \/ m.type = "claim" /\ HeardClaim(b, f, m, mp, ag, ob, t)
  \/ m.type = "ack" /\ HeardAck(b, f, m, mp, ag, ob, t)

(* Why a client starts over.                                               *)
OverdueIt(b) ==
  LET id == b.agent.matchId
  IN \/ Hosts(b.agent) /\ b.actionAge > SERVING_REBROADCAST_TIMEOUT
     \/ /\ Joins(b.agent) /\ id # None
        /\ \/ b.map[id] = None
           \/ Acked(b.map, id) /\ Head(b.map[id].acksSeen) # Me
           \/ /\ b.map[id] # None /\ ~Acked(b.map, id)
              /\ b.actionAge > CLAIM_ACK_TIMEOUT

Stopped(b, mp, ag, ob, t) ==
  /\ t = {<<None, None>>}
  /\ ag = AllClear \/ ("throw" \in CallbackDoes /\ ag = b.agent)
  /\ \/ /\ Hosts(b.agent)
        /\ mp = M!Without(b.map, {b.agent.matchId})
        /\ ob = Posted(b.outbox, M!UnadvertiseMsg(b.agent.matchId))
     \/ Joins(b.agent) /\ mp = b.map /\ ob = b.outbox

Done(b, f, mp, ag, ob, t) ==
  \/ /\ b.incoming \in M!Message /\ f.incoming = None
     /\ f.searches = b.searches
     /\ Heard(b, f, b.incoming, mp, ag, ob, t)
  \/ /\ f.incoming = b.incoming
     /\ f.searches = b.searches + 1
     /\ b.agent.state = "IDLE"
     /\ \E wish \in Wishes : Began(b, f, wish, b.map, {}, mp, ag, ob, t)
  \/ /\ f.incoming = b.incoming
     /\ f.searches = b.searches
     /\ OverdueIt(b)
     /\ Began(b, f, b.agent.target, b.map, {}, mp, ag, ob, t)
  \/ f.incoming = b.incoming /\ Kept(b, f) /\ Stopped(b, mp, ag, ob, t)
  \/ /\ f.incoming = b.incoming
     /\ mp = M!Without(b.map, M!Stale(b.map)) /\ M!Stale(b.map) # {}
     /\ Same(b, f, ag, ob, t)

(* What callbacks were told since.                                         *)
Said(old, new, t) ==
  \/ t = {} /\ new = old
  \/ \E e : new = Append(old, e) /\ t = {<<e.match, e.user>>}

-----------------------------------------------------------------------------
(* What is left to be done of an event in which user code made no calls    *)

(* The agent has nothing to answer to an update of this game.              *)
Indifferent(id) ==
  /\ ~(Hosts(agent) /\ agent.matchId = id /\ Unanswered(map, id))
  /\ ~(Joins(agent) /\ agent.matchId = id /\ Acked(map, id))

Calm(b) ==
  /\ Quiet(stack) \/ (Loose(stack) /\ agent = AllClear)
  /\ \E t : /\ Done(b, Fixed, M!Without(map, Gone(stack)), agent, outbox, t)
            /\ Said(b.told, told, t)

OnTop(op, id, q) == stack = Cons([op |-> op, id |-> id], q)

Looking(b) ==
  \E id, q :
    /\ OnTop("agent", id, q) /\ Quiet(q)
    /\ Indifferent(id)
    /\ told = b.told
    /\ Done(b, Fixed, M!Without(map, Gone(q)), agent, outbox, {})

(* The host is about to accept a claim, for the first or the second time.  *)
Accepting(b) ==
  \E id \in Ids : \E q :
    LET first == Head(map[id].claimsSeen)
        ack == M!AckMsg(id, first)
        left == M!Without(map, Gone(q) \cup {id})
    IN /\ OnTop("agent", id, q) /\ Loose(q)
       /\ Hosts(agent) /\ agent.matchId = id /\ Unanswered(map, id)
       /\ told = b.told
       /\ \/ /\ ~Acked(map, id)
             /\ Done(b, Fixed, left, AllClear, Posted(Posted(outbox, ack), ack),
                     {<<id, first>>})
          \/ /\ M!In(first, map[id].acksSeen)
             /\ Done(b, Fixed, left, AllClear, Posted(outbox, ack),
                     {<<id, first>>})

AckSent(b) ==
  \E id, user, by, q :
    /\ stack = Cons([op |-> "accepted", id |-> id, user |-> user, by |-> by], q)
    /\ Loose(q)
    /\ agent.callback # 0
    /\ told = b.told
    /\ Done(b, Fixed, M!Without(map, Gone(q) \cup {id}), AllClear, outbox,
            {<<id, user>>})

Winning(b) ==
  \E id, q :
    /\ OnTop("agent", id, q) /\ Quiet(q)
    /\ Joins(agent) /\ agent.matchId = id /\ Acked(map, id)
    /\ Head(map[id].acksSeen) = Me
    /\ told = b.told
    /\ Done(b, Fixed, M!Without(map, Gone(q) \cup {id}), AllClear, outbox,
            {<<id, Me>>})

(* Whatever a search begins with now is what the event comes to.           *)
Leads(b, wish, mm, gone, inc, n) ==
  \A f, mp, ag, ob, t :
    f.incoming = inc /\ f.searches = n
        /\ Began(b, f, wish, mm, gone, mp, ag, ob, t)
      => Done(b, f, mp, ag, ob, t)

Losing(b) ==
  \E id, q :
    /\ OnTop("agent", id, q) /\ Quiet(q)
    /\ Joins(agent) /\ agent.matchId = id /\ Acked(map, id)
    /\ Head(map[id].acksSeen) # Me
    /\ \A i \in Ids : Acked(map, i) => i.advertiser # Me
    /\ told = b.told /\ tried = b.tried /\ outbox = b.outbox
    /\ Leads(b, agent.target, map, Gone(q), incoming, searches)

(* The callback is being called, and the state is cleared when it returns. *)
CallingBack(b) ==
  \E n, q :
    /\ stack = Cons([op |-> "called", n |-> n, stops |-> FALSE], q) /\ Loose(q)
    /\ \E t : /\ Done(b, Fixed, M!Without(map, Gone(q)), AllClear, outbox, t)
              /\ Said(b.told, told, t)

(* The same by stopMatch, out of which it may throw.                       *)
Halting(b) ==
  /\ \E n : stack = Cons([op |-> "called", n |-> n, stops |-> TRUE], <<>>)
  /\ Said(b.told, told, {<<None, None>>})
  /\ Done(b, Fixed, map, AllClear, outbox, {<<None, None>>})
  /\ "throw" \in CallbackDoes =>
       Done(b, Fixed, map, agent, outbox, {<<None, None>>})

(* The claim is being handled: by agent and listener, or the listener, or  *)
(* by all.                                                                 *)
Announcing(b) ==
  \E id, q :
    LET c == Cons([op |-> "claimed", id |-> id], q)
    IN /\ \/ stack = c
          \/ \E i : OnTop("listener", i, c)
          \/ \E i \in Ids : OnTop("agent", i, Cons([op |-> "listener", id |-> i], c))
       /\ Quiet(q)
       /\ agent.matchId = None
       /\ told = b.told
       /\ Done(b, Fixed, M!Without(map, Gone(q)), [agent EXCEPT !.matchId = id],
               outbox, {})

Phase(b) ==
  \/ Calm(b)
  \/ Looking(b)
  \/ Accepting(b)
  \/ AckSent(b)
  \/ Winning(b)
  \/ Losing(b)
  \/ CallingBack(b)
  \/ Halting(b)
  \/ Announcing(b)

-----------------------------------------------------------------------------
(* One phase after the other, as long as user code makes no calls.         *)

(* Then callbacks return or throw, and listeners return.                   *)
LEMMA NoInner ==
  ASSUME CallsInv, inner' = 0, stack # <<>>
  PROVE  /\ ~CallbackCalls
         /\ Listener => stack' = Tail(stack) /\ UNCHANGED <<clientVars, historyVars>>
<1>1. inner + 1 # 0
  BY DEF CallsInv
<1>2. ~Finds /\ ~Stops
  BY <1>1 DEF Finds, Stops, FindMatch, StopMatch, Inner
<1> QED BY <1>2 DEF CallbackCalls, Listener

(* Calls that only finish what was begun: one step of any of them.         *)
LEMMA CalmTop ==
  ASSUME NEW ops, Only(stack, ops), stack # <<>>
  PROVE  /\ IsSeq(stack) /\ Only(Tail(stack), ops) /\ Head(stack).op \in ops
         /\ stack = Cons(Head(stack), Tail(stack))
         /\ Gone(stack) = Own(Head(stack)) \cup Gone(Tail(stack))
         /\ IsSeq(Tail(stack))
<1>1. IsSeq(stack)
  BY DEF Only
<1>2. stack = Cons(Head(stack), Tail(stack)) /\ IsSeq(Tail(stack))
      /\ Range(stack) = {Head(stack)} \cup Range(Tail(stack))
  BY <1>1, Split
<1> DEFINE h == Head(stack)
           t == Tail(stack)
<1>3. stack = Cons(h, t) /\ IsSeq(t)
  BY <1>2
<1> HIDE DEF h, t
<1>4. Gone(stack) = Own(h) \cup Gone(t)
  BY <1>3, Joined
<1>5. Only(t, ops) /\ h.op \in ops
  BY <1>3, Joined
<1> QED BY <1>1, <1>2, <1>4, <1>5 DEF h, t

(* The last calls finish what was begun.                                   *)
LEMMA FromCalm ==
  ASSUME CallsInv, MapInv, inner' = 0, stack # <<>>, Step, NEW b, Calm(b)
  PROVE  Phase(b)'
<1> DEFINE top == Head(stack)
           q == Tail(stack)
<1>1. map \in Maps
  BY DEF MapInv
<1>2. PICK t : /\ Done(b, Fixed, M!Without(map, Gone(stack)), agent, outbox, t)
               /\ Said(b.told, told, t)
  BY DEF Calm
<1>3. /\ IsSeq(q) /\ Gone(stack) = Own(top) \cup Gone(q)
      /\ \/ Quiet(q) /\ top.op \in {"listener", "remove"}
         \/ /\ Loose(q) /\ agent = AllClear
            /\ top.op \in {"listener", "remove", "accepted"}
  BY CalmTop DEF Calm, Quiet, Loose
<1>4. ASSUME stack' = q, agent' = agent, outbox' = outbox, Fixed' = Fixed,
             told' = told,
             map' = M!Without(map, Own(top))
      PROVE  Phase(b)'
  <2>1. M!Without(map', Gone(q)) = M!Without(map, Gone(stack))
    <3>1. M!Without(M!Without(map, Own(top)), Gone(q))
            = M!Without(map, Own(top) \cup Gone(q))
      BY <1>1, RemovedTwice
    <3> QED BY <1>3, <1>4, <3>1
  <2>2. Done(b, Fixed', M!Without(map', Gone(stack')), agent', outbox', t)
        /\ Said(b.told, told', t)
    BY <1>2, <1>4, <2>1
  <2>3. Quiet(stack') \/ (Loose(stack') /\ agent' = AllClear)
    BY <1>3, <1>4
  <2>4. Calm(b)'
    BY <2>2, <2>3 DEF Calm
  <2> QED BY <2>4 DEF Phase
<1>5. Own(top) = {} => M!Without(map, Own(top)) = map
  BY <1>1, RemovedTwice
<1>6. CASE Listener
  <2>1. top.op = "listener" /\ stack' = q /\ UNCHANGED <<clientVars, historyVars>>
        /\ incoming' = incoming
    BY <1>6, NoInner DEF Listener, Top, Step
  <2>2. Own(top) = {}
    BY <2>1 DEF Own
  <2>3. /\ map' = map /\ agent' = agent /\ outbox' = outbox /\ told' = told
        /\ Fixed' = Fixed
    BY <2>1 DEF clientVars, historyVars, Fixed
  <2> QED BY <1>4, <1>5, <2>1, <2>2, <2>3
<1>7. CASE Remove
  <2>1. top.op = "remove" /\ stack' = q /\ agent' = agent /\ outbox' = outbox
        /\ map' = M!Without(map, {top.id}) /\ Fixed' = Fixed /\ told' = told
    BY <1>7 DEF Remove, Top, Step, historyVars, Fixed
  <2>2. Own(top) = {top.id}
    BY <2>1 DEF Own
  <2> QED BY <1>4, <2>1, <2>2
<1>8. CASE Accepted
  <2>1. /\ top.op = "accepted" /\ map' = M!Without(map, {top.id})
        /\ Tell(top.id, top.user, top.by, FALSE, q)
        /\ outbox' = outbox /\ Fixed' = Fixed
    BY <1>8 DEF Accepted, Top, Step, Fixed
  <2>2. Own(top) = {top.id} /\ agent = AllClear
    BY <1>3, <2>1 DEF Own
  <2>3. stack' = q /\ agent' = agent /\ told' = told
    BY <2>1, <2>2 DEF Tell, Clear, Cleared, AllClear
  <2> QED BY <1>4, <2>1, <2>2, <2>3
<1>9. top.op \notin {"agent", "claimed", "called"}
  BY <1>3
<1> QED BY <1>6, <1>7, <1>8, <1>9
        DEF Step, Agent, Returns, Throws, CallbackCalls, ClaimSent, Top

(* The kind of call that is on top is the kind of step that follows.       *)
LEMMA TopStep ==
  ASSUME NEW x, NEW q, IsSeq(q), stack = Cons(x, q), Step
  PROVE  /\ Head(stack) = x /\ Tail(stack) = q /\ stack # <<>>
         /\ incoming' = incoming
         /\ x.op = "agent" => Agent
         /\ x.op = "accepted" => Accepted
         /\ x.op = "called" => Returns \/ Throws \/ CallbackCalls
         /\ x.op = "listener" => Listener
         /\ x.op = "claimed" => ClaimSent
<1>1. Head(stack) = x /\ Tail(stack) = q /\ stack # <<>>
  BY TopOf
<1> QED BY <1>1 DEF Step, Agent, Accepted, Returns, Throws, CallbackCalls,
              Listener, Remove, ClaimSent, Top

(* The agent finds nothing to answer.                                      *)
LEMMA FromLooking ==
  ASSUME CallsInv, MapInv, Step, NEW b, Looking(b)
  PROVE  Phase(b)'
<1>1. PICK id, q :
        /\ OnTop("agent", id, q) /\ Quiet(q)
        /\ Indifferent(id)
        /\ told = b.told
        /\ Done(b, Fixed, M!Without(map, Gone(q)), agent, outbox, {})
  BY DEF Looking
<1> DEFINE x == [op |-> "agent", id |-> id]
<1>2. stack = Cons(x, q) /\ IsSeq(q) /\ x.op = "agent" /\ x.id = id
  BY <1>1 DEF OnTop, Quiet, Only
<1> HIDE DEF x
<1>3. Agent /\ Head(stack) = x /\ Tail(stack) = q /\ incoming' = incoming
  BY <1>2, TopStep
<1>4. stack' = q /\ UNCHANGED <<clientVars, tried, searches, told, incoming>>
  BY <1>1, <1>2, <1>3
     DEF Agent, Indifferent, Concerns, M!Listed, Hosts, Joins, Unanswered, Acked
<1>5. /\ map' = map /\ agent' = agent /\ outbox' = outbox /\ told' = told
      /\ Fixed' = Fixed
  BY <1>4 DEF clientVars, Fixed
<1>6. Done(b, Fixed', M!Without(map', Gone(stack')), agent', outbox', {})
      /\ Said(b.told, told', {})
  BY <1>1, <1>4, <1>5 DEF Said
<1> QED BY <1>1, <1>4, <1>6 DEF Phase, Calm

(* The host accepts a claim.                                               *)
LEMMA FromAccepting ==
  ASSUME CallsInv, MapInv, Step, NEW b, Accepting(b)
  PROVE  Phase(b)'
<1> DEFINE First(id) == Head(map[id].claimsSeen)
           Left(id, q) == M!Without(map, Gone(q) \cup {id})
           Due(id, q) ==
             /\ OnTop("agent", id, q) /\ Loose(q)
             /\ Hosts(agent) /\ agent.matchId = id /\ Unanswered(map, id)
             /\ told = b.told
             /\ \/ /\ ~Acked(map, id)
                   /\ Done(b, Fixed, Left(id, q), AllClear,
                           Posted(Posted(outbox, M!AckMsg(id, First(id))),
                                  M!AckMsg(id, First(id))),
                           {<<id, First(id)>>})
                \/ /\ M!In(First(id), map[id].acksSeen)
                   /\ Done(b, Fixed, Left(id, q), AllClear,
                           Posted(outbox, M!AckMsg(id, First(id))),
                           {<<id, First(id)>>})
<1>0. PICK id \in Ids : \E q : Due(id, q)
  BY DEF Accepting
<1>1. PICK q : Due(id, q)
  BY <1>0
<1> DEFINE x == [op |-> "agent", id |-> id]
           first == First(id)
           ack == M!AckMsg(id, first)
           left == Left(id, q)
           by == IF <<agent.callback, id>> \in tried THEN agent.callback ELSE 0
           y == [op |-> "accepted", id |-> id, user |-> first, by |-> by]
           r == Cons(y, q)
<1>2. stack = Cons(x, q) /\ IsSeq(q) /\ x.op = "agent" /\ x.id = id
  BY <1>1 DEF OnTop, Loose, Only
<1> HIDE DEF x
<1>3. Agent /\ Head(stack) = x /\ Tail(stack) = q /\ incoming' = incoming
  BY <1>2, TopStep
<1>4. /\ Publish(ack) /\ OnAck(id, first, r)
      /\ UNCHANGED <<agent, actionAge, tried, searches, told, incoming>>
  BY <1>1, <1>2, <1>3
     DEF Agent, Concerns, M!Listed, Hosts, Unanswered, Cons
<1>5. /\ agent' = agent /\ outbox' = Posted(outbox, ack) /\ told' = told
      /\ Fixed' = Fixed
  BY <1>4 DEF Publish, Posted, Fixed
<1>6. /\ map[id] \in M!MatchState /\ map[id] # None /\ map[id].claimsSeen # <<>>
      /\ first \in Nodes /\ map \in Maps /\ id \in Ids
  <2>1. map[id] \in M!MatchState /\ map[id] # None /\ map[id].claimsSeen # <<>>
        /\ map \in Maps /\ id \in Ids
    BY <1>1 DEF MapInv, Maps, Unanswered
  <2>2. map[id].claimsSeen \in Seq(Nodes)
    BY <2>1, Entries
  <2> QED BY <2>1, <2>2
<1>7. agent.callback # 0
  BY <1>1, BusyAgent DEF Hosts
<1>8. /\ y.op = "accepted" /\ y.id = id /\ Own(y) = {id}
      /\ y = [op |-> "accepted", id |-> id, user |-> first, by |-> by]
  BY DEF Own
<1> HIDE DEF y, by, First, Left
<1>9. /\ IsSeq(r) /\ Loose(r) /\ Gone(r) = {id} \cup Gone(q)
  BY <1>1, <1>2, <1>8, TopOf, Joined DEF Loose
<1>10. CASE M!NewAck(map, id, first)
  <2> DEFINE a == [op |-> "agent", id |-> id]
             l == [op |-> "listener", id |-> id]
             z == [op |-> "remove", id |-> id]
             v == Cons(z, r)
             u == Cons(l, v)
  <2>1. /\ map' = M!HandleAck(map, id, first)
        /\ stack' = Raise(id) \o <<z>> \o r
    BY <1>4, <1>10 DEF OnAck
  <2>2. a.op = "agent" /\ l.op = "listener" /\ z.op = "remove" /\ z.id = id
        /\ a = [op |-> "agent", id |-> id]
    OBVIOUS
  <2>3. stack' = Cons(a, u)
    BY <1>9, <2>1, AckedStack
  <2> HIDE DEF a, l, z, r
  <2>4. IsSeq(v) /\ Loose(v) /\ Gone(v) = {id} \cup Gone(q)
    <3>1. Own(z) = {id}
      BY <2>2 DEF Own
    <3> QED BY <1>9, <2>2, <3>1, TopOf, Joined DEF Loose
  <2> HIDE DEF v
  <2>5. IsSeq(u) /\ Loose(u) /\ Gone(u) = {id} \cup Gone(q)
    <3>1. Own(l) = {}
      BY <2>2 DEF Own
    <3> QED BY <2>2, <2>4, <3>1, TopOf, Joined DEF Loose
  <2> HIDE DEF u
  <2>6. /\ map' \in Maps /\ map'[id] # None
        /\ map'[id].acksSeen = Append(map[id].acksSeen, first)
        /\ map'[id].claimsSeen = map[id].claimsSeen
        /\ \A i \in Ids : i # id => map'[i] = map[i]
    BY <1>6, <1>10, <2>1, AckNoted
  <2>7. M!Without(map', Gone(u) \cup {id}) = left
    <3>1. id \in Gone(q) \cup {id} /\ Gone(u) \cup {id} = Gone(q) \cup {id}
      BY <2>5
    <3>2. M!Without(map', Gone(q) \cup {id}) = M!Without(map, Gone(q) \cup {id})
      BY <1>6, <2>6, <3>1, RemovedAnyway
    <3> QED BY <3>1, <3>2 DEF Left
  <2>8. ~M!In(first, map[id].acksSeen)
    BY <1>10 DEF M!NewAck
  <2>9. Done(b, Fixed, left, AllClear, Posted(Posted(outbox, ack), ack),
             {<<id, first>>})
    BY <1>1, <2>8
  <2>10. M!In(first, map'[id].acksSeen)
    <3>1. map[id].acksSeen \in Seq(Nodes)
      BY <1>6, Entries
    <3>2. Len(map[id].acksSeen) + 1 \in DOMAIN Append(map[id].acksSeen, first)
          /\ Append(map[id].acksSeen, first)[Len(map[id].acksSeen) + 1] = first
      BY <1>6, <3>1
    <3> QED BY <2>6, <3>2 DEF M!In
  <2>11. First(id)' = first
    BY <2>6 DEF First
  <2>12. Done(b, Fixed', M!Without(map', Gone(u) \cup {id}), AllClear,
              Posted(outbox', ack), {<<id, first>>})
    BY <1>5, <2>7, <2>9
  <2>13. Hosts(agent') /\ agent'.matchId = id /\ Unanswered(map', id)
         /\ told' = b.told /\ Loose(u)
    BY <1>1, <1>5, <1>6, <2>5, <2>6 DEF Unanswered
  <2>14. stack' = Cons([op |-> "agent", id |-> id], u)
    BY <2>2, <2>3
  <2>15. Accepting(b)'
    <3>1. Head(map'[id].claimsSeen) = first
      BY <2>11 DEF First
    <3> HIDE DEF ack, first, left
    <3>2. ack = M!AckMsg(id, first)
      BY DEF ack
    <3> QED BY <1>6, <2>10, <2>12, <2>13, <2>14, <3>1, <3>2 DEF Accepting, OnTop
  <2> QED BY <2>15 DEF Phase
<1>11. CASE ~M!NewAck(map, id, first)
  <2>1. map' = map /\ stack' = r
    BY <1>4, <1>11 DEF OnAck
  <2>2. map[id].acksSeen # <<>> /\ Acked(map, id)
    <3>1. M!In(first, map[id].acksSeen)
      BY <1>6, <1>11 DEF M!NewAck, M!Listed
    <3>2. CASE map[id].acksSeen = <<>>
      <4>1. DOMAIN map[id].acksSeen = {}
        BY <3>2
      <4> QED BY <3>1, <4>1 DEF M!In
    <3> QED BY <1>6, <3>2 DEF Acked
  <2>3. Done(b, Fixed, left, AllClear, Posted(outbox, ack), {<<id, first>>})
    BY <1>1, <2>2
  <2>4. Done(b, Fixed', M!Without(map', Gone(q) \cup {id}), AllClear, outbox',
             {<<id, first>>})
    BY <1>5, <2>1, <2>3 DEF Left
  <2>5. stack' = Cons([op |-> "accepted", id |-> id, user |-> first, by |-> by], q)
        /\ Loose(q) /\ agent'.callback # 0 /\ told' = b.told
    BY <1>1, <1>5, <1>7, <1>8, <2>1
  <2> HIDE DEF first
  <2> QED BY <2>4, <2>5 DEF AckSent, Phase
<1> QED BY <1>10, <1>11

(* A callback that was not told anything yet is called.                    *)
LEMMA CalledBack ==
  ASSUME NEW b, NEW id, NEW user, NEW by, NEW q, Tell(id, user, by, FALSE, q),
         agent.callback # 0, told = b.told, Loose(q),
         Done(b, Fixed', M!Without(map', Gone(q)), AllClear, outbox', {<<id, user>>})
  PROVE  Phase(b)'
<1> DEFINE x == [op |-> "called", n |-> Len(told) + 1, stops |-> FALSE]
           e == [search |-> agent.callback, match |-> id, user |-> user,
                 by |-> by, amid |-> astray]
<1>1. stack' = Cons(x, q) /\ told' = Append(told, e)
  BY DEF Tell, Cons
<1>2. e.match = id /\ e.user = user
  OBVIOUS
<1> HIDE DEF e
<1>3. Said(b.told, told', {<<id, user>>})
  BY <1>1, <1>2 DEF Said
<1>4. CallingBack(b)'
  BY <1>1, <1>3 DEF CallingBack
<1> QED BY <1>4 DEF Phase

(* The host goes on after its ack was handled: its callback is called.     *)
LEMMA FromAckSent ==
  ASSUME CallsInv, MapInv, Step, NEW b, AckSent(b)
  PROVE  Phase(b)'
<1>1. PICK id, user, by, q :
        /\ stack = Cons([op |-> "accepted", id |-> id, user |-> user, by |-> by], q)
        /\ Loose(q)
        /\ agent.callback # 0
        /\ told = b.told
        /\ Done(b, Fixed, M!Without(map, Gone(q) \cup {id}), AllClear, outbox,
                {<<id, user>>})
  BY DEF AckSent
<1> DEFINE x == [op |-> "accepted", id |-> id, user |-> user, by |-> by]
<1>2. stack = Cons(x, q) /\ IsSeq(q) /\ x.op = "accepted" /\ x.id = id
      /\ x.user = user /\ x.by = by
  BY <1>1 DEF Loose, Only
<1> HIDE DEF x
<1>3. Accepted /\ Head(stack) = x /\ Tail(stack) = q /\ incoming' = incoming
  BY <1>2, TopStep
<1>4. /\ map' = M!Without(map, {id}) /\ Tell(id, user, by, FALSE, q)
      /\ outbox' = outbox /\ Fixed' = Fixed
  BY <1>2, <1>3 DEF Accepted, Fixed
<1>5. M!Without(map', Gone(q)) = M!Without(map, Gone(q) \cup {id})
  <2>1. M!Without(M!Without(map, {id}), Gone(q)) = M!Without(map, {id} \cup Gone(q))
    BY RemovedTwice DEF MapInv
  <2>2. {id} \cup Gone(q) = Gone(q) \cup {id}
    OBVIOUS
  <2> QED BY <1>4, <2>1, <2>2
<1>6. Done(b, Fixed', M!Without(map', Gone(q)), AllClear, outbox', {<<id, user>>})
  BY <1>1, <1>4, <1>5
<1> QED BY <1>1, <1>4, <1>6, CalledBack

(* A joiner that won is told.                                              *)
LEMMA FromWinning ==
  ASSUME CallsInv, MapInv, Step, NEW b, Winning(b)
  PROVE  Phase(b)'
<1>1. PICK id, q :
        /\ OnTop("agent", id, q) /\ Quiet(q)
        /\ Joins(agent) /\ agent.matchId = id /\ Acked(map, id)
        /\ Head(map[id].acksSeen) = Me
        /\ told = b.told
        /\ Done(b, Fixed, M!Without(map, Gone(q) \cup {id}), AllClear, outbox,
                {<<id, Me>>})
  BY DEF Winning
<1> DEFINE x == [op |-> "agent", id |-> id]
           by == IF <<agent.callback, id>> \in tried THEN agent.callback ELSE 0
<1>2. stack = Cons(x, q) /\ IsSeq(q) /\ x.op = "agent" /\ x.id = id
  BY <1>1 DEF OnTop, Quiet, Only
<1> HIDE DEF x
<1>3. Agent /\ Head(stack) = x /\ Tail(stack) = q /\ incoming' = incoming
  BY <1>2, TopStep
<1>4. /\ map' = M!Without(map, {id}) /\ Tell(id, Me, by, FALSE, q)
      /\ UNCHANGED <<actionAge, outbox, tried, searches, incoming>>
  BY <1>1, <1>2, <1>3 DEF Agent, Concerns, M!Listed, Joins, Acked
<1> HIDE DEF by
<1>5. M!Without(map', Gone(q)) = M!Without(map, Gone(q) \cup {id})
  <2>1. M!Without(M!Without(map, {id}), Gone(q)) = M!Without(map, {id} \cup Gone(q))
    BY RemovedTwice DEF MapInv
  <2>2. {id} \cup Gone(q) = Gone(q) \cup {id}
    OBVIOUS
  <2> QED BY <1>4, <2>1, <2>2
<1>6. Fixed' = Fixed
  BY <1>4 DEF Fixed
<1>7. Done(b, Fixed', M!Without(map', Gone(q)), AllClear, outbox', {<<id, Me>>})
  BY <1>1, <1>4, <1>5, <1>6
<1>8. agent.callback # 0 /\ Loose(q)
  BY <1>1, BusyAgent DEF Joins, Loose, Quiet, Only
<1> QED BY <1>1, <1>4, <1>7, <1>8, CalledBack

(* The callback returns, and the state is cleared.                         *)
LEMMA FromCallingBack ==
  ASSUME CallsInv, inner' = 0, Step, NEW b, CallingBack(b)
  PROVE  Phase(b)'
<1>1. PICK n, q :
        /\ stack = Cons([op |-> "called", n |-> n, stops |-> FALSE], q) /\ Loose(q)
        /\ \E t : /\ Done(b, Fixed, M!Without(map, Gone(q)), AllClear, outbox, t)
                  /\ Said(b.told, told, t)
  BY DEF CallingBack
<1> DEFINE x == [op |-> "called", n |-> n, stops |-> FALSE]
<1>2. stack = Cons(x, q) /\ IsSeq(q) /\ x.op = "called" /\ ~x.stops
  BY <1>1 DEF Loose, Only
<1> HIDE DEF x
<1>3. /\ Returns \/ Throws \/ CallbackCalls
      /\ Head(stack) = x /\ Tail(stack) = q /\ incoming' = incoming /\ stack # <<>>
  BY <1>2, TopStep
<1>4. Returns
  BY <1>2, <1>3, NoInner DEF Throws
<1>5. /\ stack' = q /\ agent' = AllClear /\ map' = map /\ outbox' = outbox
      /\ told' = told /\ Fixed' = Fixed
  BY <1>3, <1>4 DEF Returns, Clear, Cleared, AllClear, Fixed
<1>6. PICK t : /\ Done(b, Fixed, M!Without(map, Gone(q)), AllClear, outbox, t)
               /\ Said(b.told, told, t)
  BY <1>1
<1>7. Done(b, Fixed', M!Without(map', Gone(stack')), agent', outbox', t)
      /\ Said(b.told, told', t)
  BY <1>5, <1>6
<1>8. Loose(stack') /\ agent' = AllClear
  BY <1>1, <1>5
<1>9. Calm(b)'
  BY <1>7, <1>8 DEF Calm
<1> QED BY <1>9 DEF Phase

(* A stopMatch whose callback returns, or throws.                          *)
LEMMA FromHalting ==
  ASSUME CallsInv, MapInv, inner' = 0, Step, NEW b, Halting(b)
  PROVE  Phase(b)'
<1>1. PICK n : stack = Cons([op |-> "called", n |-> n, stops |-> TRUE], <<>>)
  BY DEF Halting
<1> DEFINE x == [op |-> "called", n |-> n, stops |-> TRUE]
           nil == <<>>
<1>2. stack = Cons(x, nil) /\ x.op = "called"
  BY <1>1
<1>3. /\ IsSeq(nil) /\ Loose(nil) /\ Quiet(nil) /\ Gone(nil) = {}
      /\ M!Without(map, Gone(nil)) = map
  <2>1. M!Without(map, {}) = map
    BY RemovedTwice DEF MapInv
  <2> QED BY <2>1, NothingWaits DEF Loose, Quiet
<1> HIDE DEF x, nil
<1>4. /\ Returns \/ Throws \/ CallbackCalls
      /\ Tail(stack) = nil /\ incoming' = incoming /\ stack # <<>>
  BY <1>2, <1>3, TopStep
<1>5. /\ stack' = nil /\ map' = map /\ outbox' = outbox /\ told' = told
      /\ Fixed' = Fixed
      /\ agent' = AllClear \/ ("throw" \in CallbackDoes /\ agent' = agent)
  BY <1>4, NoInner DEF Returns, Throws, Clear, Cleared, AllClear, clientVars, Fixed
<1>6. Done(b, Fixed', M!Without(map', Gone(stack')), agent', outbox', {<<None, None>>})
  BY <1>3, <1>5 DEF Halting
<1>7. Said(b.told, told', {<<None, None>>}) /\ Quiet(stack')
  BY <1>3, <1>5 DEF Halting
<1>8. Calm(b)'
  BY <1>6, <1>7 DEF Calm
<1> QED BY <1>8 DEF Phase

(* A claim is sent: neither the agent nor the listener minds it.           *)
LEMMA FromAnnouncing ==
  ASSUME CallsInv, MapInv, inner' = 0, Step, NEW b, Announcing(b)
  PROVE  Phase(b)'
<1> DEFINE Sent(id, q) == Cons([op |-> "claimed", id |-> id], q)
<1>1. PICK id, q :
        /\ \/ stack = Sent(id, q)
           \/ \E i : OnTop("listener", i, Sent(id, q))
           \/ \E i \in Ids : OnTop("agent", i,
                                   Cons([op |-> "listener", id |-> i], Sent(id, q)))
        /\ Quiet(q)
        /\ agent.matchId = None
        /\ told = b.told
        /\ Done(b, Fixed, M!Without(map, Gone(q)), [agent EXCEPT !.matchId = id],
                outbox, {})
  BY DEF Announcing
<1> DEFINE z == [op |-> "claimed", id |-> id]
           c == Cons(z, q)
<1>2. c = Sent(id, q) /\ z.op = "claimed" /\ z.id = id
  OBVIOUS
<1>3. IsSeq(q)
  BY <1>1 DEF Quiet, Only
<1> HIDE DEF z
<1>4. IsSeq(c) /\ c # <<>> /\ Head(c) = z
  BY <1>3, TopOf
<1> HIDE DEF c
<1>5. CASE stack = Sent(id, q)
  <2>1. ClaimSent /\ Head(stack) = z /\ Tail(stack) = q /\ incoming' = incoming
    BY <1>2, <1>3, <1>5, TopStep DEF c
  <2>2. /\ agent' = [agent EXCEPT !.matchId = id] /\ stack' = q /\ map' = map
        /\ outbox' = outbox /\ told' = told /\ Fixed' = Fixed
    BY <1>2, <2>1 DEF ClaimSent, historyVars, Fixed
  <2>3. Done(b, Fixed', M!Without(map', Gone(stack')), agent', outbox', {})
        /\ Said(b.told, told', {})
    BY <1>1, <2>2 DEF Said
  <2>4. Calm(b)'
    BY <1>1, <2>2, <2>3 DEF Calm
  <2> QED BY <2>4 DEF Phase
<1>6. ASSUME NEW i, OnTop("listener", i, Sent(id, q))
      PROVE  Phase(b)'
  <2> DEFINE x == [op |-> "listener", id |-> i]
  <2>1. stack = Cons(x, c) /\ x.op = "listener"
    BY <1>2, <1>6 DEF OnTop
  <2> HIDE DEF x
  <2>2. Listener /\ Tail(stack) = c /\ incoming' = incoming /\ stack # <<>>
    BY <1>4, <2>1, TopStep
  <2>3. /\ stack' = c /\ map' = map /\ agent' = agent /\ outbox' = outbox
        /\ Fixed' = Fixed /\ told' = told
    BY <2>2, NoInner DEF clientVars, historyVars, Fixed
  <2>4. Announcing(b)'
    <3>1. stack' = Cons([op |-> "claimed", id |-> id], q)
      BY <1>2, <2>3
    <3>2. Done(b, Fixed', M!Without(map', Gone(q)), [agent' EXCEPT !.matchId = id],
               outbox', {})
      BY <1>1, <2>3
    <3> QED BY <1>1, <2>3, <3>1, <3>2 DEF Announcing
  <2> QED BY <2>4 DEF Phase
<1>7. ASSUME NEW i \in Ids,
             OnTop("agent", i, Cons([op |-> "listener", id |-> i], Sent(id, q)))
      PROVE  Phase(b)'
  <2> DEFINE x == [op |-> "agent", id |-> i]
             l == [op |-> "listener", id |-> i]
             u == Cons(l, c)
  <2>1. stack = Cons(x, u) /\ x.op = "agent" /\ x.id = i
    BY <1>2, <1>7 DEF OnTop
  <2> HIDE DEF x
  <2>2. IsSeq(u)
    BY <1>4, TopOf
  <2>3. Agent /\ Head(stack) = x /\ Tail(stack) = u /\ incoming' = incoming
    BY <2>1, <2>2, TopStep
  <2>4. ~Concerns(i)
    <3>1. None \notin Ids
      BY CallsAssumption DEF Ids
    <3> QED BY <1>1, <3>1 DEF Concerns
  <2>5. stack' = u /\ UNCHANGED <<clientVars, tried, searches, told, incoming>>
    <3> HIDE DEF u
    <3> QED BY <2>1, <2>3, <2>4 DEF Agent
  <2>6. /\ map' = map /\ agent' = agent /\ outbox' = outbox /\ told' = told
        /\ Fixed' = Fixed
    BY <2>5 DEF clientVars, Fixed
  <2>7. Announcing(b)'
    <3>1. stack' = Cons([op |-> "listener", id |-> i],
                        Cons([op |-> "claimed", id |-> id], q))
      BY <1>2, <2>5
    <3>2. Done(b, Fixed', M!Without(map', Gone(q)), [agent' EXCEPT !.matchId = id],
               outbox', {})
      BY <1>1, <2>6
    <3> QED BY <1>1, <2>6, <3>1, <3>2 DEF Announcing, OnTop
  <2> QED BY <2>7 DEF Phase
<1> QED BY <1>1, <1>5, <1>6, <1>7

(* A search begins, or begins again.                                       *)
LEMMA Launch ==
  ASSUME map \in Maps, NEW b, NEW wish \in Wishes, NEW s \in Nat, s # 0,
         NEW q, Quiet(q), StartMatch(wish, s, q),
         outbox = b.outbox, tried = b.tried, told' = b.told,
         \A i \in Ids : Acked(map, i) => i.advertiser # Me,
         Leads(b, wish, map, Gone(q), incoming', searches')
  PROVE  Phase(b)'
<1> DEFINE own == M!getMatchID(Me, Head(wish))
           listed == M!HandleAdvertise(map, own)
           sent == Posted(b.outbox, M!AdvertiseMsg(own))
<1>1. own \in Ids /\ own.advertiser = Me
  <2>1. Me \in Nodes /\ Head(wish) \in Games
    BY CallsAssumption
  <2> QED BY <2>1 DEF Ids, M!getMatchID
<1>2. \A id \in M!Joinable(Me, wish, map) : id \in Ids
  BY DEF M!Joinable, M!MatchIds, Ids
<1>3. IsSeq(q)
  BY DEF Quiet, Only
<1>4. Fixed'.age = actionAge' /\ Fixed'.tried = tried'
      /\ Fixed'.incoming = incoming' /\ Fixed'.searches = searches'
  BY DEF Fixed
<1>5. actionAge' = 0
  BY DEF StartMatch
<1>6. ASSUME NEW mp, NEW ag, NEW ob, NEW t,
             JoinedGame(b, Fixed', wish, map, Gone(q), mp, ag, ob, t)
               \/ ServedGame(b, Fixed', wish, map, Gone(q), mp, ag, ob, t)
      PROVE  Done(b, Fixed', mp, ag, ob, t)
  <2>1. Began(b, Fixed', wish, map, Gone(q), mp, ag, ob, t)
    BY <1>4, <1>5, <1>6 DEF Began
  <2> QED BY <1>4, <2>1 DEF Leads
<1> HIDE DEF own
<1>7. ASSUME NEW id \in M!Joinable(Me, wish, map),
             agent' = [state |-> "JOINING_WAITING_ACK", matchId |-> None,
                       target |-> wish, callback |-> s],
             tried' = tried \cup {<<s, id>>},
             Publish(M!ClaimMsg(id, Me)),
             OnClaim(id, Me, <<[op |-> "claimed", id |-> id]>> \o q)
      PROVE  Phase(b)'
  <2> DEFINE z == [op |-> "claimed", id |-> id]
             c == Cons(z, q)
             ag == [agent' EXCEPT !.matchId = id]
             mp == M!Without(map', Gone(q))
  <2>1. /\ map' = M!HandleClaim(map, id, Me)
        /\ stack' = IF M!NewClaim(map, id, Me) THEN Raise(id) \o c ELSE c
    BY <1>7 DEF OnClaim, Cons
  <2>2. /\ ag.state = "JOINING_WAITING_ACK" /\ ag.matchId = id /\ ag.target = wish
        /\ outbox' = Posted(b.outbox, M!ClaimMsg(id, Me))
        /\ Fixed'.tried = b.tried \cup {<<s, id>>}
    BY <1>4, <1>7 DEF Publish, Posted
  <2> HIDE DEF ag
  <2>3. JoinedGame(b, Fixed', wish, map, Gone(q), mp, ag, outbox', {})
    BY <2>1, <2>2 DEF JoinedGame
  <2>4. Done(b, Fixed', mp, ag, outbox', {})
    BY <1>6, <2>3
  <2>5. \/ stack' = c
        \/ stack' = Cons([op |-> "agent", id |-> id],
                         Cons([op |-> "listener", id |-> id], c))
    <3>1. IsSeq(c)
      <4> HIDE DEF z
      <4> QED BY <1>3, TopOf
    <3> HIDE DEF c
    <3> QED BY <2>1, <3>1, RaisedStack
  <2>6. agent'.matchId = None /\ id \in Ids
    BY <1>2, <1>7
  <2>7. Announcing(b)'
    BY <2>4, <2>5, <2>6 DEF Announcing, OnTop, ag
  <2> QED BY <2>7 DEF Phase
<1>8. ASSUME M!Joinable(Me, wish, map) = {},
             agent' = [state |-> "SERVING_WAITING_CLAIMS", matchId |-> own,
                       target |-> wish, callback |-> s],
             tried' = tried \cup {<<s, own>>},
             Publish(M!AdvertiseMsg(own)), OnAdvertise(own, q)
      PROVE  Phase(b)'
  <2> DEFINE l == [op |-> "listener", id |-> own]
             u == Cons(l, q)
  <2>1. map' = listed /\ outbox' = sent /\ stack' = Raise(own) \o q
    BY <1>8 DEF Publish, Posted, OnAdvertise
  <2>2. stack' = Cons([op |-> "agent", id |-> own], u)
    BY <1>3, <2>1, RaisedStack
  <2>3. l.op = "listener"
    OBVIOUS
  <2>4. /\ Hosts(agent') /\ ~Joins(agent') /\ agent'.matchId = own
        /\ agent'.state = "SERVING_WAITING_CLAIMS" /\ agent'.target = wish
        /\ agent'.callback # 0
        /\ Fixed'.tried = b.tried \cup {<<s, own>>}
    BY <1>4, <1>8 DEF Hosts, Joins
  <2> HIDE DEF l
  <2>5. IsSeq(u) /\ Quiet(u) /\ Loose(u) /\ Gone(u) = Gone(q)
    <3>1. Own(l) = {} /\ Loose(q)
      BY <2>3 DEF Own, Loose, Quiet, Only
    <3>2. Gone(u) = Own(l) \cup Gone(q)
      BY <1>3, Joined
    <3>3. Quiet(u) /\ Loose(u) /\ IsSeq(u)
      BY <1>3, <2>3, <3>1, Joined, TopOf DEF Quiet, Loose
    <3> QED BY <3>1, <3>2, <3>3
  <2> HIDE DEF u
  <2>6. /\ map' \in Maps /\ map'[own] # None /\ ~Acked(map', own)
    BY <1>1, <2>1, Advertised
  <2>7. CASE listed[own].claimsSeen = <<>>
    <3>1. ServedGame(b, Fixed', wish, map, Gone(q), M!Without(map', Gone(q)),
                     agent', outbox', {})
      BY <1>8, <2>1, <2>4, <2>7 DEF ServedGame, own
    <3>2. Done(b, Fixed', M!Without(map', Gone(u)), agent', outbox', {})
      BY <1>6, <2>5, <3>1
    <3>3. Indifferent(own)'
      BY <2>1, <2>4, <2>7 DEF Indifferent, Unanswered
    <3>4. Looking(b)'
      BY <2>2, <2>5, <3>2, <3>3 DEF Looking, OnTop
    <3> QED BY <3>4 DEF Phase
  <2>8. CASE listed[own].claimsSeen # <<>>
    <3> DEFINE first == Head(map'[own].claimsSeen)
               ack == M!AckMsg(own, first)
               left == M!Without(map', Gone(q) \cup {own})
               ob == Posted(Posted(outbox', ack), ack)
    <3>1. Ended(own, listed, sent, Gone(q), left, AllClear, ob, {<<own, first>>})
      BY <2>1 DEF Ended
    <3>2. ServedGame(b, Fixed', wish, map, Gone(q), left, AllClear, ob, {<<own, first>>})
      <4> HIDE DEF left, ob, first
      <4> QED BY <1>8, <2>4, <2>8, <3>1 DEF ServedGame, own
    <3>3. Done(b, Fixed', left, AllClear, ob, {<<own, first>>})
      <4> HIDE DEF left, ob, first
      <4> QED BY <1>6, <3>2
    <3>4. Unanswered(map', own)
      BY <2>1, <2>6, <2>8 DEF Unanswered
    <3>5. Gone(u) \cup {own} = Gone(q) \cup {own}
      BY <2>5
    <3>6. Accepting(b)'
      BY <1>1, <2>2, <2>4, <2>5, <2>6, <3>3, <3>4, <3>5 DEF Accepting, OnTop
    <3> QED BY <3>6 DEF Phase
  <2> QED BY <2>7, <2>8
<1> QED BY <1>7, <1>8 DEF StartMatch, own

(* A joiner that lost starts over.                                         *)
LEMMA FromLosing ==
  ASSUME CallsInv, MapInv, Step, NEW b, Losing(b)
  PROVE  Phase(b)'
<1>1. PICK id, q :
        /\ OnTop("agent", id, q) /\ Quiet(q)
        /\ Joins(agent) /\ agent.matchId = id /\ Acked(map, id)
        /\ Head(map[id].acksSeen) # Me
        /\ \A i \in Ids : Acked(map, i) => i.advertiser # Me
        /\ told = b.told /\ tried = b.tried /\ outbox = b.outbox
        /\ Leads(b, agent.target, map, Gone(q), incoming, searches)
  BY DEF Losing
<1> DEFINE x == [op |-> "agent", id |-> id]
<1>2. stack = Cons(x, q) /\ IsSeq(q) /\ x.op = "agent" /\ x.id = id
  BY <1>1 DEF OnTop, Quiet, Only
<1> HIDE DEF x
<1>3. Agent /\ Head(stack) = x /\ Tail(stack) = q /\ incoming' = incoming
  BY <1>2, TopStep
<1>4. Restart(q) /\ told' = told /\ searches' = searches
  <2>1. Restart(q) /\ searches' = searches
    BY <1>1, <1>2, <1>3 DEF Agent, Concerns, M!Listed, Joins, Acked
  <2> QED BY <2>1 DEF Restart
<1>5. PICK wish, s : wish = agent.target /\ s = agent.callback
  OBVIOUS
<1>6. wish \in Wishes /\ s \in Nat /\ s # 0
  BY <1>1, <1>5, BusyAgent DEF Joins
<1>7. StartMatch(wish, s, q) /\ Leads(b, wish, map, Gone(q), incoming', searches')
  BY <1>1, <1>3, <1>4, <1>5 DEF Restart
<1>8. told' = b.told /\ map \in Maps
  BY <1>1, <1>4 DEF MapInv
<1> QED BY <1>1, <1>6, <1>7, <1>8, Launch

(* Every call leaves what the phases say, while user code makes none.      *)
LEMMA PhaseStep ==
  ASSUME CallsInv, MapInv, inner' = 0, stack # <<>>, Step, NEW b, Phase(b)
  PROVE  Phase(b)'
BY FromCalm, FromLooking, FromAccepting, FromAckSent, FromWinning, FromLosing,
   FromCallingBack, FromHalting, FromAnnouncing DEF Phase

-----------------------------------------------------------------------------
(* How events begin                                                        *)

(* b is what the client was when the event began.                          *)
StartsAs(b) ==
  /\ b.map = map /\ b.agent = agent /\ b.actionAge = actionAge
  /\ b.incoming = incoming /\ b.outbox = outbox /\ b.tried = tried
  /\ b.told = told /\ b.searches = searches /\ b.astray = astray

(* What is known of a client at rest that is not astray.                   *)
Rested(b) ==
  /\ b.map \in Maps /\ b.outbox = Nothing
  /\ \A id \in Ids : ~Acked(b.map, id)
  /\ Hosts(b.agent) => ~Unanswered(b.map, b.agent.matchId)
  /\ Sides(b.agent, FALSE)
  /\ b.agent \in Agents
  /\ b.agent.state # "IDLE" => b.agent.target \in Wishes
  /\ b.incoming \in M!Message \cup {None}
  /\ IsSeq(b.told)
  /\ b.searches \in Nat

(* A client at rest, by the invariants.                                    *)
LEMMA RestedNow ==
  ASSUME CallsInv, MapInv, stack = <<>>, outbox = Nothing, ~astray,
         NEW b, StartsAs(b)
  PROVE  Rested(b)
<1>1. /\ \A id \in Ids : ~Acked(map, id)
      /\ Hosts(agent) => ~Unanswered(map, agent.matchId)
  BY TidyAtRest
<1>2. Sides(agent, FALSE) /\ map \in Maps
  BY DEF MapInv, Tidy, Sides
<1>3. agent \in Agents /\ (agent.state # "IDLE" => agent.target \in Wishes)
      /\ searches \in Nat
  BY BusyAgent
<1>4. incoming \in M!Message \cup {None} /\ IsSeq(told)
  BY DEF CallsInv, Endings
<1> QED BY <1>1, <1>2, <1>3, <1>4 DEF Rested, StartsAs

(* The two handlers of an update are pushed onto nothing.                  *)
LEMMA RaisedAlone ==
  ASSUME NEW id
  PROVE  \E u : /\ Raise(id) \o <<>> = Cons([op |-> "agent", id |-> id], u)
                /\ Quiet(u) /\ Loose(u) /\ Gone(u) = {}
<1> DEFINE nil == <<>>
           l == [op |-> "listener", id |-> id]
           u == Cons(l, nil)
<1>1. IsSeq(nil) /\ Quiet(nil) /\ Loose(nil) /\ Gone(nil) = {} /\ nil = <<>>
  BY NothingWaits DEF Quiet, Loose
<1>2. l.op = "listener"
  OBVIOUS
<1>3. Raise(id) \o nil = Cons([op |-> "agent", id |-> id], u)
  <2> HIDE DEF nil
  <2> QED BY <1>1, RaisedStack
<1> HIDE DEF nil, l
<1>4. Own(l) = {}
  BY <1>2 DEF Own
<1>5. Quiet(u) /\ Loose(u) /\ Gone(u) = Own(l) \cup Gone(nil)
  BY <1>1, <1>2, Joined DEF Quiet, Loose
<1>6. Gone(u) = {}
  BY <1>1, <1>4, <1>5
<1> HIDE DEF u
<1> QED BY <1>1, <1>3, <1>5, <1>6

(* An update of which the agent takes no notice.                           *)
LEMMA Unnoticed ==
  ASSUME NEW b, NEW id, map' \in Maps, stack' = Raise(id) \o <<>>, Indifferent(id)',
         told' = b.told, Done(b, Fixed', map', agent', outbox', {})
  PROVE  Phase(b)'
<1>1. PICK u : /\ Raise(id) \o <<>> = Cons([op |-> "agent", id |-> id], u)
               /\ Quiet(u) /\ Gone(u) = {}
  BY RaisedAlone
<1>2. M!Without(map', Gone(u)) = map'
  <2>1. \A mp \in Maps : M!Without(mp, {}) = mp
    BY RemovedTwice
  <2> QED BY <1>1, <2>1
<1>3. Done(b, Fixed', M!Without(map', Gone(u)), agent', outbox', {})
  BY <1>2
<1>4. Looking(b)'
  BY <1>1, <1>3 DEF Looking, OnTop
<1> QED BY <1>4 DEF Phase

(* An event without calls.                                                 *)
LEMMA AtOnce ==
  ASSUME NEW b, map' \in Maps, stack' = <<>>, told' = b.told,
         Done(b, Fixed', map', agent', outbox', {})
  PROVE  Phase(b)'
<1>1. Quiet(<<>>) /\ Gone(<<>>) = {}
  BY NothingWaits DEF Quiet
<1>2. M!Without(map', Gone(stack')) = map'
  <2>1. \A mp \in Maps : M!Without(mp, {}) = mp
    BY RemovedTwice
  <2> QED BY <1>1, <2>1
<1>3. Quiet(stack')
  BY <1>1
<1>4. Done(b, Fixed', M!Without(map', Gone(stack')), agent', outbox', {})
      /\ Said(b.told, told', {})
  BY <1>2 DEF Said
<1>5. Calm(b)'
  BY <1>3, <1>4 DEF Calm
<1> QED BY <1>5 DEF Phase

(* Something was appended.                                                 *)
LEMMA NotEmpty ==
  ASSUME NEW S, NEW s \in Seq(S), NEW e \in S PROVE Append(s, e) # <<>>
<1>1. DOMAIN Append(s, e) = 1..(Len(s) + 1) /\ Len(s) \in Nat
  BY Appended DEF IsSeq
<1> QED BY <1>1

(* A message arrives.                                                      *)
LEMMA FromReceive ==
  ASSUME CallsInv, MapInv, stack = <<>>, NEW b, StartsAs(b), Rested(b),
         incoming # None, Receive(incoming)
  PROVE  Phase(b)'
<1> DEFINE m == incoming
           id == m.matchId
<1>1. /\ m \in M!Message /\ id \in Ids
      /\ m.type \in {"claim", "ack"} => m.user \in Nodes
  BY DEF CallsInv, M!Message, M!MatchIds, Ids
<1>2. PICK mm : mm = m
  OBVIOUS
<1> DEFINE i == mm.matchId
<1>3. /\ agent' = b.agent /\ outbox' = b.outbox /\ told' = b.told
      /\ incoming' = None /\ tried' = b.tried /\ searches' = b.searches
  BY DEF Receive, StartsAs
<1>4. /\ Kept(b, Fixed') /\ Fixed'.incoming = None /\ Fixed'.searches = b.searches
  <2>1. actionAge' = b.actionAge
    BY DEF Receive, StartsAs
  <2> QED BY <1>3, <2>1 DEF Kept, Fixed
<1>5. /\ mm \in M!Message /\ b.incoming = mm /\ i \in Ids
      /\ mm.type \in {"claim", "ack"} => mm.user \in Nodes
  BY <1>1, <1>2 DEF StartsAs
<1>6. map = b.map /\ b.map \in Maps
  BY DEF StartsAs, Rested
<1>7. Same(b, Fixed', agent', outbox', {})
  BY <1>3, <1>4 DEF Same
<1>8. ASSUME NEW mp, NEW ag, NEW ob, NEW t, Heard(b, Fixed', mm, mp, ag, ob, t)
      PROVE  Done(b, Fixed', mp, ag, ob, t)
  BY <1>4, <1>5, <1>8 DEF Done
<1>9. \A j \in Ids : ~Acked(b.map, j)
  BY DEF Rested
<1>10. ~(Hosts(agent') /\ agent'.matchId = i /\ Unanswered(b.map, i))
  BY <1>3 DEF Rested
<1>11. ASSUME mm.type = "advertise", OnAdvertise(i, <<>>) PROVE Phase(b)'
  <2>1. map' = M!HandleAdvertise(b.map, i) /\ stack' = Raise(i) \o <<>>
    BY <1>6, <1>11 DEF OnAdvertise
  <2>2. /\ map' \in Maps /\ \A j \in Ids : Acked(map', j) => Acked(b.map, j)
        /\ \A j \in Ids : Unanswered(map', j) => Unanswered(b.map, j)
    BY <1>5, <1>6, <2>1, Advertised
  <2>3. Indifferent(i)'
    BY <1>5, <1>9, <1>10, <2>2 DEF Indifferent
  <2>4. Done(b, Fixed', map', agent', outbox', {})
    BY <1>7, <1>8, <1>11, <2>1 DEF Heard
  <2> QED BY <1>3, <2>1, <2>2, <2>3, <2>4, Unnoticed
<1>12. ASSUME mm.type = "unadvertise", Unadvertise(i), stack' = <<>> PROVE Phase(b)'
  <2>1. map' = M!Without(b.map, {i}) /\ stack' = <<>>
    BY <1>6, <1>12 DEF Unadvertise
  <2>2. map' \in Maps
    BY <1>6, <2>1, Removed
  <2>3. Done(b, Fixed', map', agent', outbox', {})
    BY <1>7, <1>8, <1>12, <2>1 DEF Heard
  <2> QED BY <1>3, <2>1, <2>2, <2>3, AtOnce
<1>13. ASSUME mm.type = "claim", OnClaim(i, mm.user, <<>>) PROVE Phase(b)'
  <2>1. map' = M!HandleClaim(b.map, i, mm.user)
        /\ stack' = IF M!NewClaim(b.map, i, mm.user) THEN Raise(i) \o <<>> ELSE <<>>
    BY <1>6, <1>13 DEF OnClaim
  <2>2. CASE ~M!NewClaim(b.map, i, mm.user)
    <3>1. map' = b.map /\ map' \in Maps /\ stack' = <<>>
      BY <1>6, <2>1, <2>2 DEF M!HandleClaim
    <3>2. HeardClaim(b, Fixed', mm, map', agent', outbox', {})
      BY <1>7, <2>1, <2>2 DEF HeardClaim
    <3>3. Done(b, Fixed', map', agent', outbox', {})
      BY <1>8, <1>13, <3>2 DEF Heard
    <3> QED BY <1>3, <3>1, <3>3, AtOnce
  <2>3. CASE M!NewClaim(b.map, i, mm.user)
    <3>1. /\ stack' = Raise(i) \o <<>>
          /\ map' \in Maps /\ map'[i] # None
          /\ map'[i].claimsSeen = Append(b.map[i].claimsSeen, mm.user)
          /\ map'[i].acksSeen = b.map[i].acksSeen
      <4>1. stack' = Raise(i) \o <<>> /\ mm.user \in Nodes
        BY <1>5, <1>13, <2>1, <2>3
      <4>2. PICK mp, user : mp = b.map /\ user = mm.user
        OBVIOUS
      <4>3. mp \in Maps /\ user \in Nodes /\ M!NewClaim(mp, i, user)
            /\ map' = M!HandleClaim(mp, i, user)
        BY <1>6, <2>1, <2>3, <4>1, <4>2
      <4>4. /\ M!HandleClaim(mp, i, user) \in Maps
            /\ M!HandleClaim(mp, i, user)[i] # None
            /\ M!HandleClaim(mp, i, user)[i].claimsSeen = Append(mp[i].claimsSeen, user)
            /\ M!HandleClaim(mp, i, user)[i].acksSeen = mp[i].acksSeen
        BY <1>5, <4>3, Claimed
      <4> QED BY <4>1, <4>2, <4>3, <4>4
    <3>2. b.map[i] # None /\ b.map[i] \in M!MatchState
      BY <1>5, <1>6, <2>3 DEF M!NewClaim, M!Listed, Maps
    <3>3. ~Acked(map', i)
      BY <1>5, <1>9, <3>1, <3>2 DEF Acked
    <3>4. CASE ServesIt(b, i)
      <4> DEFINE first == Head(map'[i].claimsSeen)
                 ack == M!AckMsg(i, first)
                 ob == Posted(Posted(outbox', ack), ack)
      <4>1. PICK u : /\ Raise(i) \o <<>> = Cons([op |-> "agent", id |-> i], u)
                     /\ Loose(u) /\ Gone(u) = {}
        BY RaisedAlone
      <4> DEFINE left == M!Without(map', Gone(u) \cup {i})
      <4>2. Ended(i, M!HandleClaim(b.map, i, mm.user), b.outbox, {}, left, AllClear,
                  ob, {<<i, first>>})
        BY <1>3, <2>1, <4>1 DEF Ended
      <4>3. HeardClaim(b, Fixed', mm, left, AllClear, ob, {<<i, first>>})
        <5> HIDE DEF left, ob, first
        <5> QED BY <1>4, <2>3, <3>4, <4>2 DEF HeardClaim
      <4>4. Done(b, Fixed', left, AllClear, ob, {<<i, first>>})
        <5> HIDE DEF left, ob, first
        <5> QED BY <1>8, <1>13, <4>3 DEF Heard
      <4>5. Unanswered(map', i)
        <5>1. b.map[i].claimsSeen \in Seq(Nodes) /\ mm.user \in Nodes
          BY <1>5, <1>13, <3>2, Entries
        <5>2. Append(b.map[i].claimsSeen, mm.user) # <<>>
          BY <5>1, NotEmpty
        <5> QED BY <3>1, <5>2 DEF Unanswered
      <4>6. Hosts(agent') /\ agent'.matchId = i
        BY <1>3, <3>4 DEF ServesIt
      <4>7. Accepting(b)'
        BY <1>3, <1>5, <3>1, <3>3, <4>1, <4>4, <4>5, <4>6 DEF Accepting, OnTop
      <4> QED BY <4>7 DEF Phase
    <3>5. CASE ~ServesIt(b, i)
      <4>1. HeardClaim(b, Fixed', mm, map', agent', outbox', {})
        BY <1>7, <2>1, <3>5 DEF HeardClaim
      <4>2. Done(b, Fixed', map', agent', outbox', {})
        BY <1>8, <1>13, <4>1 DEF Heard
      <4>3. Indifferent(i)'
        BY <1>3, <3>3, <3>5 DEF Indifferent, ServesIt
      <4> QED BY <1>3, <3>1, <4>2, <4>3, Unnoticed
    <3> QED BY <3>4, <3>5
  <2> QED BY <2>2, <2>3
<1>14. ASSUME mm.type = "ack", OnAck(i, mm.user, <<>>) PROVE Phase(b)'
  <2>1. CASE ~M!NewAck(b.map, i, mm.user)
    <3>1. map' = b.map /\ map' \in Maps /\ stack' = <<>>
      BY <1>6, <1>14, <2>1 DEF OnAck
    <3>2. HeardAck(b, Fixed', mm, map', agent', outbox', {})
      BY <1>7, <2>1, <3>1 DEF HeardAck
    <3>3. Done(b, Fixed', map', agent', outbox', {})
      BY <1>8, <1>14, <3>2 DEF Heard
    <3> QED BY <1>3, <3>1, <3>3, AtOnce
  <2>2. CASE M!NewAck(b.map, i, mm.user)
    <3> DEFINE nil == <<>>
               a == [op |-> "agent", id |-> i]
               l == [op |-> "listener", id |-> i]
               z == [op |-> "remove", id |-> i]
               v == Cons(z, nil)
               u == Cons(l, v)
    <3>1. /\ map' = M!HandleAck(b.map, i, mm.user)
          /\ stack' = Raise(i) \o <<z>> \o nil
      BY <1>6, <1>14, <2>2 DEF OnAck
    <3>2. IsSeq(nil) /\ Quiet(nil) /\ Gone(nil) = {}
      BY NothingWaits DEF Quiet
    <3>3. l.op = "listener" /\ z.op = "remove" /\ z.id = i
      OBVIOUS
    <3> HIDE DEF nil
    <3>4. stack' = Cons(a, u)
      BY <3>1, <3>2, AckedStack
    <3> HIDE DEF l, z
    <3>5. IsSeq(v) /\ Quiet(v) /\ Gone(v) = {i}
      <4>1. Own(z) = {i}
        BY <3>3 DEF Own
      <4> QED BY <3>2, <3>3, <4>1, Joined, TopOf DEF Quiet
    <3> HIDE DEF v
    <3>6. Quiet(u) /\ Gone(u) = {i}
      <4>1. Own(l) = {}
        BY <3>3 DEF Own
      <4> QED BY <3>3, <3>5, <4>1, Joined, TopOf DEF Quiet
    <3> HIDE DEF u
    <3>7. /\ map' \in Maps /\ map'[i] # None
          /\ map'[i].acksSeen = Append(b.map[i].acksSeen, mm.user)
          /\ map'[i].claimsSeen = b.map[i].claimsSeen
          /\ \A j \in Ids : j # i => map'[j] = b.map[j]
      <4>1. mm.user \in Nodes /\ map' = M!HandleAck(b.map, i, mm.user)
        BY <1>5, <1>14, <3>1
      <4>2. PICK mp, user : mp = b.map /\ user = mm.user
        OBVIOUS
      <4>3. mp \in Maps /\ user \in Nodes /\ M!NewAck(mp, i, user)
            /\ map' = M!HandleAck(mp, i, user)
        BY <1>6, <2>2, <4>1, <4>2
      <4>4. PICK new, g : new = M!HandleAck(mp, g, user) /\ g = i
        OBVIOUS
      <4>5. /\ new \in Maps /\ new[g] # None
            /\ new[g].acksSeen = Append(mp[g].acksSeen, user)
            /\ new[g].claimsSeen = mp[g].claimsSeen
            /\ \A j \in Ids : j # g => new[j] = mp[j]
        BY <1>5, <4>3, <4>4, AckNoted
      <4> QED BY <4>2, <4>3, <4>4, <4>5
    <3>8. b.map[i] # None /\ b.map[i] \in M!MatchState
      BY <1>5, <1>6, <2>2 DEF M!NewAck, M!Listed, Maps
    <3>9. Acked(map', i)
      <4>1. b.map[i].acksSeen \in Seq(Nodes) /\ mm.user \in Nodes
        BY <1>5, <1>14, <3>8, Entries
      <4>2. Append(b.map[i].acksSeen, mm.user) # <<>>
        BY <4>1
      <4> QED BY <3>7, <4>2 DEF Acked
    <3>10. OnTop("agent", i, u)'
      BY <3>4 DEF OnTop
    <3>11. CASE AwaitsIt(b, i)
      <4>1. Joins(agent') /\ agent'.matchId = i /\ i.advertiser # Me
        <5>1. i # None
          BY <1>5, CallsAssumption DEF Ids
        <5> QED BY <1>3, <3>11, <5>1 DEF AwaitsIt, Rested, Sides
      <4>2. CASE Head(map'[i].acksSeen) = Me
        <5> DEFINE left == M!Without(map', Gone(u) \cup {i})
        <5>1. left = M!Without(M!HandleAck(b.map, i, mm.user), {i})
          <6>1. Gone(u) \cup {i} = {i}
            BY <3>6
          <6> QED BY <3>1, <6>1
        <5>2. HeardAck(b, Fixed', mm, left, AllClear, outbox', {<<i, Me>>})
          <6> HIDE DEF left
          <6> QED BY <1>3, <1>4, <2>2, <3>1, <3>11, <4>2, <5>1 DEF HeardAck
        <5>3. Done(b, Fixed', left, AllClear, outbox', {<<i, Me>>})
          <6> HIDE DEF left
          <6> QED BY <1>8, <1>14, <5>2 DEF Heard
        <5>4. Winning(b)'
          BY <1>3, <3>6, <3>9, <3>10, <4>1, <4>2, <5>3 DEF Winning
        <5> QED BY <5>4 DEF Phase
      <4>3. CASE Head(map'[i].acksSeen) # Me
        <5>1. Leads(b, b.agent.target, map', Gone(u), None, b.searches)
          <6>1. SUFFICES ASSUME NEW f, NEW mp, NEW ag, NEW ob, NEW t,
                                f.incoming = None, f.searches = b.searches,
                                Began(b, f, b.agent.target, map', {i}, mp, ag, ob, t)
                         PROVE  Done(b, f, mp, ag, ob, t)
            BY <3>6 DEF Leads
          <6>2. HeardAck(b, f, mm, mp, ag, ob, t)
            BY <2>2, <3>1, <3>11, <4>3, <6>1 DEF HeardAck
          <6> QED BY <1>5, <1>14, <6>1, <6>2 DEF Heard, Done
        <5>2. Leads(b, agent'.target, map', Gone(u), incoming', searches')
          BY <1>3, <5>1
        <5>3. \A j \in Ids : Acked(map', j) => j.advertiser # Me
          BY <1>9, <3>7, <4>1 DEF Acked
        <5>4. Losing(b)'
          BY <1>3, <3>6, <3>9, <3>10, <4>1, <4>3, <5>2, <5>3 DEF Losing
        <5> QED BY <5>4 DEF Phase
      <4> QED BY <4>2, <4>3
    <3>12. CASE ~AwaitsIt(b, i)
      <4>1. HeardAck(b, Fixed', mm, M!Without(map', Gone(u)), agent', outbox', {})
        BY <1>7, <2>2, <3>1, <3>6, <3>12 DEF HeardAck
      <4>2. Done(b, Fixed', M!Without(map', Gone(u)), agent', outbox', {})
        BY <1>8, <1>14, <4>1 DEF Heard
      <4>3. Indifferent(i)'
        BY <1>3, <1>10, <3>7, <3>8, <3>12 DEF Indifferent, AwaitsIt, Unanswered
      <4>4. Looking(b)'
        BY <1>3, <3>6, <3>10, <4>2, <4>3 DEF Looking
      <4> QED BY <4>4 DEF Phase
    <3> QED BY <3>11, <3>12
  <2> QED BY <2>1, <2>2
<1> QED BY <1>2, <1>11, <1>12, <1>13, <1>14 DEF Receive

(* The user calls findMatch or stopMatch.                                  *)
LEMMA FromUser ==
  ASSUME CallsInv, MapInv, stack = <<>>, NEW b, StartsAs(b), Rested(b), UserCalls
  PROVE  Phase(b)'
<1> DEFINE nil == <<>>
<1>1. /\ Quiet(nil) /\ Loose(nil) /\ Gone(nil) = {} /\ IsSeq(nil)
      /\ incoming' = b.incoming /\ b.told = told
      /\ map = b.map /\ agent = b.agent /\ outbox = b.outbox /\ tried = b.tried
      /\ searches = b.searches /\ map \in Maps
      /\ \A i \in Ids : Acked(map, i) => i.advertiser # Me
  BY NothingWaits DEF Quiet, Loose, UserCalls, StartsAs, Rested
<1>2. ASSUME NEW wish \in Wishes, FindMatch(wish)
      PROVE  Phase(b)'
  <2>1. /\ agent.state = "IDLE" /\ searches' = b.searches + 1 /\ told' = b.told
        /\ StartMatch(wish, searches + 1, nil)
    BY <1>1, <1>2 DEF FindMatch
  <2>2. PICK s : s = searches + 1
    OBVIOUS
  <2>3. s \in Nat /\ s # 0 /\ StartMatch(wish, s, nil)
    BY <1>1, <2>1, <2>2 DEF Rested
  <2>4. Leads(b, wish, map, {}, b.incoming, b.searches + 1)
    BY <1>1, <2>1 DEF Leads, Done
  <2>5. Leads(b, wish, map, Gone(nil), incoming', searches')
    BY <1>1, <2>1, <2>4
  <2> HIDE DEF nil
  <2> QED BY <1>1, <2>1, <2>3, <2>5, Launch
<1>3. ASSUME StopMatch
      PROVE  Phase(b)'
  <2> DEFINE x == [op |-> "called", n |-> Len(told) + 1, stops |-> TRUE]
             e == [search |-> agent.callback, match |-> None, user |-> None,
                   by |-> agent.callback, amid |-> astray]
  <2>1. agent.state # "IDLE" /\ agent.callback # 0
    BY <1>3, BusyAgent DEF StopMatch
  <2>2. /\ stack' = <<x>> \o nil /\ told' = Append(told, e)
        /\ agent' = agent /\ searches' = searches /\ tried' = tried
    BY <1>3, <2>1 DEF StopMatch, Tell
  <2>3. stack' = Cons(x, nil)
    BY <2>2 DEF Cons
  <2>4. Said(b.told, told', {<<None, None>>})
    <3>1. e.match = None /\ e.user = None
      OBVIOUS
    <3> HIDE DEF e
    <3> QED BY <1>1, <2>2, <3>1 DEF Said
  <2>5. actionAge' = actionAge
        /\ \/ /\ Hosts(agent) /\ map' = M!Without(map, {agent.matchId})
              /\ outbox' = Posted(outbox, M!UnadvertiseMsg(agent.matchId))
           \/ Joins(agent) /\ map' = map /\ outbox' = outbox
    <3>1. agent \in Agents
      BY BusyAgent
    <3>2. Hosts(agent) \/ Joins(agent)
      BY <2>1, <3>1 DEF Agents, Hosts, Joins
    <3> QED BY <1>3, <3>2
          DEF StopMatch, Unadvertise, Publish, Posted, Hosts, Joins
  <2>6. Kept(b, Fixed') /\ Fixed'.incoming = b.incoming
    BY <1>1, <2>2, <2>5 DEF Kept, Fixed, StartsAs
  <2>7. ASSUME NEW ag, ag = AllClear \/ ("throw" \in CallbackDoes /\ ag = b.agent)
        PROVE  Done(b, Fixed', map', ag, outbox', {<<None, None>>})
    <3>1. Stopped(b, map', ag, outbox', {<<None, None>>})
      BY <1>1, <2>5, <2>7 DEF Stopped
    <3> QED BY <2>6, <3>1 DEF Done
  <2>8. /\ Done(b, Fixed', map', AllClear, outbox', {<<None, None>>})
        /\ "throw" \in CallbackDoes =>
             Done(b, Fixed', map', agent', outbox', {<<None, None>>})
    BY <1>1, <2>2, <2>7
  <2>9. Halting(b)'
    BY <2>3, <2>4, <2>8 DEF Halting
  <2> QED BY <2>9 DEF Phase
<1> QED BY <1>2, <1>3 DEF UserCalls

(* The agent is polled.                                                    *)
LEMMA FromPoll ==
  ASSUME CallsInv, MapInv, stack = <<>>, NEW b, StartsAs(b), Rested(b), Poll
  PROVE  Phase(b)'
<1> DEFINE nil == <<>>
<1>1. /\ Quiet(nil) /\ Gone(nil) = {}
      /\ told' = b.told /\ incoming' = b.incoming
      /\ map = b.map /\ agent = b.agent /\ outbox = b.outbox /\ tried = b.tried
      /\ searches' = b.searches /\ map \in Maps
      /\ \A i \in Ids : Acked(map, i) => i.advertiser # Me
  BY NothingWaits DEF Quiet, Poll, StartsAs, Rested
<1>2. PICK wish, s : wish = agent.target /\ s = agent.callback
  OBVIOUS
<1>3. StartMatch(wish, s, nil) /\ s # 0
  BY <1>2 DEF Poll
<1>4. OverdueIt(b)
  BY DEF Poll, OverdueIt, StartsAs, M!Listed, Acked, Hosts, Joins
<1>5. wish \in Wishes /\ s \in Nat /\ wish = b.agent.target
  <2>1. agent.state # "IDLE" /\ agent \in Agents
    BY BusyAgent DEF Poll
  <2> QED BY <1>1, <1>2, <2>1 DEF Rested, Agents
<1>6. Leads(b, wish, map, {}, b.incoming, b.searches)
  BY <1>1, <1>4, <1>5 DEF Leads, Done
<1>7. Leads(b, wish, map, Gone(nil), incoming', searches')
  BY <1>1, <1>6
<1> HIDE DEF nil
<1> QED BY <1>1, <1>3, <1>5, <1>7, Launch

(* Old games are dropped.                                                  *)
LEMMA FromTimeouts ==
  ASSUME CallsInv, MapInv, stack = <<>>, NEW b, StartsAs(b), Rested(b), CheckTimeouts
  PROVE  Phase(b)'
<1>1. /\ map' = M!Without(b.map, M!Stale(b.map)) /\ M!Stale(b.map) # {}
      /\ stack' = <<>> /\ told' = b.told
  BY DEF CheckTimeouts, StartsAs
<1>2. Same(b, Fixed', agent', outbox', {}) /\ Fixed'.incoming = b.incoming
  BY DEF CheckTimeouts, StartsAs, Same, Kept, Fixed
<1>3. map' \in Maps
  BY <1>1, Removed DEF Rested
<1>4. Done(b, Fixed', map', agent', outbox', {})
  BY <1>1, <1>2 DEF Done
<1> QED BY <1>1, <1>3, <1>4, AtOnce

(* What the phases say of the calls in progress.                           *)
FoldInv ==
  stack # <<>> =>
    \E b : b = before /\ (~b.astray => Rested(b) /\ (inner = 0 => Phase(b)))

(* An event leads to some phase.                                           *)
LEMMA EventPhase ==
  ASSUME CallsInv, MapInv, Event, ~astray, NEW b, StartsAs(b)
  PROVE  Rested(b) /\ Phase(b)'
<1>1. stack = <<>> /\ Rested(b)
  BY RestedNow DEF Event
<1> QED BY <1>1, FromReceive, FromUser, FromPoll, FromTimeouts DEF Event

(* User code that made a call during an event is not forgotten before it   *)
(* ends.                                                                   *)
LEMMA InnerGrows ==
  ASSUME CallsInv, Step
  PROVE  stack # <<>> /\ (inner # 0 => inner' # 0)
<1>1. stack # <<>>
  BY DEF Step, Agent, Accepted, Returns, Throws, CallbackCalls, Listener, Remove,
         ClaimSent, Top
<1>2. inner \in Nat
  BY DEF CallsInv
<1>3. (Finds \/ Stops) => inner' = inner + 1
  BY <1>1 DEF Finds, Stops, FindMatch, StopMatch, Inner
<1>4. inner' = inner \/ inner' = inner + 1
  BY <1>3 DEF Step, Agent, Accepted, Returns, Throws, CallbackCalls, Listener,
         Remove, ClaimSent, historyVars
<1> QED BY <1>1, <1>2, <1>4

(* The phases follow one another, and what user code calls ends them.      *)
LEMMA FoldStep ==
  ASSUME CallsInv, MapInv, FoldInv, [Next]_vars
  PROVE  FoldInv'
<1>1. SUFFICES ASSUME stack' # <<>> PROVE FoldInv'
  BY DEF FoldInv
<1>2. CASE UNCHANGED vars
  <2>1. PICK b : b = before
    OBVIOUS
  <2>2. stack' = stack /\ before' = b /\ inner' = inner
    BY <1>2, <2>1 DEF vars, historyVars
  <2>3. ~b.astray => Rested(b) /\ (inner = 0 => Phase(b))
    BY <1>1, <2>1, <2>2 DEF FoldInv
  <2>4. Phase(b) => Phase(b)'
    BY <1>2 DEF vars, clientVars, historyVars, Phase, Calm, Looking, Accepting,
         AckSent, Winning, Losing, CallingBack, Halting, Announcing,
         Fixed, OnTop, Indifferent
  <2> QED BY <2>2, <2>3, <2>4 DEF FoldInv
<1>3. CASE Event /\ Remember
  <2>1. PICK b : b = Now
    OBVIOUS
  <2>2. StartsAs(b)
    BY <2>1 DEF StartsAs, Now
  <2>3. before' = b
    BY <1>1, <1>3, <2>1 DEF Remember, Event
  <2>4. ~b.astray => Rested(b) /\ Phase(b)'
    BY <1>3, <2>2, EventPhase DEF StartsAs
  <2> QED BY <2>3, <2>4 DEF FoldInv
<1>4. CASE Step /\ Remember
  <2>1. PICK b : b = before
    OBVIOUS
  <2>2. stack # <<>> /\ (inner # 0 => inner' # 0)
    BY <1>4, InnerGrows
  <2>3. before' = b
    BY <1>1, <1>4, <2>1, <2>2 DEF Remember
  <2>4. ~b.astray => Rested(b) /\ (inner = 0 => Phase(b))
    BY <2>1, <2>2 DEF FoldInv
  <2>5. Phase(b) /\ inner' = 0 => Phase(b)'
    BY <1>4, <2>2, PhaseStep
  <2> QED BY <2>2, <2>3, <2>4, <2>5 DEF FoldInv
<1>5. CASE Environment
  BY <1>1, <1>5 DEF Environment
<1> QED BY <1>2, <1>3, <1>4, <1>5 DEF Next

-----------------------------------------------------------------------------
(* The client as Matcher sees it                                           *)

SeenMap == MineOr(Seen.map, [id \in DOMAIN Seen.map |-> None])
SeenState == MineOr(Seen.agent.state, "IDLE")
SeenId == MineOr(IF Seen.agent.state = "IDLE" THEN None
                 ELSE Seen.agent.matchId, None)
SeenTarget == MineOr(Seen.agent.target, None)
SeenAge == MineOr(Seen.actionAge, 0)
SeenNet == MineOr([m \in DOMAIN Seen.outbox |->
                     IF m = Seen.incoming THEN 1 ELSE 0], Seen.outbox)
SeenClaims == {[matchId |-> t[2], user |-> Me] :
                 t \in {t \in Seen.tried : t[2].advertiser # Me}}
SeenFilled == [p \in [matchId : DOMAIN map, user : Nodes] |-> Counted(p, TRUE)]
SeenJoined == [p \in [matchId : DOMAIN map, user : Nodes] |-> Counted(p, FALSE)]
SeenSearches == MineOr(Seen.searches, 0)

(* The same, of the client as it is in b.                                  *)
IdOf(a) == IF a.state = "IDLE" THEN None ELSE a.matchId
NetOf(inc, ob) == MineOr([m \in M!Message |-> IF m = inc THEN 1 ELSE 0], ob)
ClaimsOf(tr) ==
  {[matchId |-> t[2], user |-> Me] : t \in {t \in tr : t[2].advertiser # Me}}
Pairs == [matchId : Ids, user : Nodes]
Heeds(t, p, mine) ==
  t.match = p.matchId /\ t.user = p.user /\ (t.match.advertiser = Me) = mine
Count(tl, p, mine) == Cardinality({i \in DOMAIN tl : Heeds(tl[i], p, mine)})
Tally(tl, mine) == [p \in Pairs |-> Count(tl, p, mine)]

(* What Matcher sees of the client is b.                                   *)
View(b) ==
  /\ Seen = b
  /\ DOMAIN map = Ids
  /\ b.map \in Maps
  /\ b.outbox \in Posts

(* Matcher's variables, if the client is seen as b,                        *)
LEMMA SeenBefore ==
  ASSUME NEW b, View(b)
  PROVE  /\ SeenMap = MineOr(b.map, M!EmptyMap)
         /\ SeenState = MineOr(b.agent.state, "IDLE")
         /\ SeenId = MineOr(IdOf(b.agent), None)
         /\ SeenTarget = MineOr(b.agent.target, None)
         /\ SeenAge = MineOr(b.actionAge, 0)
         /\ SeenNet = NetOf(b.incoming, b.outbox)
         /\ SeenClaims = ClaimsOf(b.tried)
         /\ SeenFilled = Tally(b.told, TRUE)
         /\ SeenJoined = Tally(b.told, FALSE)
         /\ SeenSearches = MineOr(b.searches, 0)
<1>1. /\ Seen = b /\ DOMAIN map = Ids
      /\ DOMAIN b.map = Ids /\ DOMAIN b.outbox = M!Message
  BY DEF View, Maps, Posts
<1>2. SeenMap = MineOr(b.map, M!EmptyMap)
  BY <1>1 DEF SeenMap, M!EmptyMap, M!MatchIds, Ids
<1>3. SeenNet = NetOf(b.incoming, b.outbox)
  BY <1>1 DEF SeenNet, NetOf
<1>4. SeenFilled = Tally(b.told, TRUE) /\ SeenJoined = Tally(b.told, FALSE)
  BY <1>1 DEF SeenFilled, SeenJoined, Tally, Count, Counted, Heeds, Pairs
<1>5. SeenClaims = ClaimsOf(b.tried)
  BY <1>1 DEF SeenClaims, ClaimsOf
<1>6. SeenId = MineOr(IdOf(b.agent), None)
  BY <1>1 DEF SeenId, IdOf
<1> QED BY <1>1, <1>2, <1>3, <1>4, <1>5, <1>6
        DEF SeenState, SeenTarget, SeenAge, SeenSearches

(* and after a step, if it is then seen as c.                              *)
LEMMA SeenAfter ==
  ASSUME NEW c, View(c)'
  PROVE  /\ SeenMap' = MineOr(c.map, M!EmptyMap)
         /\ SeenState' = MineOr(c.agent.state, "IDLE")
         /\ SeenId' = MineOr(IdOf(c.agent), None)
         /\ SeenTarget' = MineOr(c.agent.target, None)
         /\ SeenAge' = MineOr(c.actionAge, 0)
         /\ SeenNet' = NetOf(c.incoming, c.outbox)
         /\ SeenClaims' = ClaimsOf(c.tried)
         /\ SeenFilled' = Tally(c.told, TRUE)
         /\ SeenJoined' = Tally(c.told, FALSE)
         /\ SeenSearches' = MineOr(c.searches, 0)
<1>1. /\ Seen' = c /\ DOMAIN map' = Ids
      /\ DOMAIN c.map = Ids /\ DOMAIN c.outbox = M!Message
  BY DEF View, Maps, Posts
<1>2. SeenMap' = MineOr(c.map, M!EmptyMap)
  BY <1>1 DEF SeenMap, M!EmptyMap, M!MatchIds, Ids
<1>3. SeenNet' = NetOf(c.incoming, c.outbox)
  BY <1>1 DEF SeenNet, NetOf
<1>4. SeenFilled' = Tally(c.told, TRUE) /\ SeenJoined' = Tally(c.told, FALSE)
  BY <1>1 DEF SeenFilled, SeenJoined, Tally, Count, Counted, Heeds, Pairs
<1>5. SeenClaims' = ClaimsOf(c.tried)
  BY <1>1 DEF SeenClaims, ClaimsOf
<1>6. SeenId' = MineOr(IdOf(c.agent), None)
  BY <1>1 DEF SeenId, IdOf
<1> QED BY <1>1, <1>2, <1>3, <1>4, <1>5, <1>6
        DEF SeenState, SeenTarget, SeenAge, SeenSearches

(* One client's part of a function.                                        *)
LEMMA Mine ==
  ASSUME NEW x, NEW o, NEW y
  PROVE  /\ MineOr(x, o)[Me] = x
         /\ [MineOr(x, o) EXCEPT ![Me] = y] = MineOr(y, o)
BY CallsAssumption DEF MineOr

(* Publishing and receiving.                                               *)
LEMMA Sends ==
  ASSUME NEW inc, NEW ob, NEW m
  PROVE  M!Broadcast(Me, m, NetOf(inc, ob)) = NetOf(inc, Posted(ob, m))
BY CallsAssumption DEF M!Broadcast, NetOf, Posted, MineOr

(* The message that arrived is the one copy on its way to this client.     *)
LEMMA Takes ==
  ASSUME NEW b, View(b), NEW m \in M!Message, b.incoming = m
  PROVE  /\ M!Consume(Me, m) = NetOf(None, b.outbox)
         /\ \A type : M!Arrived(Me, m, type) <=> m.type = type
<1> DEFINE mine == [x \in M!Message |-> IF x = m THEN 1 ELSE 0]
           none == [x \in M!Message |-> IF x = None THEN 1 ELSE 0]
<1>1. SeenNet = MineOr(mine, b.outbox) /\ NetOf(None, b.outbox) = MineOr(none, b.outbox)
  BY SeenBefore DEF NetOf
<1>2. [mine EXCEPT ![m] = @ - 1] = none /\ mine[m] = 1
  <2>1. None \notin M!Message
    BY FoldsAssumption
  <2>2. mine[m] = 1 /\ mine \in [M!Message -> {0, 1}]
    OBVIOUS
  <2>3. mine[m] - 1 = 0
    BY <2>2
  <2>4. [mine EXCEPT ![m] = 0] = none
    BY <2>1
  <2>5. [mine EXCEPT ![m] = @ - 1] = [mine EXCEPT ![m] = mine[m] - 1]
    OBVIOUS
  <2> HIDE DEF mine, none
  <2> QED BY <2>2, <2>3, <2>4, <2>5
<1> HIDE DEF mine, none
<1>3. SeenNet[Me] = mine
  BY <1>1, Mine
<1>4. [SeenNet EXCEPT ![Me] = [mine EXCEPT ![m] = @ - 1]] = NetOf(None, b.outbox)
  BY <1>1, <1>2, Mine
<1>5. M!Consume(Me, m) = [SeenNet EXCEPT ![Me][m] = @ - 1]
  BY DEF M!Consume, SeenNet
<1>6. [SeenNet EXCEPT ![Me][m] = @ - 1]
        = [SeenNet EXCEPT ![Me] = [mine EXCEPT ![m] = @ - 1]]
  BY <1>3
<1>7. \A type : M!Arrived(Me, m, type) <=> m.type = type
  <2>1. SeenNet[Me][m] > 0
    BY <1>2, <1>3
  <2> QED BY <2>1 DEF M!Arrived, SeenNet
<1> QED BY <1>4, <1>5, <1>6, <1>7

(* A claim more.                                                           *)
LEMMA ClaimsMore ==
  ASSUME NEW tr, NEW s, NEW id
  PROVE  ClaimsOf(tr \cup {<<s, id>>}) =
           IF id.advertiser = Me THEN ClaimsOf(tr)
           ELSE ClaimsOf(tr) \cup {M!Pairing(id, Me)}
<1>1. \A S, p : p \in ClaimsOf(S) <=>
        \E t \in S : t[2].advertiser # Me /\ p = M!Pairing(t[2], Me)
  BY DEF ClaimsOf, M!Pairing
<1> DEFINE x == <<s, id>>
<1>2. x[2] = id
  OBVIOUS
<1> HIDE DEF x
<1>3. \A p : p \in ClaimsOf(tr \cup {x}) <=>
        p \in ClaimsOf(tr) \/ (id.advertiser # Me /\ p = M!Pairing(id, Me))
  <2> TAKE p
  <2>1. (\E t \in tr \cup {x} : t[2].advertiser # Me /\ p = M!Pairing(t[2], Me))
          <=> \/ \E t \in tr : t[2].advertiser # Me /\ p = M!Pairing(t[2], Me)
              \/ id.advertiser # Me /\ p = M!Pairing(id, Me)
    BY <1>2
  <2> QED BY <1>1, <2>1
<1>4. id.advertiser = Me => ClaimsOf(tr \cup {x}) = ClaimsOf(tr)
  BY <1>3
<1>5. id.advertiser # Me =>
        ClaimsOf(tr \cup {x}) = ClaimsOf(tr) \cup {M!Pairing(id, Me)}
  BY <1>3
<1> QED BY <1>4, <1>5 DEF x

(* A report more.                                                          *)
LEMMA Tallied ==
  ASSUME NEW tl, IsSeq(tl), NEW e, NEW mine \in BOOLEAN
  PROVE  /\ e.match \in Ids /\ e.user \in Nodes /\ (e.match.advertiser = Me) = mine
              => Tally(Append(tl, e), mine)
                   = [Tally(tl, mine) EXCEPT ![M!Pairing(e.match, e.user)] = @ + 1]
         /\ e.match \notin Ids \/ (e.match.advertiser = Me) # mine
              => Tally(Append(tl, e), mine) = Tally(tl, mine)
<1> DEFINE new == Append(tl, e)
           n == Len(tl)
           At(l, p) == {i \in DOMAIN l : Heeds(l[i], p, mine)}
<1>1. /\ n \in Nat /\ DOMAIN tl = 1..n /\ DOMAIN new = 1..(n + 1)
      /\ \A i \in DOMAIN tl : new[i] = tl[i]
      /\ new[n + 1] = e
  BY Appended
<1> HIDE DEF new, n
<1>2. n + 1 \notin 1..n /\ 1..(n + 1) = (1..n) \cup {n + 1}
  BY <1>1
<1>3. ASSUME NEW p
      PROVE  /\ IsFiniteSet(At(tl, p)) /\ n + 1 \notin At(tl, p)
             /\ Heeds(e, p, mine) => At(new, p) = At(tl, p) \cup {n + 1}
             /\ ~Heeds(e, p, mine) => At(new, p) = At(tl, p)
  <2>1. IsFiniteSet(1..n) /\ At(tl, p) \subseteq 1..n
    BY <1>1, FS_Interval
  <2>2. IsFiniteSet(At(tl, p))
    BY <2>1, FS_Subset
  <2> QED BY <1>1, <1>2, <2>1, <2>2
<1>4. ASSUME NEW p
      PROVE  /\ Heeds(e, p, mine) => Count(new, p, mine) = Count(tl, p, mine) + 1
             /\ ~Heeds(e, p, mine) => Count(new, p, mine) = Count(tl, p, mine)
  <2>1. Count(new, p, mine) = Cardinality(At(new, p))
        /\ Count(tl, p, mine) = Cardinality(At(tl, p))
    BY DEF Count
  <2> HIDE DEF At
  <2> QED BY <1>3, <2>1, FS_AddElement
<1>5. ASSUME e.match \in Ids, e.user \in Nodes, (e.match.advertiser = Me) = mine
      PROVE  Tally(new, mine)
               = [Tally(tl, mine) EXCEPT ![M!Pairing(e.match, e.user)] = @ + 1]
  <2> DEFINE q == M!Pairing(e.match, e.user)
  <2>1. q \in Pairs
    BY <1>5 DEF M!Pairing, Pairs
  <2>2. \A p \in Pairs : Heeds(e, p, mine) <=> p = q
    BY <1>5 DEF Heeds, Pairs, M!Pairing
  <2> HIDE DEF q
  <2>3. \A p \in Pairs : Count(new, p, mine)
                           = IF p = q THEN Count(tl, p, mine) + 1
                             ELSE Count(tl, p, mine)
    BY <1>4, <2>2
  <2>4. Tally(new, mine) = [Tally(tl, mine) EXCEPT ![q] = @ + 1]
    BY <2>1, <2>3 DEF Tally
  <2> QED BY <2>4 DEF q
<1>6. ASSUME e.match \notin Ids \/ (e.match.advertiser = Me) # mine
      PROVE  Tally(new, mine) = Tally(tl, mine)
  <2>1. \A p \in Pairs : ~Heeds(e, p, mine)
    BY <1>6 DEF Heeds, Pairs
  <2>2. \A p \in Pairs : Count(new, p, mine) = Count(tl, p, mine)
    BY <1>4, <2>1
  <2> QED BY <2>2 DEF Tally
<1> QED BY <1>5, <1>6 DEF new

-----------------------------------------------------------------------------
(* What an event comes to is a step of Matcher                             *)

(* A step of the client changes its own part.                              *)
LEMMA SeenMoves ==
  ASSUME NEW b, NEW c, View(b), View(c)'
  PROVE  /\ SeenMap' = [SeenMap EXCEPT ![Me] = c.map]
         /\ SeenState' = [SeenState EXCEPT ![Me] = c.agent.state]
         /\ SeenId' = [SeenId EXCEPT ![Me] = IdOf(c.agent)]
         /\ SeenTarget' = [SeenTarget EXCEPT ![Me] = c.agent.target]
         /\ SeenAge' = [SeenAge EXCEPT ![Me] = c.actionAge]
         /\ SeenSearches' = [SeenSearches EXCEPT ![Me] = c.searches]
<1>1. /\ SeenMap = MineOr(b.map, M!EmptyMap)
      /\ SeenState = MineOr(b.agent.state, "IDLE")
      /\ SeenId = MineOr(IdOf(b.agent), None)
      /\ SeenTarget = MineOr(b.agent.target, None)
      /\ SeenAge = MineOr(b.actionAge, 0)
      /\ SeenSearches = MineOr(b.searches, 0)
  BY SeenBefore
<1>2. /\ SeenMap' = MineOr(c.map, M!EmptyMap)
      /\ SeenState' = MineOr(c.agent.state, "IDLE")
      /\ SeenId' = MineOr(IdOf(c.agent), None)
      /\ SeenTarget' = MineOr(c.agent.target, None)
      /\ SeenAge' = MineOr(c.actionAge, 0)
      /\ SeenSearches' = MineOr(c.searches, 0)
  BY SeenAfter
<1>3. \A x, o, y : [MineOr(x, o) EXCEPT ![Me] = y] = MineOr(y, o)
  BY Mine
<1> QED BY <1>1, <1>2, <1>3

(* The client's own part.                                                  *)
LEMMA SeenHeld ==
  ASSUME NEW b, View(b)
  PROVE  /\ SeenMap[Me] = b.map
         /\ SeenState[Me] = b.agent.state
         /\ SeenId[Me] = IdOf(b.agent)
         /\ SeenTarget[Me] = b.agent.target
         /\ SeenAge[Me] = b.actionAge
         /\ SeenSearches[Me] = b.searches
<1>1. /\ SeenMap = MineOr(b.map, M!EmptyMap)
      /\ SeenState = MineOr(b.agent.state, "IDLE")
      /\ SeenId = MineOr(IdOf(b.agent), None)
      /\ SeenTarget = MineOr(b.agent.target, None)
      /\ SeenAge = MineOr(b.actionAge, 0)
      /\ SeenSearches = MineOr(b.searches, 0)
  BY SeenBefore
<1>2. \A x, o : MineOr(x, o)[Me] = x
  BY Mine
<1> QED BY <1>1, <1>2

(* The tallies and claims.                                                 *)
LEMMA SeenHistory ==
  ASSUME NEW b, NEW c, View(b), View(c)'
  PROVE  /\ SeenFilled = Tally(b.told, TRUE)
         /\ SeenJoined = Tally(b.told, FALSE)
         /\ SeenFilled' = Tally(c.told, TRUE)
         /\ SeenJoined' = Tally(c.told, FALSE)
         /\ SeenClaims = ClaimsOf(b.tried)
         /\ SeenClaims' = ClaimsOf(c.tried)
<1>1. /\ SeenFilled = Tally(b.told, TRUE)
      /\ SeenJoined = Tally(b.told, FALSE)
      /\ SeenClaims = ClaimsOf(b.tried)
  BY SeenBefore
<1>2. /\ SeenFilled' = Tally(c.told, TRUE)
      /\ SeenJoined' = Tally(c.told, FALSE)
      /\ SeenClaims' = ClaimsOf(c.tried)
  BY SeenAfter
<1> QED BY <1>1, <1>2

FixedOf(c) == [age |-> c.actionAge, incoming |-> c.incoming, tried |-> c.tried,
               searches |-> c.searches]

(* The agent was cleared.                                                  *)
LEMMA ClearSeen ==
  ASSUME NEW b, NEW c, View(b), View(c)', c.agent = AllClear
  PROVE  M!ClearState(Me)
<1>1. c.agent.state = "IDLE" /\ IdOf(c.agent) = None /\ c.agent.target = None
  BY DEF AllClear, IdOf
<1>2. SeenState' = [SeenState EXCEPT ![Me] = "IDLE"]
  BY <1>1, SeenMoves
<1>3. SeenId' = [SeenId EXCEPT ![Me] = None]
  BY <1>1, SeenMoves
<1>4. SeenTarget' = [SeenTarget EXCEPT ![Me] = None]
  BY <1>1, SeenMoves
<1> QED BY <1>2, <1>3, <1>4 DEF M!ClearState, SeenState, SeenId, SeenTarget

(* Nothing, a match or the end of a search was reported.                   *)
LEMMA NoReport ==
  ASSUME NEW b, NEW c, View(b), View(c)', Said(b.told, c.told, {})
  PROVE  SeenFilled' = SeenFilled /\ SeenJoined' = SeenJoined
<1>1. b.told = c.told
  BY DEF Said
<1> QED BY <1>1, SeenHistory

(* A game one hosts counts as filled, another as joined.                   *)
LEMMA TalliedAs ==
  ASSUME NEW tl, IsSeq(tl), NEW e, e.match \in Ids, e.user \in Nodes
  PROVE  /\ e.match.advertiser = Me =>
              /\ Tally(Append(tl, e), TRUE)
                   = [Tally(tl, TRUE) EXCEPT ![M!Pairing(e.match, e.user)] = @ + 1]
              /\ Tally(Append(tl, e), FALSE) = Tally(tl, FALSE)
         /\ e.match.advertiser # Me =>
              /\ Tally(Append(tl, e), FALSE)
                   = [Tally(tl, FALSE) EXCEPT ![M!Pairing(e.match, e.user)] = @ + 1]
              /\ Tally(Append(tl, e), TRUE) = Tally(tl, TRUE)
<1>1. ASSUME e.match.advertiser = Me
      PROVE  /\ Tally(Append(tl, e), TRUE)
                  = [Tally(tl, TRUE) EXCEPT ![M!Pairing(e.match, e.user)] = @ + 1]
             /\ Tally(Append(tl, e), FALSE) = Tally(tl, FALSE)
  <2>1. (e.match.advertiser = Me) = TRUE /\ (e.match.advertiser = Me) # FALSE
    BY <1>1
  <2>2. PICK t \in BOOLEAN, f \in BOOLEAN : t = TRUE /\ f = FALSE
    OBVIOUS
  <2>3. (e.match.advertiser = Me) = t /\ (e.match.advertiser = Me) # f
    BY <2>1, <2>2
  <2>4. Tally(Append(tl, e), t)
          = [Tally(tl, t) EXCEPT ![M!Pairing(e.match, e.user)] = @ + 1]
    BY <2>3, Tallied
  <2>5. Tally(Append(tl, e), f) = Tally(tl, f)
    BY <2>3, Tallied
  <2> QED BY <2>2, <2>4, <2>5
<1>2. ASSUME e.match.advertiser # Me
      PROVE  /\ Tally(Append(tl, e), FALSE)
                  = [Tally(tl, FALSE) EXCEPT ![M!Pairing(e.match, e.user)] = @ + 1]
             /\ Tally(Append(tl, e), TRUE) = Tally(tl, TRUE)
  <2>1. (e.match.advertiser = Me) = FALSE /\ (e.match.advertiser = Me) # TRUE
    BY <1>2
  <2>2. PICK t \in BOOLEAN, f \in BOOLEAN : t = TRUE /\ f = FALSE
    OBVIOUS
  <2>3. (e.match.advertiser = Me) = f /\ (e.match.advertiser = Me) # t
    BY <2>1, <2>2
  <2>4. Tally(Append(tl, e), f)
          = [Tally(tl, f) EXCEPT ![M!Pairing(e.match, e.user)] = @ + 1]
    BY <2>3, Tallied
  <2>5. Tally(Append(tl, e), t) = Tally(tl, t)
    BY <2>3, Tallied
  <2> QED BY <2>2, <2>4, <2>5
<1> QED BY <1>1, <1>2

(* A match that was reported counts once more.                             *)
LEMMA Report ==
  ASSUME NEW b, NEW c, View(b), View(c)', IsSeq(b.told), NEW id \in Ids, NEW user \in Nodes,
         Said(b.told, c.told, {<<id, user>>})
  PROVE  /\ id.advertiser = Me =>
              /\ SeenFilled' = [SeenFilled EXCEPT ![M!Pairing(id, user)] = @ + 1]
              /\ SeenJoined' = SeenJoined
         /\ id.advertiser # Me =>
              /\ SeenJoined' = [SeenJoined EXCEPT ![M!Pairing(id, user)] = @ + 1]
              /\ SeenFilled' = SeenFilled
<1>1. PICK e : c.told = Append(b.told, e) /\ e.match = id /\ e.user = user
  <2>1. PICK e : c.told = Append(b.told, e) /\ {<<id, user>>} = {<<e.match, e.user>>}
    BY DEF Said
  <2>2. <<id, user>> = <<e.match, e.user>>
    BY <2>1
  <2>3. e.match = id /\ e.user = user
    BY <2>2
  <2> QED BY <2>1, <2>3
<1>2. /\ SeenFilled = Tally(b.told, TRUE) /\ SeenJoined = Tally(b.told, FALSE)
      /\ SeenFilled' = Tally(c.told, TRUE) /\ SeenJoined' = Tally(c.told, FALSE)
  BY SeenHistory
<1>3. PICK tl : tl = b.told
  OBVIOUS
<1>4. /\ id.advertiser = Me =>
           /\ Tally(Append(tl, e), TRUE)
                = [Tally(tl, TRUE) EXCEPT ![M!Pairing(id, user)] = @ + 1]
           /\ Tally(Append(tl, e), FALSE) = Tally(tl, FALSE)
      /\ id.advertiser # Me =>
           /\ Tally(Append(tl, e), FALSE)
                = [Tally(tl, FALSE) EXCEPT ![M!Pairing(id, user)] = @ + 1]
           /\ Tally(Append(tl, e), TRUE) = Tally(tl, TRUE)
  <2>1. IsSeq(tl) /\ e.match \in Ids /\ e.user \in Nodes
    BY <1>1, <1>3
  <2>2. M!Pairing(e.match, e.user) = M!Pairing(id, user)
    BY <1>1
  <2>3. e.match.advertiser = id.advertiser
    BY <1>1
  <2>4. /\ e.match.advertiser = Me =>
             /\ Tally(Append(tl, e), TRUE)
                  = [Tally(tl, TRUE) EXCEPT ![M!Pairing(e.match, e.user)] = @ + 1]
             /\ Tally(Append(tl, e), FALSE) = Tally(tl, FALSE)
        /\ e.match.advertiser # Me =>
             /\ Tally(Append(tl, e), FALSE)
                  = [Tally(tl, FALSE) EXCEPT ![M!Pairing(e.match, e.user)] = @ + 1]
             /\ Tally(Append(tl, e), TRUE) = Tally(tl, TRUE)
    BY <2>1, TalliedAs
  <2> QED BY <2>2, <2>3, <2>4
<1> QED BY <1>1, <1>2, <1>3, <1>4

(* The end of a search counts as none.                                     *)
LEMMA NoMatch ==
  ASSUME NEW b, NEW c, View(b), View(c)', IsSeq(b.told),
         Said(b.told, c.told, {<<None, None>>})
  PROVE  SeenFilled' = SeenFilled /\ SeenJoined' = SeenJoined
<1>1. PICK e : c.told = Append(b.told, e) /\ e.match = None
  <2>1. PICK e : c.told = Append(b.told, e)
                 /\ {<<None, None>>} = {<<e.match, e.user>>}
    BY DEF Said
  <2>2. <<None, None>> = <<e.match, e.user>>
    BY <2>1
  <2>3. e.match = None
    BY <2>2
  <2> QED BY <2>1, <2>3
<1>2. e.match \notin Ids
  BY <1>1, CallsAssumption DEF Ids
<1>3. \A mine \in BOOLEAN : Tally(c.told, mine) = Tally(b.told, mine)
  BY <1>1, <1>2, Tallied
<1> QED BY <1>3, SeenHistory

(* A host accepted a claim.                                                *)
LEMMA AcceptSeen ==
  ASSUME NEW b, NEW c, View(b), View(c)', IsSeq(b.told), NEW t, Said(b.told, c.told, t),
         NEW id \in Ids, id.advertiser = Me, NEW mm,
         Head(mm[id].claimsSeen) \in Nodes, NEW ob, NEW gone,
         Ended(id, mm, ob, gone, c.map, c.agent, c.outbox, t)
  PROVE  /\ M!AcceptClaim(Me, id, mm, NetOf(c.incoming, ob), gone)
         /\ SeenJoined' = SeenJoined
<1> DEFINE first == Head(mm[id].claimsSeen)
           ack == M!AckMsg(id, first)
           base == NetOf(c.incoming, ob)
<1>1. /\ c.map = M!Without(mm, gone \cup {id}) /\ c.agent = AllClear
      /\ c.outbox = Posted(Posted(ob, ack), ack) /\ t = {<<id, first>>}
  BY DEF Ended
<1> HIDE DEF first
<1>2. first \in Nodes
  BY DEF first
<1>3. SeenNet' = M!Broadcast(Me, ack, M!Broadcast(Me, ack, base))
  <2> HIDE DEF ack
  <2>1. M!Broadcast(Me, ack, base) = NetOf(c.incoming, Posted(ob, ack))
    BY Sends
  <2>2. M!Broadcast(Me, ack, NetOf(c.incoming, Posted(ob, ack)))
          = NetOf(c.incoming, Posted(Posted(ob, ack), ack))
    BY Sends
  <2>3. SeenNet' = NetOf(c.incoming, c.outbox)
    BY SeenAfter
  <2> QED BY <1>1, <2>1, <2>2, <2>3
<1>4. SeenMap' = [SeenMap EXCEPT ![Me] = M!Without(mm, gone \cup {id})]
  BY <1>1, SeenMoves
<1>5. /\ SeenFilled' = [SeenFilled EXCEPT ![M!Pairing(id, first)] = @ + 1]
      /\ SeenJoined' = SeenJoined
  BY <1>1, <1>2, Report
<1>6. M!ClearState(Me)
  BY <1>1, ClearSeen
<1> HIDE DEF base
<1>7. M!AcceptClaim(Me, id, mm, base, gone)
  BY <1>3, <1>4, <1>5, <1>6 DEF M!AcceptClaim, SeenNet, SeenMap, SeenFilled, first
<1> QED BY <1>5, <1>7 DEF base

(* A search began.                                                         *)
LEMMA StartSeen ==
  ASSUME NEW b, NEW c, View(b), View(c)', Rested(b), NEW t, Said(b.told, c.told, t),
         NEW wish \in Wishes, NEW mm \in Maps, NEW gone,
         Began(b, FixedOf(c), wish, mm, gone, c.map, c.agent, c.outbox, t)
  PROVE  M!StartMatch(Me, wish, mm, NetOf(c.incoming, b.outbox), gone)
<1> DEFINE base == NetOf(c.incoming, b.outbox)
           own == M!getMatchID(Me, Head(wish))
           listed == M!HandleAdvertise(mm, own)
           sent == M!Broadcast(Me, M!AdvertiseMsg(own), base)
<1>1. /\ c.actionAge = 0 /\ FixedOf(c).tried = c.tried
      /\ \/ JoinedGame(b, FixedOf(c), wish, mm, gone, c.map, c.agent, c.outbox, t)
         \/ ServedGame(b, FixedOf(c), wish, mm, gone, c.map, c.agent, c.outbox, t)
  BY DEF Began, FixedOf
<1>2. SeenAge' = [SeenAge EXCEPT ![Me] = 0]
  BY <1>1, SeenMoves
<1>3. own \in Ids /\ own.advertiser = Me
  <2>1. Me \in Nodes /\ Head(wish) \in Games
    BY CallsAssumption
  <2> QED BY <2>1 DEF Ids, M!getMatchID
<1>4. IsSeq(b.told)
  BY DEF Rested
<1>5. sent = NetOf(c.incoming, Posted(b.outbox, M!AdvertiseMsg(own)))
  BY Sends
<1> HIDE DEF own, base
<1>6. CASE JoinedGame(b, FixedOf(c), wish, mm, gone, c.map, c.agent, c.outbox, t)
  <2>1. PICK id \in M!Joinable(Me, wish, mm), s \in Nat :
          /\ c.tried = b.tried \cup {<<s, id>>}
          /\ c.map = M!Without(M!HandleClaim(mm, id, Me), gone)
          /\ c.agent.state = "JOINING_WAITING_ACK" /\ c.agent.matchId = id
          /\ c.agent.target = wish
          /\ c.outbox = Posted(b.outbox, M!ClaimMsg(id, Me))
          /\ t = {}
    BY <1>1, <1>6 DEF JoinedGame
  <2>2. id.advertiser # Me
    BY DEF M!Joinable
  <2>3. IdOf(c.agent) = id
    BY <2>1 DEF IdOf
  <2>4. /\ SeenState' = [SeenState EXCEPT ![Me] = "JOINING_WAITING_ACK"]
        /\ SeenId' = [SeenId EXCEPT ![Me] = id]
        /\ SeenTarget' = [SeenTarget EXCEPT ![Me] = wish]
    BY <2>1, <2>3, SeenMoves
  <2>5. SeenMap' = [SeenMap EXCEPT ![Me] =
                      M!Without(M!HandleClaim(mm, id, Me), gone)]
    BY <2>1, SeenMoves
  <2>6. SeenNet' = M!Broadcast(Me, M!ClaimMsg(id, Me), base)
    <3>1. SeenNet' = NetOf(c.incoming, Posted(b.outbox, M!ClaimMsg(id, Me)))
      BY <2>1, SeenAfter
    <3> QED BY <3>1, Sends DEF base
  <2>7. SeenClaims' = SeenClaims \cup {M!Pairing(id, Me)}
    <3>1. SeenClaims = ClaimsOf(b.tried)
          /\ SeenClaims' = ClaimsOf(b.tried \cup {<<s, id>>})
      BY <2>1, SeenHistory
    <3> QED BY <2>2, <3>1, ClaimsMore
  <2>8. SeenFilled' = SeenFilled /\ SeenJoined' = SeenJoined
    BY <2>1, NoReport
  <2>9. M!JoinGame(Me, wish, id, mm, base, gone)
    BY <2>4, <2>5, <2>6, <2>7, <2>8
       DEF M!JoinGame, SeenState, SeenId, SeenTarget, SeenMap, SeenNet, SeenClaims,
           SeenFilled
  <2>10. M!StartMatch(Me, wish, mm, base, gone)
    BY <1>2, <2>8, <2>9 DEF M!StartMatch, SeenAge, SeenJoined
  <2> QED BY <2>10 DEF base
<1>7. CASE ServedGame(b, FixedOf(c), wish, mm, gone, c.map, c.agent, c.outbox, t)
  <2>1. /\ M!Joinable(Me, wish, mm) = {}
        /\ \E s \in Nat : c.tried = b.tried \cup {<<s, own>>}
        /\ \/ /\ listed[own].claimsSeen = <<>>
              /\ c.map = M!Without(listed, gone)
              /\ c.agent.state = "SERVING_WAITING_CLAIMS" /\ c.agent.matchId = own
              /\ c.agent.target = wish
              /\ c.outbox = Posted(b.outbox, M!AdvertiseMsg(own))
              /\ t = {}
           \/ /\ listed[own].claimsSeen # <<>>
              /\ Ended(own, listed, Posted(b.outbox, M!AdvertiseMsg(own)), gone,
                       c.map, c.agent, c.outbox, t)
    BY <1>1, <1>7 DEF ServedGame, own
  <2>2. SeenClaims' = SeenClaims
    <3>1. PICK s \in Nat : c.tried = b.tried \cup {<<s, own>>}
      BY <2>1
    <3>2. SeenClaims = ClaimsOf(b.tried)
          /\ SeenClaims' = ClaimsOf(b.tried \cup {<<s, own>>})
      BY <3>1, SeenHistory
    <3> QED BY <1>3, <3>2, ClaimsMore
  <2>3. CASE listed[own].claimsSeen = <<>>
    <3>1. IdOf(c.agent) = own
      BY <2>1, <2>3 DEF IdOf
    <3>2. /\ SeenState' = [SeenState EXCEPT ![Me] = "SERVING_WAITING_CLAIMS"]
          /\ SeenId' = [SeenId EXCEPT ![Me] = own]
          /\ SeenTarget' = [SeenTarget EXCEPT ![Me] = wish]
      BY <2>1, <2>3, <3>1, SeenMoves
    <3>3. SeenMap' = [SeenMap EXCEPT ![Me] = M!Without(listed, gone)]
      BY <2>1, <2>3, SeenMoves
    <3>4. SeenNet' = sent
      <4>1. SeenNet' = NetOf(c.incoming, c.outbox)
        BY SeenAfter
      <4>2. c.outbox = Posted(b.outbox, M!AdvertiseMsg(own))
        BY <2>1, <2>3
      <4> QED BY <1>5, <4>1, <4>2
    <3>5. SeenFilled' = SeenFilled /\ SeenJoined' = SeenJoined
      BY <2>1, <2>3, NoReport
    <3> HIDE DEF listed, sent
    <3>6. M!ServeGame(Me, wish, own, listed, sent, gone)
      BY <2>2, <3>2, <3>3, <3>4, <3>5
         DEF M!ServeGame, SeenState, SeenId, SeenTarget, SeenMap, SeenNet,
             SeenClaims, SeenFilled
    <3>7. ~M!Claimed(listed, own)
      BY <2>3 DEF M!Claimed
    <3>8. M!StartMatch(Me, wish, mm, base, gone)
      BY <1>2, <2>1, <3>5, <3>6, <3>7
         DEF M!StartMatch, SeenAge, SeenJoined, own, listed, sent
    <3> QED BY <3>8 DEF base
  <2>4. CASE listed[own].claimsSeen # <<>>
    <3>1. Head(listed[own].claimsSeen) \in Nodes
      <4>1. listed \in Maps /\ listed[own] # None
        BY <1>3, Advertised
      <4> HIDE DEF listed
      <4>2. listed[own] \in M!MatchState
        BY <1>3, <4>1 DEF Maps
      <4>3. listed[own].claimsSeen \in Seq(Nodes)
        BY <4>2, Entries
      <4> QED BY <2>4, <4>3
    <3>2. Ended(own, listed, Posted(b.outbox, M!AdvertiseMsg(own)), gone,
                c.map, c.agent, c.outbox, t)
      BY <2>1, <2>4
    <3> HIDE DEF listed
    <3>3. /\ M!AcceptClaim(Me, own, listed, sent, gone)
          /\ SeenJoined' = SeenJoined
      BY <1>3, <1>4, <1>5, <3>1, <3>2, AcceptSeen
    <3>4. M!Claimed(listed, own)
      BY <2>4 DEF M!Claimed
    <3>5. M!StartMatch(Me, wish, mm, base, gone)
      BY <1>2, <2>1, <2>2, <3>3, <3>4
         DEF M!StartMatch, SeenAge, SeenJoined, SeenClaims, own, listed
    <3> QED BY <3>5 DEF base
  <2> QED BY <2>3, <2>4
<1> QED BY <1>1, <1>6, <1>7

(* What an event leaves as it was.                                         *)
LEMMA KeptSeen ==
  ASSUME NEW b, NEW c, View(b), View(c)', Kept(b, FixedOf(c))
  PROVE  SeenAge' = SeenAge /\ SeenClaims' = SeenClaims /\ SeenSearches' = SeenSearches
<1>1. b.actionAge = c.actionAge /\ b.tried = c.tried /\ b.searches = c.searches
  BY DEF Kept, FixedOf
<1>2. /\ SeenAge = MineOr(b.actionAge, 0) /\ SeenClaims = ClaimsOf(b.tried)
      /\ SeenSearches = MineOr(b.searches, 0)
  BY SeenBefore
<1>3. /\ SeenAge' = MineOr(c.actionAge, 0) /\ SeenClaims' = ClaimsOf(c.tried)
      /\ SeenSearches' = MineOr(c.searches, 0)
  BY SeenAfter
<1> QED BY <1>1, <1>2, <1>3

(* An agent that was left alone.                                           *)
LEMMA AgentSeen ==
  ASSUME NEW b, NEW c, View(b), View(c)', c.agent = b.agent
  PROVE  SeenState' = SeenState /\ SeenId' = SeenId /\ SeenTarget' = SeenTarget
<1>1. /\ SeenState = MineOr(b.agent.state, "IDLE")
      /\ SeenId = MineOr(IdOf(b.agent), None)
      /\ SeenTarget = MineOr(b.agent.target, None)
  BY SeenBefore
<1>2. /\ SeenState' = MineOr(c.agent.state, "IDLE")
      /\ SeenId' = MineOr(IdOf(c.agent), None)
      /\ SeenTarget' = MineOr(c.agent.target, None)
  BY SeenAfter
<1> QED BY <1>1, <1>2

(* An event that changed the map alone.                                    *)
LEMMA SameSeen ==
  ASSUME NEW b, NEW c, View(b), View(c)', NEW t,
         Same(b, FixedOf(c), c.agent, c.outbox, t), Said(b.told, c.told, t)
  PROVE  /\ SeenState' = SeenState /\ SeenId' = SeenId /\ SeenTarget' = SeenTarget
         /\ SeenAge' = SeenAge /\ SeenClaims' = SeenClaims
         /\ SeenFilled' = SeenFilled /\ SeenJoined' = SeenJoined
         /\ SeenSearches' = SeenSearches
         /\ SeenNet' = NetOf(c.incoming, b.outbox)
<1>1. /\ Kept(b, FixedOf(c)) /\ c.agent = b.agent /\ c.outbox = b.outbox
      /\ Said(b.told, c.told, {})
  BY DEF Same
<1>2. SeenNet' = NetOf(c.incoming, c.outbox)
  BY SeenAfter
<1> QED BY <1>1, <1>2, KeptSeen, AgentSeen, NoReport

(* A message that changed the map alone.                                   *)
LEMMA HeardSame ==
  ASSUME NEW b, NEW c, View(b), View(c)', NEW t,
         Same(b, FixedOf(c), c.agent, c.outbox, t), Said(b.told, c.told, t),
         NEW m \in M!Message, b.incoming = m, c.incoming = None
  PROVE  /\ SeenNet' = M!Consume(Me, m)
         /\ SeenMap' = [SeenMap EXCEPT ![Me] = c.map]
         /\ SeenState' = SeenState /\ SeenId' = SeenId /\ SeenTarget' = SeenTarget
         /\ SeenAge' = SeenAge /\ SeenClaims' = SeenClaims
         /\ SeenFilled' = SeenFilled /\ SeenJoined' = SeenJoined
         /\ SeenSearches' = SeenSearches
<1>1. M!Consume(Me, m) = NetOf(None, b.outbox)
  BY Takes
<1>2. SeenNet' = NetOf(None, b.outbox)
  BY SameSeen
<1>3. SeenMap' = [SeenMap EXCEPT ![Me] = c.map]
  BY SeenMoves
<1> QED BY <1>1, <1>2, <1>3, SameSeen

(* A message that was handled.                                             *)
LEMMA HeardSeen ==
  ASSUME NEW b, NEW c, View(b), View(c)', Rested(b), NEW t, Said(b.told, c.told, t),
         NEW m \in M!Message, b.incoming = m, c.incoming = None,
         c.searches = b.searches,
         Heard(b, FixedOf(c), m, c.map, c.agent, c.outbox, t)
  PROVE  M!Receive(Me, m)
<1> DEFINE i == m.matchId
<1>1. /\ SeenMap[Me] = b.map /\ SeenState[Me] = b.agent.state
      /\ SeenId[Me] = IdOf(b.agent) /\ SeenTarget[Me] = b.agent.target
  BY SeenHeld
<1>2. M!Consume(Me, m) = NetOf(c.incoming, b.outbox)
  BY Takes
<1>3. \A type : M!Arrived(Me, m, type) <=> m.type = type
  BY Takes
<1>4. i \in Ids
  BY DEF M!Message, M!MatchIds, Ids
<1>5. SeenSearches' = SeenSearches
  <2>1. SeenSearches = MineOr(b.searches, 0)
    BY SeenBefore
  <2>2. SeenSearches' = MineOr(c.searches, 0)
    BY SeenAfter
  <2> QED BY <2>1, <2>2
<1>6. IsSeq(b.told) /\ b.map \in Maps
  BY DEF Rested
<1>7. /\ M!Serves(Me, i) <=> ServesIt(b, i)
      /\ M!Awaits(Me, i) <=> AwaitsIt(b, i)
  BY <1>1 DEF M!Serves, M!Awaits, ServesIt, AwaitsIt, IdOf, SeenState, SeenId,
       Hosts, Joins
<1>8. CASE m.type = "advertise" /\ c.map = M!HandleAdvertise(b.map, i)
           /\ Same(b, FixedOf(c), c.agent, c.outbox, t)
  <2>1. M!Arrived(Me, m, "advertise")
    BY <1>3, <1>8
  <2>2. c.map = M!HandleAdvertise(SeenMap[Me], i)
    BY <1>1, <1>8
  <2>3. SeenMap' = [SeenMap EXCEPT ![Me] = M!HandleAdvertise(SeenMap[Me], i)]
    BY <1>8, <2>2, HeardSame
  <2>4. /\ SeenNet' = M!Consume(Me, m)
        /\ SeenState' = SeenState /\ SeenId' = SeenId /\ SeenTarget' = SeenTarget
        /\ SeenAge' = SeenAge /\ SeenClaims' = SeenClaims
        /\ SeenFilled' = SeenFilled /\ SeenJoined' = SeenJoined
        /\ SeenSearches' = SeenSearches
    BY <1>8, HeardSame
  <2>5. M!ReceiveAdvertise(Me, m)
    BY <2>1, <2>3, <2>4
       DEF M!ReceiveAdvertise, M!agentVars, M!historyVars, SeenMap, SeenNet,
           SeenState, SeenId, SeenTarget, SeenAge, SeenClaims, SeenFilled,
           SeenJoined, SeenSearches
  <2> QED BY <2>5 DEF M!Receive
<1>9. CASE m.type = "unadvertise" /\ c.map = M!Without(b.map, {i})
           /\ Same(b, FixedOf(c), c.agent, c.outbox, t)
  <2>1. M!Arrived(Me, m, "unadvertise")
    BY <1>3, <1>9
  <2>2. c.map = M!Without(SeenMap[Me], {i})
    BY <1>1, <1>9
  <2>3. SeenMap' = [SeenMap EXCEPT ![Me] = M!Without(SeenMap[Me], {i})]
    BY <1>9, <2>2, HeardSame
  <2>4. /\ SeenNet' = M!Consume(Me, m)
        /\ SeenState' = SeenState /\ SeenId' = SeenId /\ SeenTarget' = SeenTarget
        /\ SeenAge' = SeenAge /\ SeenClaims' = SeenClaims
        /\ SeenFilled' = SeenFilled /\ SeenJoined' = SeenJoined
        /\ SeenSearches' = SeenSearches
    BY <1>9, HeardSame
  <2>5. M!ReceiveUnadvertise(Me, m)
    BY <2>1, <2>3, <2>4
       DEF M!ReceiveUnadvertise, M!agentVars, M!historyVars, SeenMap, SeenNet,
           SeenState, SeenId, SeenTarget, SeenAge, SeenClaims, SeenFilled,
           SeenJoined, SeenSearches
  <2> QED BY <2>5 DEF M!Receive
<1>10. CASE m.type = "claim" /\ HeardClaim(b, FixedOf(c), m, c.map, c.agent, c.outbox, t)
  <2> DEFINE mm == M!HandleClaim(SeenMap[Me], i, m.user)
  <2>1. M!Arrived(Me, m, "claim") /\ m.user \in Nodes
    BY <1>3, <1>10 DEF M!Message
  <2>2. mm = M!HandleClaim(b.map, i, m.user)
        /\ (M!NewClaim(SeenMap[Me], i, m.user) <=> M!NewClaim(b.map, i, m.user))
    BY <1>1
  <2>3. CASE /\ M!NewClaim(b.map, i, m.user) /\ ServesIt(b, i)
             /\ Kept(b, FixedOf(c))
             /\ Ended(i, mm, b.outbox, {}, c.map, c.agent, c.outbox, t)
    <3>1. i.advertiser = Me
      BY <2>3 DEF Rested, Sides, ServesIt
    <3>2. Head(mm[i].claimsSeen) \in Nodes
      <4>1. /\ mm[i].claimsSeen = Append(b.map[i].claimsSeen, m.user)
            /\ mm \in Maps /\ mm[i] # None
        <5>1. PICK mp, user : mp = b.map /\ user = m.user
          OBVIOUS
        <5>2. mp \in Maps /\ user \in Nodes /\ M!NewClaim(mp, i, user)
              /\ mm = M!HandleClaim(mp, i, user)
          BY <1>6, <2>1, <2>2, <2>3, <5>1
        <5>3. /\ M!HandleClaim(mp, i, user)[i].claimsSeen = Append(mp[i].claimsSeen, user)
              /\ M!HandleClaim(mp, i, user) \in Maps
              /\ M!HandleClaim(mp, i, user)[i] # None
          BY <1>4, <5>2, Claimed
        <5> QED BY <5>1, <5>2, <5>3
      <4> HIDE DEF mm
      <4>2. mm[i] \in M!MatchState
        BY <1>4, <4>1 DEF Maps
      <4>3. mm[i].claimsSeen \in Seq(Nodes)
        BY <4>2, Entries
      <4>4. b.map[i].claimsSeen \in Seq(Nodes)
        <5>1. b.map[i] \in M!MatchState
          BY <1>4, <1>6, <2>3 DEF Maps, M!NewClaim, M!Listed
        <5> QED BY <5>1, Entries
      <4>5. mm[i].claimsSeen # <<>>
        BY <2>1, <4>1, <4>4, NotEmpty
      <4> QED BY <4>3, <4>5
    <3> HIDE DEF mm
    <3>3. /\ M!AcceptClaim(Me, i, mm, NetOf(c.incoming, b.outbox), {})
          /\ SeenJoined' = SeenJoined
      BY <1>4, <1>6, <2>3, <3>1, <3>2, AcceptSeen
    <3>4. M!AcceptClaim(Me, i, mm, M!Consume(Me, m), {})
      BY <1>2, <3>3
    <3>5. SeenAge' = SeenAge /\ SeenClaims' = SeenClaims /\ SeenSearches' = SeenSearches
      BY <2>3, KeptSeen
    <3>6. M!NewClaim(SeenMap[Me], i, m.user) /\ M!Serves(Me, i)
      BY <1>7, <2>2, <2>3
    <3>7. M!ReceiveClaim(Me, m)
      BY <2>1, <3>3, <3>4, <3>5, <3>6
         DEF M!ReceiveClaim, SeenMap, SeenJoined, SeenAge, SeenClaims,
             SeenSearches, mm
    <3> QED BY <3>7 DEF M!Receive
  <2>4. CASE /\ ~(M!NewClaim(b.map, i, m.user) /\ ServesIt(b, i))
             /\ c.map = mm /\ Same(b, FixedOf(c), c.agent, c.outbox, t)
    <3> HIDE DEF mm
    <3>1. SeenMap' = [SeenMap EXCEPT ![Me] = mm]
      BY <2>4, HeardSame
    <3>2. /\ SeenNet' = M!Consume(Me, m)
          /\ SeenState' = SeenState /\ SeenId' = SeenId /\ SeenTarget' = SeenTarget
          /\ SeenAge' = SeenAge /\ SeenClaims' = SeenClaims
          /\ SeenFilled' = SeenFilled /\ SeenJoined' = SeenJoined
          /\ SeenSearches' = SeenSearches
      BY <2>4, HeardSame
    <3>3. ~(M!NewClaim(SeenMap[Me], i, m.user) /\ M!Serves(Me, i))
      BY <1>7, <2>2, <2>4
    <3>4. M!ReceiveClaim(Me, m)
      BY <2>1, <3>1, <3>2, <3>3
         DEF M!ReceiveClaim, SeenMap, SeenNet, SeenState, SeenId, SeenTarget,
             SeenAge, SeenClaims, SeenFilled, SeenJoined, SeenSearches, mm
    <3> QED BY <3>4 DEF M!Receive
  <2> QED BY <1>10, <2>2, <2>3, <2>4 DEF HeardClaim
<1>11. CASE m.type = "ack" /\ HeardAck(b, FixedOf(c), m, c.map, c.agent, c.outbox, t)
  <2> DEFINE mm == M!HandleAck(SeenMap[Me], i, m.user)
  <2>1. M!Arrived(Me, m, "ack") /\ m.user \in Nodes
    BY <1>3, <1>11 DEF M!Message
  <2>2. mm = M!HandleAck(b.map, i, m.user)
        /\ (M!NewAck(SeenMap[Me], i, m.user) <=> M!NewAck(b.map, i, m.user))
    BY <1>1
  <2>3. M!Closed(SeenMap[Me], i, m.user) = M!Without(mm, {i})
    BY DEF M!Closed
  <2>4. CASE /\ M!NewAck(b.map, i, m.user) /\ AwaitsIt(b, i)
             /\ Head(mm[i].acksSeen) = Me /\ Kept(b, FixedOf(c))
             /\ c.map = M!Without(mm, {i}) /\ c.agent = AllClear
             /\ c.outbox = b.outbox /\ t = {<<i, Me>>}
    <3> HIDE DEF mm
    <3>1. M!NewAck(SeenMap[Me], i, m.user) /\ M!Won(Me, mm, i)
      BY <1>7, <2>2, <2>4 DEF M!Won
    <3>2. SeenNet' = M!Consume(Me, m)
      <4>1. SeenNet' = NetOf(c.incoming, c.outbox)
        BY SeenAfter
      <4> QED BY <1>2, <2>4, <4>1
    <3>3. SeenMap' = [SeenMap EXCEPT ![Me] = M!Closed(SeenMap[Me], i, m.user)]
      BY <2>3, <2>4, SeenMoves
    <3>4. /\ SeenJoined' = [SeenJoined EXCEPT ![M!Pairing(i, Me)] = @ + 1]
          /\ SeenFilled' = SeenFilled
      <4>1. i # None
        BY <1>4, CallsAssumption DEF Ids
      <4>2. i.advertiser # Me
        BY <2>4, <4>1 DEF Rested, Sides, AwaitsIt
      <4>3. Me \in Nodes
        BY CallsAssumption
      <4>4. PICK id \in Ids : id = i
        BY <1>4
      <4>5. Said(b.told, c.told, {<<id, Me>>})
        BY <2>4, <4>4
      <4>6. /\ SeenJoined' = [SeenJoined EXCEPT ![M!Pairing(id, Me)] = @ + 1]
            /\ SeenFilled' = SeenFilled
        BY <1>6, <4>2, <4>3, <4>4, <4>5, Report
      <4> QED BY <4>4, <4>6
    <3>5. M!ClearState(Me)
      BY <2>4, ClearSeen
    <3>6. SeenAge' = SeenAge /\ SeenClaims' = SeenClaims /\ SeenSearches' = SeenSearches
      BY <2>4, KeptSeen
    <3>7. M!ReceiveAck(Me, m)
      BY <2>1, <3>1, <3>2, <3>3, <3>4, <3>5, <3>6
         DEF M!ReceiveAck, SeenMap, SeenNet, SeenAge, SeenClaims, SeenFilled,
             SeenJoined, SeenSearches, mm
    <3> QED BY <3>7 DEF M!Receive
  <2>5. CASE /\ M!NewAck(b.map, i, m.user) /\ AwaitsIt(b, i)
             /\ Head(mm[i].acksSeen) # Me
             /\ Began(b, FixedOf(c), b.agent.target, mm, {i}, c.map, c.agent,
                      c.outbox, t)
    <3>1. mm \in Maps
      <4>1. PICK mp, user : mp = b.map /\ user = m.user
        OBVIOUS
      <4>2. mp \in Maps /\ user \in Nodes /\ M!NewAck(mp, i, user)
            /\ mm = M!HandleAck(mp, i, user)
        BY <1>6, <2>1, <2>2, <2>5, <4>1
      <4>3. M!HandleAck(mp, i, user) \in Maps
        BY <1>4, <4>2, AckNoted
      <4> QED BY <4>2, <4>3
    <3>2. PICK wish \in Wishes : wish = b.agent.target
      BY <2>5 DEF Rested, AwaitsIt, Joins
    <3> HIDE DEF mm
    <3>3. M!StartMatch(Me, wish, mm, NetOf(c.incoming, b.outbox), {i})
      BY <2>5, <3>1, <3>2, StartSeen
    <3>4. M!StartMatch(Me, SeenTarget[Me], mm, M!Consume(Me, m), {i})
      BY <1>1, <1>2, <3>2, <3>3
    <3>5. M!NewAck(SeenMap[Me], i, m.user) /\ M!Lost(Me, mm, i)
      BY <1>7, <2>2, <2>5 DEF M!Lost
    <3>6. M!ReceiveAck(Me, m)
      BY <1>5, <2>1, <3>4, <3>5
         DEF M!ReceiveAck, SeenMap, SeenTarget, SeenSearches, mm
    <3> QED BY <3>6 DEF M!Receive
  <2>6. CASE /\ M!NewAck(b.map, i, m.user) /\ ~AwaitsIt(b, i)
             /\ c.map = M!Without(mm, {i}) /\ Same(b, FixedOf(c), c.agent, c.outbox, t)
    <3>1. SeenMap' = [SeenMap EXCEPT ![Me] = M!Closed(SeenMap[Me], i, m.user)]
      BY <2>3, <2>6, HeardSame
    <3>2. /\ SeenNet' = M!Consume(Me, m)
          /\ SeenState' = SeenState /\ SeenId' = SeenId /\ SeenTarget' = SeenTarget
          /\ SeenAge' = SeenAge /\ SeenClaims' = SeenClaims
          /\ SeenFilled' = SeenFilled /\ SeenJoined' = SeenJoined
          /\ SeenSearches' = SeenSearches
      BY <2>6, HeardSame
    <3>3. M!NewAck(SeenMap[Me], i, m.user) /\ ~M!Awaits(Me, i)
      BY <1>7, <2>2, <2>6
    <3>4. M!ReceiveAck(Me, m)
      BY <2>1, <3>1, <3>2, <3>3
         DEF M!ReceiveAck, M!agentVars, M!historyVars, SeenMap, SeenNet,
             SeenState, SeenId, SeenTarget, SeenAge, SeenClaims, SeenFilled,
             SeenJoined, SeenSearches
    <3> QED BY <3>4 DEF M!Receive
  <2>7. CASE /\ ~M!NewAck(b.map, i, m.user)
             /\ c.map = b.map /\ Same(b, FixedOf(c), c.agent, c.outbox, t)
    <3>1. SeenMap' = SeenMap
      <4>1. SeenMap = MineOr(b.map, M!EmptyMap)
        BY SeenBefore
      <4>2. SeenMap' = MineOr(c.map, M!EmptyMap)
        BY SeenAfter
      <4> QED BY <2>7, <4>1, <4>2
    <3>2. /\ SeenNet' = M!Consume(Me, m)
          /\ SeenState' = SeenState /\ SeenId' = SeenId /\ SeenTarget' = SeenTarget
          /\ SeenAge' = SeenAge /\ SeenClaims' = SeenClaims
          /\ SeenFilled' = SeenFilled /\ SeenJoined' = SeenJoined
          /\ SeenSearches' = SeenSearches
      BY <2>7, HeardSame
    <3>3. ~M!NewAck(SeenMap[Me], i, m.user)
      BY <2>2, <2>7
    <3>4. M!ReceiveAck(Me, m)
      BY <2>1, <3>1, <3>2, <3>3
         DEF M!ReceiveAck, M!agentVars, M!historyVars, SeenMap, SeenNet,
             SeenState, SeenId, SeenTarget, SeenAge, SeenClaims, SeenFilled,
             SeenJoined, SeenSearches
    <3> QED BY <3>4 DEF M!Receive
  <2> HIDE DEF mm
  <2> QED BY <1>11, <2>2, <2>4, <2>5, <2>6, <2>7 DEF HeardAck
<1> QED BY <1>8, <1>9, <1>10, <1>11 DEF Heard

(* The user stopped the search.                                            *)
LEMMA StopSeen ==
  ASSUME NEW b, NEW c, View(b), View(c)', Rested(b), NEW t, Said(b.told, c.told, t),
         c.incoming = b.incoming, Kept(b, FixedOf(c)),
         Stopped(b, c.map, c.agent, c.outbox, t)
  PROVE  M!UserStep(Me)
<1>1. /\ SeenMap[Me] = b.map /\ SeenState[Me] = b.agent.state
      /\ SeenId[Me] = IdOf(b.agent)
  BY SeenHeld
<1>2. SeenNet = NetOf(b.incoming, b.outbox) /\ SeenNet' = NetOf(b.incoming, c.outbox)
  <2>1. SeenNet' = NetOf(c.incoming, c.outbox)
    BY SeenAfter
  <2>2. SeenNet = NetOf(b.incoming, b.outbox)
    BY SeenBefore
  <2> QED BY <2>1, <2>2
<1>3. SeenAge' = SeenAge /\ SeenClaims' = SeenClaims /\ SeenSearches' = SeenSearches
  BY KeptSeen
<1>4. SeenFilled' = SeenFilled /\ SeenJoined' = SeenJoined
  <2>1. IsSeq(b.told) /\ Said(b.told, c.told, {<<None, None>>})
    BY DEF Rested, Stopped
  <2> QED BY <2>1, NoMatch
<1>5. M!StopServing(Me) \/ M!StopJoining(Me)
  <2>1. CASE /\ Hosts(b.agent) /\ c.map = M!Without(b.map, {b.agent.matchId})
             /\ c.outbox = Posted(b.outbox, M!UnadvertiseMsg(b.agent.matchId))
    <3>1. SeenState[Me] = "SERVING_WAITING_CLAIMS" /\ SeenId[Me] = b.agent.matchId
      BY <1>1, <2>1 DEF Hosts, IdOf
    <3>2. SeenNet' = M!Broadcast(Me, M!UnadvertiseMsg(SeenId[Me]), SeenNet)
      <4>1. PICK ob : ob = b.outbox
        OBVIOUS
      <4>2. SeenNet' = NetOf(b.incoming, Posted(ob, M!UnadvertiseMsg(SeenId[Me])))
        BY <1>2, <2>1, <3>1, <4>1
      <4>3. M!Broadcast(Me, M!UnadvertiseMsg(SeenId[Me]), NetOf(b.incoming, ob))
              = NetOf(b.incoming, Posted(ob, M!UnadvertiseMsg(SeenId[Me])))
        BY Sends
      <4> QED BY <1>2, <4>1, <4>2, <4>3
    <3>3. SeenMap' = [SeenMap EXCEPT ![Me] = M!Without(SeenMap[Me], {SeenId[Me]})]
      <4>1. c.map = M!Without(SeenMap[Me], {SeenId[Me]})
        BY <1>1, <2>1, <3>1
      <4> QED BY <4>1, SeenMoves
    <3>4. M!StopServing(Me)
      BY <3>1, <3>2, <3>3 DEF M!StopServing, SeenState, SeenId, SeenNet, SeenMap
    <3> QED BY <3>4
  <2>2. CASE Joins(b.agent) /\ c.map = b.map /\ c.outbox = b.outbox
    <3>1. SeenState[Me] = "JOINING_WAITING_ACK"
      BY <1>1, <2>2 DEF Joins
    <3>2. SeenMap' = SeenMap
      <4>1. SeenMap = MineOr(b.map, M!EmptyMap)
        BY SeenBefore
      <4>2. SeenMap' = MineOr(c.map, M!EmptyMap)
        BY SeenAfter
      <4> QED BY <2>2, <4>1, <4>2
    <3>3. SeenNet' = SeenNet
      BY <1>2, <2>2
    <3>4. M!StopJoining(Me)
      BY <3>1, <3>2, <3>3 DEF M!StopJoining, SeenState, SeenNet, SeenMap
    <3> QED BY <3>4
  <2> QED BY <2>1, <2>2 DEF Stopped
<1>6. CASE c.agent = AllClear
  <2>1. M!ClearState(Me)
    BY <1>6, ClearSeen
  <2>2. M!StopMatch(Me, "returns")
    BY <1>3, <1>4, <1>5, <2>1
       DEF M!StopMatch, M!historyVars, SeenAge, SeenClaims, SeenSearches,
           SeenFilled, SeenJoined
  <2> QED BY <2>2, FoldsAssumption DEF M!UserStep
<1>7. CASE "throw" \in CallbackDoes /\ c.agent = b.agent
  <2>1. SeenState' = SeenState /\ SeenId' = SeenId /\ SeenTarget' = SeenTarget
    BY <1>7, AgentSeen
  <2>2. M!StopMatch(Me, "throws")
    BY <1>3, <1>4, <1>5, <2>1
       DEF M!StopMatch, M!historyVars, SeenAge, SeenClaims, SeenSearches,
           SeenFilled, SeenJoined, SeenState, SeenId, SeenTarget
  <2> QED BY <1>7, <2>2, FoldsAssumption DEF M!UserStep
<1> QED BY <1>6, <1>7 DEF Stopped

(* What an event has done is a step of the client in Matcher.              *)
LEMMA DoneSeen ==
  ASSUME NEW b, NEW c, View(b), View(c)', Rested(b), NEW t, Said(b.told, c.told, t),
         Done(b, FixedOf(c), c.map, c.agent, c.outbox, t)
  PROVE  M!ClientStep(Me)
<1>1. /\ SeenMap[Me] = b.map /\ SeenState[Me] = b.agent.state
      /\ SeenTarget[Me] = b.agent.target /\ SeenSearches[Me] = b.searches
      /\ SeenId[Me] = IdOf(b.agent) /\ SeenAge[Me] = b.actionAge
  BY SeenHeld
<1>2. SeenNet = NetOf(b.incoming, b.outbox)
  BY SeenBefore
<1>3. FixedOf(c).incoming = c.incoming /\ FixedOf(c).searches = c.searches
  BY DEF FixedOf
<1>4. CASE /\ b.incoming \in M!Message /\ c.incoming = None
           /\ c.searches = b.searches
           /\ Heard(b, FixedOf(c), b.incoming, c.map, c.agent, c.outbox, t)
  <2>1. PICK m \in M!Message : m = b.incoming
    BY <1>4
  <2>2. Heard(b, FixedOf(c), m, c.map, c.agent, c.outbox, t)
    BY <1>4, <2>1
  <2>3. M!Receive(Me, m)
    BY <1>4, <2>1, <2>2, HeardSeen
  <2> QED BY <2>3 DEF M!ClientStep
<1>5. CASE /\ c.incoming = b.incoming /\ c.searches = b.searches + 1
           /\ b.agent.state = "IDLE"
           /\ \E wish \in Wishes : Began(b, FixedOf(c), wish, b.map, {}, c.map,
                                         c.agent, c.outbox, t)
  <2>1. PICK wish \in Wishes : Began(b, FixedOf(c), wish, b.map, {}, c.map,
                                     c.agent, c.outbox, t)
    BY <1>5
  <2>2. M!StartMatch(Me, wish, b.map, NetOf(c.incoming, b.outbox), {})
    <3>1. PICK mm \in Maps : mm = b.map
      BY DEF Rested
    <3>2. Began(b, FixedOf(c), wish, mm, {}, c.map, c.agent, c.outbox, t)
      BY <2>1, <3>1
    <3> QED BY <3>1, <3>2, StartSeen
  <2>3. M!StartMatch(Me, wish, SeenMap[Me], SeenNet, {})
    BY <1>1, <1>2, <1>5, <2>2
  <2>4. SeenSearches' = [SeenSearches EXCEPT ![Me] = @ + 1]
    <3>1. c.searches = SeenSearches[Me] + 1
      BY <1>1, <1>5
    <3> QED BY <3>1, SeenMoves
  <2>5. SeenState[Me] = "IDLE"
    BY <1>1, <1>5
  <2>6. M!FindMatch(Me, wish)
    BY <2>3, <2>4, <2>5 DEF M!FindMatch, SeenMap, SeenNet, SeenSearches, SeenState
  <2> QED BY <2>6 DEF M!ClientStep, M!UserStep
<1>6. CASE /\ c.incoming = b.incoming /\ c.searches = b.searches /\ OverdueIt(b)
           /\ Began(b, FixedOf(c), b.agent.target, b.map, {}, c.map, c.agent,
                    c.outbox, t)
  <2>1. M!Overdue(Me)
    <3>1. CASE Hosts(b.agent) /\ b.actionAge > SERVING_REBROADCAST_TIMEOUT
      BY <1>1, <3>1 DEF M!Overdue, M!AdvertLapsed, SeenState, SeenAge, Hosts
    <3>2. CASE /\ Joins(b.agent)
               /\ LET id == b.agent.matchId
                  IN \/ b.map[id] = None
                     \/ Acked(b.map, id) /\ Head(b.map[id].acksSeen) # Me
                     \/ /\ b.map[id] # None /\ ~Acked(b.map, id)
                        /\ b.actionAge > CLAIM_ACK_TIMEOUT
      <4>1. SeenState[Me] = "JOINING_WAITING_ACK" /\ SeenId[Me] = b.agent.matchId
        BY <1>1, <3>2 DEF Joins, IdOf
      <4>2. M!ClaimLapsed(Me)
        BY <1>1, <3>2, <4>1
           DEF M!ClaimLapsed, M!Listed, Acked, SeenId, SeenMap, SeenAge
      <4> QED BY <4>1, <4>2 DEF M!Overdue, SeenState
    <3> QED BY <1>6, <3>1, <3>2 DEF OverdueIt
  <2>2. PICK wish \in Wishes : wish = b.agent.target
    BY <1>6 DEF OverdueIt, Rested, Hosts, Joins
  <2>3. PICK mm \in Maps : mm = b.map
    BY DEF Rested
  <2>4. M!StartMatch(Me, wish, mm, NetOf(c.incoming, b.outbox), {})
    <3>1. Began(b, FixedOf(c), wish, mm, {}, c.map, c.agent, c.outbox, t)
      BY <1>6, <2>2, <2>3
    <3> QED BY <3>1, StartSeen
  <2>5. M!StartMatch(Me, SeenTarget[Me], SeenMap[Me], SeenNet, {})
    BY <1>1, <1>2, <1>6, <2>2, <2>3, <2>4
  <2>6. SeenSearches' = SeenSearches
    <3>1. SeenSearches = MineOr(b.searches, 0)
      BY SeenBefore
    <3>2. SeenSearches' = MineOr(c.searches, 0)
      BY SeenAfter
    <3> QED BY <1>6, <3>1, <3>2
  <2>7. M!Poll(Me)
    BY <2>1, <2>5, <2>6 DEF M!Poll, SeenTarget, SeenMap, SeenNet, SeenSearches
  <2> QED BY <2>7 DEF M!ClientStep
<1>7. CASE /\ c.incoming = b.incoming /\ Kept(b, FixedOf(c))
           /\ Stopped(b, c.map, c.agent, c.outbox, t)
  BY <1>7, StopSeen DEF M!ClientStep
<1>8. CASE /\ c.incoming = b.incoming
           /\ c.map = M!Without(b.map, M!Stale(b.map)) /\ M!Stale(b.map) # {}
           /\ Same(b, FixedOf(c), c.agent, c.outbox, t)
  <2>1. /\ SeenState' = SeenState /\ SeenId' = SeenId /\ SeenTarget' = SeenTarget
        /\ SeenAge' = SeenAge /\ SeenClaims' = SeenClaims
        /\ SeenFilled' = SeenFilled /\ SeenJoined' = SeenJoined
        /\ SeenSearches' = SeenSearches /\ SeenNet' = SeenNet
    BY <1>2, <1>8, SameSeen
  <2>2. SeenMap' = [SeenMap EXCEPT ![Me] =
                      M!Without(SeenMap[Me], M!Stale(SeenMap[Me]))]
    <3>1. c.map = M!Without(SeenMap[Me], M!Stale(SeenMap[Me]))
      BY <1>1, <1>8
    <3> QED BY <3>1, SeenMoves
  <2>3. M!Stale(SeenMap[Me]) # {}
    BY <1>1, <1>8
  <2>4. M!CheckTimeouts(Me)
    BY <2>1, <2>2, <2>3
       DEF M!CheckTimeouts, M!agentVars, M!historyVars, SeenMap, SeenNet,
           SeenState, SeenId, SeenTarget, SeenAge, SeenClaims, SeenFilled,
           SeenJoined, SeenSearches
  <2> QED BY <2>4 DEF M!ClientStep
<1> QED BY <1>3, <1>4, <1>5, <1>6, <1>7, <1>8 DEF Done

-----------------------------------------------------------------------------
(* Every step                                                              *)

(* Nothing to send.                                                        *)
LEMMA NothingPosted == Nothing \in Posts
BY DEF Nothing, Posts

(* A search begins with calls.                                             *)
LEMMA StartPushes ==
  ASSUME NEW wish, NEW search, NEW rest, IsSeq(rest),
         StartMatch(wish, search, rest)
  PROVE  stack' # <<>>
<1>1. \A id, q : IsSeq(q) => Raise(id) \o q # <<>>
  BY OneByOne, TopOf DEF Raise
<1>2. ASSUME NEW id, OnClaim(id, Me, <<[op |-> "claimed", id |-> id]>> \o rest)
      PROVE  stack' # <<>>
  <2> DEFINE x == [op |-> "claimed", id |-> id]
  <2>1. IsSeq(Cons(x, rest)) /\ Cons(x, rest) # <<>>
    <3> HIDE DEF x
    <3> QED BY TopOf
  <2>2. stack' = Cons(x, rest) \/ stack' = Raise(id) \o Cons(x, rest)
    BY <1>2 DEF OnClaim, Cons
  <2> HIDE DEF x
  <2> QED BY <1>1, <2>1, <2>2
<1>3. ASSUME NEW id, OnAdvertise(id, rest)
      PROVE  stack' # <<>>
  BY <1>1, <1>3 DEF OnAdvertise
<1> QED BY <1>2, <1>3 DEF StartMatch

(* User code that makes a call leaves it in progress.                      *)
LEMMA InnerBusy ==
  ASSUME CallsInv, Step, inner = 0, stack' = <<>>
  PROVE  inner' = 0
<1>1. IsSeq(stack) /\ stack # <<>>
  BY InnerGrows DEF CallsInv
<1>2. ~Finds
  BY <1>1, StartPushes DEF Finds, FindMatch
<1>3. ~Stops
  <2>1. SUFFICES ASSUME StopMatch PROVE FALSE
    BY DEF Stops
  <2>2. agent.callback # 0
    BY <2>1, BusyAgent DEF StopMatch
  <2>3. PICK x : stack' = Cons(x, stack)
    BY <2>1, <2>2 DEF StopMatch, Tell, Cons
  <2> QED BY <1>1, <2>3, TopOf
<1> QED BY <1>2, <1>3 DEF Step, Agent, Accepted, Returns, Throws, CallbackCalls,
              Listener, Remove, ClaimSent, historyVars

(* When all calls have returned, nothing is left to do.                    *)
LEMMA OnlyCalm ==
  ASSUME NEW b, Phase(b)', stack' = <<>>
  PROVE  Calm(b)'
<1>1. \A x, q : IsSeq(q) => Cons(x, q) # <<>> /\ IsSeq(Cons(x, q))
  BY TopOf
<1>2. \A q : Quiet(q) \/ Loose(q) => IsSeq(q)
  BY DEF Quiet, Loose, Only
<1>3. ~Looking(b)'
  BY <1>1, <1>2 DEF Looking, OnTop
<1>4. ~Accepting(b)'
  BY <1>1, <1>2 DEF Accepting, OnTop
<1>5. ~AckSent(b)'
  BY <1>1, <1>2 DEF AckSent
<1>6. ~Winning(b)'
  BY <1>1, <1>2 DEF Winning, OnTop
<1>7. ~Losing(b)'
  BY <1>1, <1>2 DEF Losing, OnTop
<1>8. ~CallingBack(b)'
  BY <1>1, <1>2 DEF CallingBack
<1>9. ~Halting(b)'
  <2>1. IsSeq(<<>>)
    BY NothingWaits
  <2> QED BY <1>1, <2>1 DEF Halting
<1>10. ~Announcing(b)'
  BY <1>1, <1>2 DEF Announcing, OnTop
<1> QED BY <1>3, <1>4, <1>5, <1>6, <1>7, <1>8, <1>9, <1>10 DEF Phase

(* When all calls have returned, the client has made a step of Matcher.    *)
LEMMA CalmSeen ==
  ASSUME MapInv', NEW b, View(b), Rested(b), Calm(b)', stack' = <<>>
  PROVE  M!ClientStep(Me)
<1>1. PICK c : c = Now'
  OBVIOUS
<1>2. /\ c.map = map' /\ c.agent = agent' /\ c.outbox = outbox' /\ c.told = told'
      /\ FixedOf(c) = Fixed'
  BY <1>1 DEF Now, FixedOf, Fixed
<1>3. map' \in Maps /\ outbox' \in Posts
  BY DEF MapInv
<1>4. View(c)'
  <2>1. Seen' = c
    BY <1>1 DEF Seen
  <2>2. DOMAIN map' = Ids
    BY <1>3 DEF Maps
  <2> QED BY <1>2, <1>3, <2>1, <2>2 DEF View
<1>5. M!Without(map', Gone(stack')) = map'
  <2>1. Gone(<<>>) = {}
    BY NothingWaits
  <2>2. PICK mp : mp = map'
    OBVIOUS
  <2>3. M!Without(mp, {}) = mp
    BY <1>3, <2>2, RemovedTwice
  <2> QED BY <2>1, <2>2, <2>3
<1>6. PICK t : Done(b, Fixed', map', agent', outbox', t) /\ Said(b.told, told', t)
  BY <1>5 DEF Calm
<1>7. Done(b, FixedOf(c), c.map, c.agent, c.outbox, t) /\ Said(b.told, c.told, t)
  BY <1>2, <1>6
<1> QED BY <1>4, <1>7, DoneSeen

(* A client that is seen as it was has not moved.                          *)
LEMMA SeenStill ==
  ASSUME NEW s, Seen = s, Seen' = s, DOMAIN map' = DOMAIN map
  PROVE  UNCHANGED M!vars
<1>1. /\ SeenMap' = SeenMap /\ SeenState' = SeenState /\ SeenId' = SeenId
      /\ SeenTarget' = SeenTarget /\ SeenAge' = SeenAge /\ SeenNet' = SeenNet
      /\ SeenClaims' = SeenClaims /\ SeenSearches' = SeenSearches
  BY DEF SeenMap, SeenState, SeenId, SeenTarget, SeenAge, SeenNet, SeenClaims,
         SeenSearches
<1>2. SeenFilled' = SeenFilled /\ SeenJoined' = SeenJoined
  BY DEF SeenFilled, SeenJoined, Counted
<1> QED BY <1>1, <1>2
        DEF M!vars, SeenMap, SeenState, SeenId, SeenTarget, SeenAge, SeenNet,
            SeenClaims, SeenSearches, SeenFilled, SeenJoined

(* So has it in every step but those FoldsToMatcher exempts.               *)
LEMMA EventsFoldStep ==
  ASSUME CallsInv, MapInv, MapInv', FoldInv, [Next]_vars
  PROVE  \/ M!ClientStep(Me) \/ (stack # <<>> /\ inner # 0) \/ Seen.astray
         \/ Environment \/ UNCHANGED M!vars
<1>1. DOMAIN map' = DOMAIN map /\ DOMAIN map = Ids
  BY DEF MapInv, Maps
<1>2. CASE UNCHANGED vars
  <2>1. PICK s : s = Seen
    OBVIOUS
  <2>2. Seen' = s
    BY <1>2, <2>1 DEF vars, clientVars, historyVars, Seen, Now
  <2> QED BY <1>1, <2>1, <2>2, SeenStill
<1>3. CASE Event /\ Remember /\ ~Seen.astray
  <2>1. PICK b : b = Now
    OBVIOUS
  <2>2. StartsAs(b)
    BY <2>1 DEF StartsAs, Now
  <2>3. stack = <<>> /\ Seen = b /\ ~astray
    BY <1>3, <2>1, <2>2 DEF Event, Seen, StartsAs
  <2>4. CASE stack' # <<>>
    <3>1. Seen' = b
      BY <1>3, <2>1, <2>3, <2>4 DEF Remember, Seen
    <3> QED BY <1>1, <2>3, <3>1, SeenStill
  <2>5. CASE stack' = <<>>
    <3>1. Phase(b)' /\ Rested(b)
      BY <1>3, <2>2, <2>3, EventPhase
    <3>2. View(b)
      BY <1>1, <2>2, <2>3 DEF View, StartsAs, MapInv
    <3>3. Calm(b)'
      BY <2>5, <3>1, OnlyCalm
    <3> QED BY <2>5, <3>1, <3>2, <3>3, CalmSeen
  <2> QED BY <2>4, <2>5
<1>4. CASE Step /\ Remember /\ inner = 0 /\ ~Seen.astray
  <2>1. stack # <<>>
    BY <1>4, InnerGrows
  <2>2. PICK b : b = before
    OBVIOUS
  <2>3. Seen = b
    BY <2>1, <2>2 DEF Seen
  <2>4. Rested(b) /\ Phase(b)
    BY <1>4, <2>1, <2>2, <2>3 DEF FoldInv
  <2>5. CASE stack' # <<>>
    <3>1. Seen' = b
      BY <1>4, <2>1, <2>2, <2>5 DEF Remember, Seen
    <3> QED BY <1>1, <2>3, <3>1, SeenStill
  <2>6. CASE stack' = <<>>
    <3>1. inner' = 0
      BY <1>4, <2>6, InnerBusy
    <3>2. Phase(b)'
      BY <1>4, <2>1, <2>4, <3>1, PhaseStep
    <3>3. Calm(b)'
      BY <2>6, <3>2, OnlyCalm
    <3>4. View(b)
      <4>1. b.map \in Maps /\ b.outbox \in Posts
        BY <2>4, NothingPosted DEF Rested
      <4> QED BY <1>1, <2>3, <4>1 DEF View
    <3> QED BY <2>4, <2>6, <3>3, <3>4, CalmSeen
  <2> QED BY <2>5, <2>6
<1>5. CASE Step /\ inner # 0
  BY <1>5, InnerGrows
<1> QED BY <1>2, <1>3, <1>4, <1>5 DEF Next

(* The calls in progress always stand where FoldInv says.                  *)
LEMMA FoldInvariance == Spec => [](CallsInv /\ MapInv /\ FoldInv)
<1>1. Init => MapInv /\ FoldInv
  <2> SUFFICES ASSUME Init PROVE MapInv /\ FoldInv
    OBVIOUS
  <2>1. map = M!EmptyMap /\ outbox = Nothing /\ stack = <<>>
        /\ agent.state = "IDLE"
    BY DEF Init, Cleared
  <2>2. map \in Maps /\ \A id \in Ids : map[id] = None
    BY <2>1 DEF M!EmptyMap, M!MatchIds, Maps, Ids
  <2>3. ~Hosts(agent) /\ ~Joins(agent)
    BY <2>1 DEF Hosts, Joins
  <2>4. Tidy(map, agent, stack, astray)
    BY <2>1, <2>2, <2>3, NoCall DEF Tidy, Sides, Sending, Acked
  <2> QED BY <2>1, <2>2, <2>4, NothingPosted DEF MapInv, FoldInv
<1>2. CallsInv /\ MapInv /\ FoldInv /\ [Next]_vars => MapInv' /\ FoldInv'
  BY MapStep, FoldStep
<1> QED BY <1>1, <1>2, CallsInvariance, PTL DEF Spec

(* Matcher may fold an event of the JavaScript loop and all its nested     *)
(* calls into one action: when the last call has returned, the client has  *)
(* made a step of Matcher, unless user code called findMatch or stopMatch  *)
(* in between, or such a call had left the client astray before            *)
(* (send*Message, raiseUpdateEvent, _matchCallback).                       *)
THEOREM EventsFold == Spec => FoldsToMatcher
<1>1. CallsInv /\ MapInv /\ MapInv' /\ FoldInv /\ [Next]_vars
        => [\/ M!ClientStep(Me) \/ (stack # <<>> /\ inner # 0)
            \/ Seen.astray \/ Environment]_(M!vars)
  BY EventsFoldStep
<1> QED BY <1>1, FoldInvariance, PTL DEF Spec, FoldsToMatcher

=============================================================================
