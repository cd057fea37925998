----------------------------- MODULE ChatProofs -----------------------------
(***************************************************************************)
(* Proofs about the chat (module Chat), for every length of the log and    *)
(* any number of messages and listeners: who misses a message, the order   *)
(* in which a listener hears messages, and what the log then holds.        *)
(***************************************************************************)
EXTENDS Chat, SequenceTheorems, FiniteSetTheorems, WellFoundedInduction, TLAPS

(* A call of handleMessage in progress.                                    *)
Frames == [msg : Nat, at : Nat, last : Nat, running : BOOLEAN]

TypeOK ==
  /\ chatLog \in Seq(Nat)
  /\ listeners \in Nat
  /\ stack \in Seq(Frames)
  /\ parent \in Seq(Nat)
  /\ present \in Seq(Nat) /\ Len(present) = Len(parent)
  /\ heard \in Seq(Seq(Nat)) /\ Len(heard) = listeners
  /\ thrown \subseteq Nat \X Nat

(* A call visits the listeners there were when its message came; the calls *)
(* within it are of later messages.                                        *)
Nesting ==
  /\ \A i \in DOMAIN stack :
       /\ stack[i].msg \in Messages
       /\ stack[i].last = present[stack[i].msg]
       /\ stack[i].at <= stack[i].last
       /\ stack[i].running => stack[i].at >= 1
  /\ \A i, j \in DOMAIN stack : i < j => stack[i].msg > stack[j].msg
  /\ \A m \in Messages : present[m] <= listeners

(* A message in progress was heard by the listeners up to at, and by these *)
(* only; none is heard twice.                                              *)
Hearing ==
  /\ \A l \in DOMAIN heard : \A i \in DOMAIN heard[l] : heard[l][i] \in Messages
  /\ \A l \in DOMAIN heard : \A i, j \in DOMAIN heard[l] :
       heard[l][i] = heard[l][j] => i = j
  /\ \A i \in DOMAIN stack : \A l \in DOMAIN heard :
       Heard(l, stack[i].msg) <=> l <= stack[i].at

(* What is no longer in progress reached everyone, or someone threw.       *)
Dealt ==
  \A m \in Messages : ~InProgress(m) =>
    \A l \in 1..present[m] :
      Heard(l, m) \/ \E k \in 1..(l - 1) : <<m, k>> \in thrown

(* Whatever was handled since a call in progress began answers its message.*)
Descent ==
  /\ \A m \in Messages : parent[m] < m
  /\ \A i \in DOMAIN stack : \A m \in Messages :
       m > stack[i].msg => Answers(parent, m, stack[i].msg)

(* The log is the tail of all that was handled.                            *)
LogInv ==
  /\ Len(chatLog) = IF Len(parent) <= entries THEN Len(parent) ELSE entries
  /\ \A i \in DOMAIN chatLog : chatLog[i] = Len(parent) - Len(chatLog) + i

CallsInv == TypeOK /\ Nesting /\ Hearing /\ Dealt
OrderInv == Descent /\ OutOfOrderOnlyByReply

-----------------------------------------------------------------------------
(* Induction over the numbers with a set in the place of a predicate.      *)
LEMMA SetInduction ==
  ASSUME NEW T, T \subseteq Nat, 0 \in T, \A n \in T : n + 1 \in T
  PROVE  T = Nat
<1> DEFINE rest == Nat \ T
<1>1. SUFFICES ASSUME rest # {} PROVE FALSE
  OBVIOUS
<1>2. PICK x \in rest : \A y \in rest : ~ (<<y, x>> \in OpToRel(<, Nat))
  <2>1. rest \subseteq Nat
    OBVIOUS
  <2> HIDE DEF rest
  <2> QED BY <1>1, <2>1, NatLessThanWellFounded, WFMin
<1>3. \A y \in rest : ~ (y < x)
  BY <1>2, Zenon DEF OpToRel
<1>4. x \in Nat /\ x # 0 /\ x \notin T
  OBVIOUS
<1>5. x - 1 \in Nat /\ x - 1 < x
  BY <1>4
<1>6. x - 1 \in T
  BY <1>3, <1>5
<1> QED BY <1>4, <1>6

(* A stack with one more on top, and with one less.                        *)
LEMMA Push ==
  ASSUME NEW S, NEW s \in Seq(S), NEW e \in S
  PROVE  /\ <<e>> \o s \in Seq(S)
         /\ DOMAIN (<<e>> \o s) = 1..(Len(s) + 1)
         /\ (<<e>> \o s)[1] = e
         /\ \A i \in 2..(Len(s) + 1) : (<<e>> \o s)[i] = s[i - 1]
<1>1. <<e>> \in Seq(S) /\ Len(<<e>>) = 1 /\ <<e>>[1] = e
  OBVIOUS
<1>2. /\ <<e>> \o s \in Seq(S)
      /\ Len(<<e>> \o s) = 1 + Len(s)
      /\ \A i \in 1..(1 + Len(s)) : (<<e>> \o s)[i] =
                    IF i <= 1 THEN <<e>>[i] ELSE s[i - 1]
  BY <1>1, ConcatProperties
<1>3. Len(s) \in Nat /\ DOMAIN (<<e>> \o s) = 1..(1 + Len(s))
  BY <1>2, LenProperties
<1> HIDE <1>1
<1> QED BY <1>1, <1>2, <1>3

(* What is left of a sequence without its head.                            *)
LEMMA Pop ==
  ASSUME NEW S, NEW s \in Seq(S), s # <<>>
  PROVE  /\ Tail(s) \in Seq(S)
         /\ Len(s) \in Nat \ {0} /\ DOMAIN s = 1..Len(s)
         /\ Head(s) = s[1]
         /\ DOMAIN Tail(s) = 1..(Len(s) - 1)
         /\ \A i \in 1..(Len(s) - 1) : Tail(s)[i] = s[i + 1]
BY HeadTailProperties, LenProperties, EmptySeq

(* What a sequence is with one more element.                               *)
LEMMA Grow ==
  ASSUME NEW S, NEW s \in Seq(S), NEW e \in S
  PROVE  /\ Append(s, e) \in Seq(S)
         /\ Len(s) \in Nat /\ DOMAIN s = 1..Len(s)
         /\ Len(Append(s, e)) = Len(s) + 1
         /\ DOMAIN Append(s, e) = 1..(Len(s) + 1)
         /\ \A i \in 1..Len(s) : Append(s, e)[i] = s[i]
         /\ Append(s, e)[Len(s) + 1] = e
BY AppendProperties, LenProperties

(* The log after a message: one longer, or shifted by one.                 *)
LEMMA KeptLog ==
  ASSUME NEW log \in Seq(Nat), NEW m \in Nat
  PROVE  /\ Kept(log, m) \in Seq(Nat) /\ Len(log) \in Nat
         /\ IF Len(log) + 1 > entries
            THEN /\ DOMAIN Kept(log, m) = 1..Len(log)
                 /\ Len(Kept(log, m)) = Len(log)
                 /\ \A i \in 1..Len(log) : Kept(log, m)[i] = Append(log, m)[i + 1]
            ELSE /\ Len(Kept(log, m)) = Len(log) + 1
                 /\ Kept(log, m) = Append(log, m)
<1> DEFINE longer == Append(log, m)
<1>1. longer \in Seq(Nat) /\ Len(longer) = Len(log) + 1 /\ Len(log) \in Nat
  BY AppendProperties, LenProperties
<1>2. longer # <<>>
  BY <1>1, EmptySeq
<1> HIDE DEF longer
<1>3. /\ Tail(longer) \in Seq(Nat) /\ DOMAIN Tail(longer) = 1..Len(log)
      /\ Len(Tail(longer)) = Len(log)
      /\ \A i \in 1..Len(log) : Tail(longer)[i] = longer[i + 1]
  BY <1>1, <1>2, Pop, LenProperties
<1>4. Kept(log, m) = IF Len(log) + 1 > entries THEN Tail(longer) ELSE longer
  BY <1>1 DEF Kept, longer
<1> QED BY <1>1, <1>3, <1>4 DEF longer

-----------------------------------------------------------------------------
(* Who misses a message *)

(* A new call of handleMessage goes on top; no listener has heard of it.   *)
LEMMA HandleMessageCalls ==
  ASSUME CallsInv, NEW from \in Nat, HandleMessage(from)
  PROVE  CallsInv'
<1> DEFINE m == Len(parent) + 1
           frame == [msg |-> m, at |-> 0, last |-> listeners, running |-> FALSE]
<1> USE DEF CallsInv
<1>1. /\ stack' = <<frame>> \o stack
      /\ parent' = Append(parent, from) /\ present' = Append(present, listeners)
      /\ chatLog' = Kept(chatLog, m)
      /\ UNCHANGED <<listeners, heard, thrown>>
  BY DEF HandleMessage, Called
<1>2. m \in Nat /\ m # 0 /\ frame \in Frames /\ listeners \in Nat
  BY LenProperties DEF TypeOK, Frames
<1>3. /\ stack' \in Seq(Frames)
      /\ DOMAIN stack' = 1..(Len(stack) + 1) /\ stack'[1] = frame
      /\ \A i \in 2..(Len(stack) + 1) : stack'[i] = stack[i - 1]
  BY <1>1, <1>2, Push DEF TypeOK
<1>4. DOMAIN stack = 1..Len(stack) /\ Len(stack) \in Nat
  BY LenProperties DEF TypeOK
<1>5. /\ parent' \in Seq(Nat) /\ present' \in Seq(Nat)
      /\ Len(parent') = m /\ Len(present') = m
      /\ DOMAIN parent = 1..(m - 1) /\ DOMAIN present = 1..(m - 1)
      /\ DOMAIN parent' = 1..m
      /\ present'[m] = listeners
      /\ \A k \in 1..(m - 1) : present'[k] = present[k]
  BY <1>1, Grow DEF TypeOK
<1>6. chatLog' \in Seq(Nat)
  BY <1>1, <1>2, KeptLog DEF TypeOK
<1>7. \A i \in DOMAIN stack : stack[i].msg \in 1..(m - 1)
  BY <1>5 DEF Nesting, Messages
<1>8. \A l \in DOMAIN heard : \A i \in DOMAIN heard[l] : heard[l][i] \in 1..(m - 1)
  BY <1>5 DEF Hearing, Messages
<1>9. TypeOK'
  BY <1>1, <1>3, <1>5, <1>6 DEF TypeOK
<1> HIDE DEF m, frame
<1>10. Nesting'
  <2>1. ASSUME NEW i \in DOMAIN stack'
        PROVE  /\ stack'[i].msg \in Messages'
               /\ stack'[i].last = present'[stack'[i].msg]
               /\ stack'[i].at <= stack'[i].last
               /\ stack'[i].running => stack'[i].at >= 1
    <3>1. CASE i = 1
      BY <3>1, <1>2, <1>3, <1>5 DEF frame, Messages
    <3>2. CASE i # 1
      <4>1. i - 1 \in DOMAIN stack /\ stack'[i] = stack[i - 1]
        BY <3>2, <1>3, <1>4
      <4> QED BY <4>1, <1>2, <1>5, <1>7 DEF Nesting, Messages
    <3> QED BY <3>1, <3>2
  <2>2. ASSUME NEW i \in DOMAIN stack', NEW j \in DOMAIN stack', i < j
        PROVE  stack'[i].msg > stack'[j].msg
    <3>1. j - 1 \in DOMAIN stack /\ stack'[j] = stack[j - 1]
      BY <2>2, <1>3, <1>4
    <3>2. CASE i = 1
      BY <3>1, <3>2, <1>2, <1>3, <1>7 DEF frame
    <3>3. CASE i # 1
      <4>1. i - 1 \in DOMAIN stack /\ stack'[i] = stack[i - 1] /\ i - 1 < j - 1
        BY <3>3, <2>2, <1>3, <1>4
      <4> QED BY <4>1, <3>1 DEF Nesting
    <3> QED BY <3>2, <3>3
  <2>3. \A k \in Messages' : present'[k] <= listeners'
    BY <1>1, <1>2, <1>5 DEF Nesting, Messages, TypeOK
  <2> QED BY <2>1, <2>2, <2>3 DEF Nesting
<1>11. Hearing'
  <2>1. \A l \in DOMAIN heard' : \A i \in DOMAIN heard'[l] : heard'[l][i] \in Messages'
    BY <1>1, <1>2, <1>5, <1>8 DEF Messages
  <2>2. ASSUME NEW i \in (DOMAIN stack)', NEW l \in (DOMAIN heard)'
        PROVE  (Heard(l, stack[i].msg) <=> l <= stack[i].at)'
    <3>1. CASE i = 1
      <4>1. stack'[i].msg = m /\ stack'[i].at = 0
        BY <3>1, <1>3 DEF frame
      <4>2. l \in Nat \ {0}
        BY <1>1, LenProperties DEF TypeOK
      <4> QED BY <4>1, <4>2, <1>1, <1>2, <1>8 DEF Heard
    <3>2. CASE i # 1
      <4>1. i - 1 \in DOMAIN stack /\ stack'[i] = stack[i - 1]
        BY <3>2, <1>3, <1>4
      <4> QED BY <4>1, <1>1 DEF Hearing, Heard
    <3> QED BY <3>1, <3>2
  <2> QED BY <1>1, <2>1, <2>2 DEF Hearing
<1>12. Dealt'
  <2> SUFFICES ASSUME NEW k \in Messages', ~InProgress(k)', NEW l \in 1..present'[k]
               PROVE  Heard(l, k)' \/ \E h \in 1..(l - 1) : <<k, h>> \in thrown'
    BY DEF Dealt
  <2>1. k # m
    <3>1. 1 \in DOMAIN stack' /\ stack'[1].msg = m
      BY <1>3, <1>4 DEF frame
    <3> QED BY <3>1 DEF InProgress
  <2>2. k \in Messages /\ present'[k] = present[k]
    BY <2>1, <1>2, <1>5 DEF Messages
  <2>3. ~InProgress(k)
    <3> SUFFICES ASSUME NEW i \in DOMAIN stack, stack[i].msg = k PROVE FALSE
      BY DEF InProgress
    <3>1. i + 1 \in DOMAIN stack' /\ stack'[i + 1] = stack[i]
      BY <1>3, <1>4
    <3> QED BY <3>1 DEF InProgress
  <2> QED BY <2>2, <2>3, <1>1 DEF Dealt, Heard
<1> QED BY <1>9, <1>10, <1>11, <1>12

(* The innermost call ends, and its message is accounted for.              *)
LEMMA CallEnds ==
  ASSUME CallsInv, stack # <<>>, stack' = Tail(stack),
         UNCHANGED <<chatLog, listeners, parent, present, heard>>,
         thrown \subseteq thrown', thrown' \subseteq Nat \X Nat,
         \A l \in 1..present[stack[1].msg] :
           \/ Heard(l, stack[1].msg)
           \/ \E k \in 1..(l - 1) : <<stack[1].msg, k>> \in thrown'
  PROVE  CallsInv'
<1> USE DEF CallsInv
<1>1. /\ stack' \in Seq(Frames)
      /\ Len(stack) \in Nat \ {0} /\ DOMAIN stack = 1..Len(stack)
      /\ DOMAIN stack' = 1..(Len(stack) - 1)
      /\ \A i \in 1..(Len(stack) - 1) : stack'[i] = stack[i + 1]
  BY Pop DEF TypeOK
<1>2. \A i \in DOMAIN stack' : i \in Int /\ i + 1 \in DOMAIN stack /\ stack'[i] = stack[i + 1]
  BY <1>1
<1>3. TypeOK'
  BY <1>1 DEF TypeOK
<1>4. Nesting'
  BY <1>2 DEF Nesting, Messages
<1>5. Hearing'
  BY <1>2 DEF Hearing, Messages, Heard
<1>6. Dealt'
  <2> SUFFICES ASSUME NEW m \in Messages, ~InProgress(m)', NEW l \in 1..present[m]
               PROVE  Heard(l, m)' \/ \E k \in 1..(l - 1) : <<m, k>> \in thrown'
    BY DEF Dealt, Messages
  <2>1. CASE m = stack[1].msg
    BY <2>1 DEF Heard
  <2>2. CASE m # stack[1].msg
    <3>1. ~InProgress(m)
      <4> SUFFICES ASSUME NEW i \in DOMAIN stack, stack[i].msg = m PROVE FALSE
        BY DEF InProgress
      <4>1. i - 1 \in DOMAIN stack' /\ stack'[i - 1] = stack[i]
        BY <2>2, <1>1
      <4> QED BY <4>1 DEF InProgress
    <3> QED BY <3>1 DEF Dealt, Heard
  <2> QED BY <2>1, <2>2
<1> QED BY <1>3, <1>4, <1>5, <1>6

(* The innermost message was dealt to all its listeners.                   *)
LEMMA LoopEndsCalls ==
  ASSUME CallsInv, LoopEnds
  PROVE  CallsInv'
<1>1. /\ stack # <<>> /\ stack' = Tail(stack) /\ stack[1].at = stack[1].last
      /\ UNCHANGED <<chatLog, listeners, parent, present, heard, thrown>>
  <2>1. Top = stack[1]
    BY Pop DEF LoopEnds, Top, CallsInv, TypeOK
  <2> QED BY <2>1 DEF LoopEnds
<1>2. 1 \in DOMAIN stack
  BY <1>1, Pop DEF CallsInv, TypeOK
<1>3. \A l \in 1..present[stack[1].msg] : l \in DOMAIN heard /\ l <= stack[1].at
  <2>1. /\ stack[1].msg \in Messages /\ stack[1].at = present[stack[1].msg]
        /\ present[stack[1].msg] <= listeners
    BY <1>1, <1>2 DEF CallsInv, Nesting
  <2>2. DOMAIN heard = 1..listeners /\ listeners \in Nat
    BY LenProperties DEF CallsInv, TypeOK
  <2>3. present[stack[1].msg] \in Nat
    BY <2>1, LenProperties DEF CallsInv, TypeOK, Messages
  <2> QED BY <2>1, <2>2, <2>3
<1>4. \A l \in 1..present[stack[1].msg] : Heard(l, stack[1].msg)
  BY <1>2, <1>3 DEF CallsInv, Hearing
<1>5. thrown' = thrown /\ thrown \subseteq Nat \X Nat
  BY <1>1 DEF CallsInv, TypeOK
<1> QED BY <1>1, <1>4, <1>5, CallEnds

(* Who had not heard of it yet comes after the one that threw.             *)
LEMMA ThrowCalls ==
  ASSUME CallsInv, Throw
  PROVE  CallsInv'
<1>1. stack # <<>> /\ Top = stack[1] /\ 1 \in DOMAIN stack
  BY Pop DEF Throw, Running, Top, CallsInv, TypeOK
<1>2. /\ stack[1].running /\ stack' = Tail(stack)
      /\ thrown' = thrown \cup {<<stack[1].msg, stack[1].at>>}
      /\ UNCHANGED <<chatLog, listeners, parent, present, heard>>
  BY <1>1 DEF Throw, Running
<1>3. /\ stack[1].msg \in Messages /\ stack[1].msg \in Nat
      /\ stack[1].at \in Nat /\ stack[1].at >= 1
      /\ present[stack[1].msg] <= listeners /\ present[stack[1].msg] \in Nat
  <2>1. stack[1] \in Frames
    BY <1>1, LenProperties DEF CallsInv, TypeOK
  <2>2. stack[1].msg \in Messages
    BY <1>1 DEF CallsInv, Nesting
  <2>3. present[stack[1].msg] \in Nat
    BY <2>2, LenProperties DEF CallsInv, TypeOK, Messages
  <2> QED BY <2>1, <2>2, <2>3, <1>1, <1>2 DEF CallsInv, Nesting, Frames
<1>4. thrown' \subseteq Nat \X Nat /\ thrown \subseteq thrown'
  BY <1>2, <1>3 DEF CallsInv, TypeOK
<1>5. ASSUME NEW l \in 1..present[stack[1].msg]
      PROVE  \/ Heard(l, stack[1].msg)
             \/ \E k \in 1..(l - 1) : <<stack[1].msg, k>> \in thrown'
  <2>1. CASE l <= stack[1].at
    <3>1. DOMAIN heard = 1..listeners /\ listeners \in Nat
      BY DEF CallsInv, TypeOK
    <3>2. l \in DOMAIN heard
      BY <1>3, <3>1
    <3> QED BY <2>1, <3>2, <1>1 DEF CallsInv, Hearing
  <2>2. CASE ~(l <= stack[1].at)
    <3>1. stack[1].at \in 1..(l - 1)
      BY <2>2, <1>3
    <3>2. <<stack[1].msg, stack[1].at>> \in thrown'
      BY <1>2
    <3> QED BY <3>1, <3>2
  <2> QED BY <2>1, <2>2
<1> QED BY <1>1, <1>2, <1>4, <1>5, CallEnds

(* A listener returns: the loop it was called from goes on.                *)
LEMMA ReturnCalls ==
  ASSUME CallsInv, Return
  PROVE  CallsInv'
<1> USE DEF CallsInv
<1>1. /\ stack # <<>> /\ 1 \in DOMAIN stack /\ stack[1] \in Frames
      /\ stack' = [stack EXCEPT ![1].running = FALSE]
      /\ UNCHANGED <<chatLog, listeners, parent, present, heard, thrown>>
  BY Pop, LenProperties DEF Return, Running, TypeOK
<1>2. /\ DOMAIN stack' = DOMAIN stack
      /\ \A i \in DOMAIN stack :
           /\ stack'[i].msg = stack[i].msg /\ stack'[i].at = stack[i].at
           /\ stack'[i].last = stack[i].last
           /\ stack'[i].running => stack[i].running
  BY <1>1 DEF Frames
<1>3. stack' \in Seq(Frames)
  <2>1. [stack[1] EXCEPT !.running = FALSE] \in Frames
    BY <1>1 DEF Frames
  <2>2. stack' = [stack EXCEPT ![1] = [stack[1] EXCEPT !.running = FALSE]]
    BY <1>1
  <2> QED BY <2>1, <2>2, <1>1, ExceptSeq, LenProperties DEF TypeOK
<1>4. TypeOK'
  BY <1>1, <1>3 DEF TypeOK
<1>5. Nesting'
  BY <1>1, <1>2 DEF Nesting, Messages
<1>6. Hearing'
  BY <1>1, <1>2 DEF Hearing, Messages, Heard
<1>7. Dealt'
  BY <1>1, <1>2 DEF Dealt, Messages, Heard, InProgress
<1> QED BY <1>4, <1>5, <1>6, <1>7

(* The next listener hears the message, which no other call is about.      *)
LEMMA CallNextCalls ==
  ASSUME CallsInv, CallNext
  PROVE  CallsInv'
<1> DEFINE m == stack[1].msg
           l == stack[1].at + 1
<1> USE DEF CallsInv
<1>1. stack # <<>> /\ Top = stack[1] /\ 1 \in DOMAIN stack /\ stack[1] \in Frames
  BY Pop, LenProperties DEF CallNext, Top, TypeOK
<1>2. /\ stack[1].at < stack[1].last
      /\ stack' = [stack EXCEPT ![1].at = @ + 1, ![1].running = TRUE]
      /\ heard' = [heard EXCEPT ![l] = Append(@, m)]
      /\ UNCHANGED <<chatLog, listeners, parent, present, thrown>>
  BY <1>1 DEF CallNext
<1>3. m \in Messages /\ m \in Nat /\ l \in Nat /\ l - 1 = stack[1].at
  BY <1>1 DEF Nesting, Frames
<1>4. l \in DOMAIN heard /\ heard[l] \in Seq(Nat) /\ DOMAIN heard = 1..listeners
  <2>1. stack[1].last \in Nat /\ stack[1].last <= listeners /\ listeners \in Nat
    BY <1>1 DEF Nesting, Frames, TypeOK
  <2>2. l \in 1..listeners
    BY <2>1, <1>1, <1>2 DEF Frames
  <2> QED BY <2>2, LenProperties DEF TypeOK
<1>5. /\ DOMAIN stack' = DOMAIN stack /\ stack'[1].running
      /\ stack'[1].msg = m /\ stack'[1].at = l /\ stack'[1].last = stack[1].last
      /\ \A i \in DOMAIN stack : i # 1 => stack'[i] = stack[i]
  BY <1>1, <1>2 DEF Frames
<1>6. /\ DOMAIN heard' = DOMAIN heard /\ heard'[l] = Append(heard[l], m)
      /\ \A k \in DOMAIN heard : k # l => heard'[k] = heard[k]
  BY <1>2, <1>4
<1>7. /\ Append(heard[l], m) \in Seq(Nat)
      /\ Len(heard[l]) \in Nat /\ DOMAIN heard[l] = 1..Len(heard[l])
      /\ DOMAIN heard'[l] = 1..(Len(heard[l]) + 1)
      /\ \A i \in 1..Len(heard[l]) : heard'[l][i] = heard[l][i]
      /\ heard'[l][Len(heard[l]) + 1] = m
  BY <1>3, <1>4, <1>6, Grow
<1>8. ~Heard(l, m)
  BY <1>1, <1>3, <1>4 DEF Hearing, Frames
<1>9. \A i \in DOMAIN stack : i # 1 => stack[i].msg # m
  <2> SUFFICES ASSUME NEW i \in DOMAIN stack, i # 1 PROVE stack[i].msg # m
    OBVIOUS
  <2>1. 1 < i /\ stack[i] \in Frames
    BY LenProperties DEF TypeOK
  <2> QED BY <2>1, <1>1, <1>3 DEF Nesting, Frames
<1>10. \A k \in DOMAIN heard : \A x :
         (\E i \in DOMAIN heard'[k] : heard'[k][i] = x)
           <=> Heard(k, x) \/ (k = l /\ x = m)
  <2> SUFFICES ASSUME NEW k \in DOMAIN heard, NEW x
               PROVE  (\E i \in DOMAIN heard'[k] : heard'[k][i] = x)
                        <=> Heard(k, x) \/ (k = l /\ x = m)
    OBVIOUS
  <2> HIDE DEF l, m
  <2>1. CASE k # l
    BY <2>1, <1>6 DEF Heard
  <2>2. CASE k = l
    BY <2>2, <1>7 DEF Heard
  <2> QED BY <2>1, <2>2
<1>11. TypeOK'
  <2> DEFINE half == [stack[1] EXCEPT !.at = @ + 1]
             next == [half EXCEPT !.running = TRUE]
  <2>1. half \in Frames
    BY <1>1 DEF Frames
  <2> HIDE DEF half
  <2>2. next \in Frames
    BY <2>1 DEF Frames
  <2> USE DEF half
  <2>7. stack' = [stack EXCEPT ![1] = next]
    BY <1>1, <1>2
  <2> HIDE DEF next
  <2>3. stack' \in Seq(Frames)
    BY <2>2, <2>7, <1>1, ExceptSeq, LenProperties DEF TypeOK
  <2>4. heard' = [heard EXCEPT ![l] = Append(heard[l], m)]
    BY <1>2
  <2> HIDE DEF l, m
  <2>5. heard' \in Seq(Seq(Nat)) /\ Len(heard') = Len(heard)
    BY <2>4, <1>4, <1>7, ExceptSeq, LenProperties DEF TypeOK
  <2> QED BY <2>3, <2>5, <1>2 DEF TypeOK
<1> HIDE DEF l, m
<1>12. Nesting'
  <2>1. ASSUME NEW i \in DOMAIN stack
        PROVE  /\ stack'[i].msg = stack[i].msg /\ stack'[i].last = stack[i].last
               /\ stack'[i].at <= stack'[i].last
               /\ stack'[i].running => stack'[i].at >= 1
    <3>1. CASE i = 1
      BY <3>1, <1>1, <1>2, <1>3, <1>5 DEF l, m, Frames
    <3>2. CASE i # 1
      BY <3>2, <1>5 DEF Nesting
    <3> QED BY <3>1, <3>2
  <2> QED BY <2>1, <1>2, <1>5 DEF Nesting, Messages
<1>13. Hearing'
  <2>1. \A k \in DOMAIN heard : \A i \in DOMAIN heard'[k] : heard'[k][i] \in Messages
    <3> SUFFICES ASSUME NEW k \in DOMAIN heard, NEW i \in DOMAIN heard'[k]
                 PROVE  heard'[k][i] \in Messages
      OBVIOUS
    <3>1. CASE k # l
      BY <3>1, <1>6 DEF Hearing
    <3>2. CASE k = l /\ i \in 1..Len(heard[l])
      BY <3>2, <1>4, <1>7 DEF Hearing
    <3>3. CASE k = l /\ i = Len(heard[l]) + 1
      BY <3>3, <1>3, <1>7
    <3> QED BY <3>1, <3>2, <3>3, <1>7
  <2>2. ASSUME NEW k \in DOMAIN heard, NEW i \in DOMAIN heard'[k], NEW j \in DOMAIN heard'[k],
               heard'[k][i] = heard'[k][j]
        PROVE  i = j
    <3>1. CASE k # l
      BY <3>1, <2>2, <1>6 DEF Hearing
    <3>2. CASE k = l
      <4>1. \A x \in 1..Len(heard[l]) : heard'[l][x] # m
        BY <1>7, <1>8 DEF Heard
      <4>2. \A x, y \in 1..Len(heard[l]) : heard'[l][x] = heard'[l][y] => x = y
        BY <1>4, <1>7 DEF Hearing
      <4> QED BY <3>2, <2>2, <4>1, <4>2, <1>7
    <3> QED BY <3>1, <3>2
  <2>3. ASSUME NEW i \in DOMAIN stack, NEW k \in DOMAIN heard
        PROVE  (\E x \in DOMAIN heard'[k] : heard'[k][x] = stack'[i].msg)
                  <=> k <= stack'[i].at
    <3>1. CASE i = 1
      <4>1. Heard(k, m) <=> k <= l - 1
        BY <1>1, <1>3 DEF Hearing, m
      <4> QED BY <3>1, <4>1, <1>3, <1>4, <1>5, <1>10
    <3>2. CASE i # 1
      BY <3>2, <1>5, <1>9, <1>10 DEF Hearing
    <3> QED BY <3>1, <3>2
  <2> QED BY <2>1, <2>2, <2>3, <1>2, <1>5, <1>6 DEF Hearing, Messages, Heard
<1>14. Dealt'
  <2> SUFFICES ASSUME NEW x \in Messages, ~InProgress(x)', NEW k \in 1..present[x]
               PROVE  Heard(k, x)' \/ \E h \in 1..(k - 1) : <<x, h>> \in thrown
    BY <1>2 DEF Dealt, Messages
  <2>1. ~InProgress(x)
    BY <1>5, <1>1 DEF InProgress, m
  <2>2. k \in DOMAIN heard
    <3>1. DOMAIN heard = 1..listeners /\ listeners \in Nat
      BY DEF TypeOK
    <3>2. present[x] \in Nat /\ present[x] <= listeners
      <4>1. x \in DOMAIN present
        BY LenProperties DEF TypeOK, Messages
      <4> QED BY <4>1 DEF Nesting, TypeOK
    <3> QED BY <3>1, <3>2
  <2> QED BY <2>1, <2>2, <1>10 DEF Dealt, Heard
<1> QED BY <1>11, <1>12, <1>13, <1>14

(* A listener added after a message came is not owed it.                   *)
LEMMA AddChatListenerCalls ==
  ASSUME CallsInv, AddChatListener
  PROVE  CallsInv'
<1> USE DEF CallsInv
<1>1. /\ listeners' = listeners + 1 /\ heard' = Append(heard, <<>>)
      /\ UNCHANGED <<chatLog, stack, parent, present, thrown>>
  BY DEF AddChatListener
<1>2. /\ heard' \in Seq(Seq(Nat)) /\ Len(heard) = listeners /\ listeners \in Nat
      /\ Len(heard') = listeners + 1
      /\ DOMAIN heard = 1..listeners /\ DOMAIN heard' = 1..(listeners + 1)
      /\ \A l \in 1..listeners : heard'[l] = heard[l]
      /\ heard'[listeners + 1] = <<>>
  <2>1. <<>> \in Seq(Nat)
    OBVIOUS
  <2>2. heard \in Seq(Seq(Nat)) /\ Len(heard) = listeners /\ listeners \in Nat
    BY DEF TypeOK
  <2> DEFINE S == Seq(Nat)
  <2>3. heard \in Seq(S) /\ <<>> \in S
    BY <2>1, <2>2
  <2> HIDE DEF S
  <2>4. /\ Append(heard, <<>>) \in Seq(S)
        /\ DOMAIN heard = 1..Len(heard) /\ Len(Append(heard, <<>>)) = Len(heard) + 1
        /\ DOMAIN Append(heard, <<>>) = 1..(Len(heard) + 1)
        /\ \A l \in 1..Len(heard) : Append(heard, <<>>)[l] = heard[l]
        /\ Append(heard, <<>>)[Len(heard) + 1] = <<>>
    BY <2>3, Grow
  <2> QED BY <1>1, <2>2, <2>4 DEF S
<1>3. \A m \in Messages : present[m] \in Nat /\ present[m] <= listeners
  BY LenProperties DEF TypeOK, Messages, Nesting
<1>4. TypeOK'
  BY <1>1, <1>2 DEF TypeOK
<1>5. Nesting'
  BY <1>1, <1>2, <1>3 DEF Nesting, Messages
<1>6. Hearing'
  <2>1. ASSUME NEW i \in DOMAIN stack, NEW l \in DOMAIN heard'
        PROVE  (\E x \in DOMAIN heard'[l] : heard'[l][x] = stack[i].msg)
                 <=> l <= stack[i].at
    <3>1. CASE l \in 1..listeners
      BY <3>1, <1>2 DEF Hearing, Heard
    <3>2. CASE l = listeners + 1
      <4>1. stack[i] \in Frames /\ stack[i].at <= listeners
        <5>1. stack[i] \in Frames
          BY LenProperties DEF TypeOK
        <5>2. stack[i].at <= stack[i].last /\ stack[i].last <= listeners
          BY <1>3 DEF Nesting
        <5> QED BY <5>1, <5>2, <1>2 DEF Frames
      <4> QED BY <3>2, <4>1, <1>2 DEF Frames
    <3> QED BY <3>1, <3>2, <1>2
  <2>2. \A l \in DOMAIN heard' :
          \/ l \in DOMAIN heard /\ heard'[l] = heard[l]
          \/ DOMAIN heard'[l] = {}
    BY <1>2
  <2> QED BY <2>1, <2>2, <1>1 DEF Hearing, Messages, Heard
<1>7. Dealt'
  <2> SUFFICES ASSUME NEW m \in Messages, ~InProgress(m), NEW l \in 1..present[m]
               PROVE  Heard(l, m)' \/ \E k \in 1..(l - 1) : <<m, k>> \in thrown
    BY <1>1 DEF Dealt, Messages, InProgress
  <2>1. present[m] \in Nat /\ present[m] <= listeners /\ l <= present[m] /\ l >= 1
    BY <1>3
  <2>2. l \in 1..listeners /\ heard'[l] = heard[l]
    BY <2>1, <1>2
  <2> QED BY <2>2 DEF Dealt, Heard
<1> QED BY <1>4, <1>5, <1>6, <1>7

(* Every step keeps the calls in progress in order.                        *)
LEMMA CallsStep == CallsInv /\ [Next]_vars => CallsInv'
<1> SUFFICES ASSUME CallsInv, [Next]_vars PROVE CallsInv'
  OBVIOUS
<1>1. CASE ReceiveOrSend
  BY <1>1, HandleMessageCalls DEF ReceiveOrSend
<1>2. CASE Reply
  <2>1. Top = stack[1] /\ Top.msg \in Nat
    <3>1. stack # <<>> /\ stack \in Seq(Frames)
      BY <1>2 DEF Reply, Running, CallsInv, TypeOK
    <3>2. Head(stack) = stack[1] /\ stack[1] \in Frames
      BY <3>1, Pop, LenProperties
    <3> QED BY <3>2 DEF Top, Frames
  <2> QED BY <1>2, <2>1, HandleMessageCalls DEF Reply
<1>3. CASE UNCHANGED vars
  <2>1. TypeOK' /\ Nesting'
    BY <1>3 DEF vars, CallsInv, TypeOK, Nesting, Messages
  <2>2. Hearing'
    BY <1>3 DEF vars, CallsInv, Hearing, Messages, Heard
  <2>3. Dealt'
    BY <1>3 DEF vars, CallsInv, Dealt, Messages, Heard, InProgress
  <2> QED BY <2>1, <2>2, <2>3 DEF CallsInv
<1> QED BY <1>1, <1>2, <1>3, CallNextCalls, LoopEndsCalls, ReturnCalls,
           ThrowCalls, AddChatListenerCalls DEF Next

(* Nothing is in progress at first.                                        *)
LEMMA CallsInit == Init => CallsInv
BY DEF Init, CallsInv, TypeOK, Nesting, Hearing, Dealt, Messages

(* What a listener heard once is one position of what it heard.            *)
LEMMA HeardOnce ==
  ASSUME CallsInv, NEW l \in DOMAIN heard, NEW m
  PROVE  Cardinality({i \in DOMAIN heard[l] : heard[l][i] = m}) <= 1
<1> DEFINE places == {i \in DOMAIN heard[l] : heard[l][i] = m}
<1>1. CASE places = {}
  BY <1>1, FS_EmptySet
<1>2. CASE places # {}
  <2>1. PICK i \in places : TRUE
    BY <1>2
  <2>2. places = {i}
    BY <2>1 DEF CallsInv, Hearing
  <2> QED BY <2>2, FS_Singleton
<1> QED BY <1>1, <1>2

(* Every listener there was when a message came is called with it once,    *)
(* unless one before it threw (handleMessage).                             *)
THEOREM MissedOnlyByThrowProved == Spec => []MissedOnlyByThrow
<1>1. CallsInv => MissedOnlyByThrow
  <2> SUFFICES ASSUME CallsInv, NEW m \in Messages, ~InProgress(m),
                      NEW l \in 1..present[m]
               PROVE  /\ Heard(l, m) \/ \E k \in 1..(l - 1) : <<m, k>> \in thrown
                      /\ Cardinality({i \in DOMAIN heard[l] : heard[l][i] = m}) <= 1
    BY DEF MissedOnlyByThrow
  <2>1. present[m] \in Nat /\ present[m] <= listeners /\ listeners \in Nat
    BY LenProperties DEF CallsInv, TypeOK, Messages, Nesting
  <2>2. l \in DOMAIN heard
    BY <2>1, LenProperties DEF CallsInv, TypeOK
  <2> QED BY <2>2, HeardOnce DEF CallsInv, Dealt
<1> QED BY <1>1, CallsInit, CallsStep, PTL DEF Spec

-----------------------------------------------------------------------------
(* What the log holds *)

(* A message is pushed, and the log cut to its limit.                      *)
LEMMA HandleMessageLog ==
  ASSUME TypeOK, LogInv, NEW from, HandleMessage(from), from \in Nat
  PROVE  LogInv'
<1> DEFINE m == Len(parent) + 1
<1>1. chatLog' = Kept(chatLog, m) /\ parent' = Append(parent, from)
  BY DEF HandleMessage
<1>2. Len(parent) \in Nat /\ m \in Nat /\ Len(parent') = m
  BY <1>1, Grow DEF TypeOK
<1>3. entries \in Nat \ {0}
  BY ChatAssumption
<1>4. /\ Len(chatLog) \in Nat /\ DOMAIN chatLog = 1..Len(chatLog)
      /\ Len(Append(chatLog, m)) = Len(chatLog) + 1
      /\ DOMAIN Append(chatLog, m) = 1..(Len(chatLog) + 1)
      /\ \A i \in 1..Len(chatLog) : Append(chatLog, m)[i] = chatLog[i]
      /\ Append(chatLog, m)[Len(chatLog) + 1] = m
  BY <1>2, Grow DEF TypeOK
<1>5. \A i \in 1..(Len(chatLog) + 1) :
        Append(chatLog, m)[i] = Len(parent) - Len(chatLog) + i
  <2> SUFFICES ASSUME NEW i \in 1..(Len(chatLog) + 1)
               PROVE  Append(chatLog, m)[i] = Len(parent) - Len(chatLog) + i
    OBVIOUS
  <2>1. CASE i \in 1..Len(chatLog)
    BY <2>1, <1>4 DEF LogInv
  <2>2. CASE i = Len(chatLog) + 1
    BY <2>2, <1>2, <1>4
  <2> QED BY <2>1, <2>2, <1>4
<1>6. CASE Len(chatLog) + 1 > entries
  <2>1. /\ DOMAIN chatLog' = 1..Len(chatLog) /\ Len(chatLog') = Len(chatLog)
        /\ \A i \in 1..Len(chatLog) : chatLog'[i] = Append(chatLog, m)[i + 1]
    BY <1>1, <1>2, <1>6, KeptLog DEF TypeOK
  <2>2. Len(chatLog) = entries /\ Len(parent) >= entries
    BY <1>2, <1>3, <1>4, <1>6 DEF LogInv
  <2> HIDE DEF m
  <2>3. \A i \in 1..Len(chatLog) : chatLog'[i] = Len(parent) - Len(chatLog) + (i + 1)
    <3> SUFFICES ASSUME NEW i \in 1..Len(chatLog)
                 PROVE  chatLog'[i] = Len(parent) - Len(chatLog) + (i + 1)
      OBVIOUS
    <3>1. i + 1 \in 1..(Len(chatLog) + 1)
      BY <1>4
    <3>2. Append(chatLog, m)[i + 1] = Len(parent) - Len(chatLog) + (i + 1)
      BY <3>1, <1>5
    <3> QED BY <3>2, <2>1
  <2>4. Len(parent') = Len(parent) + 1 /\ ~(Len(parent') <= entries)
    BY <2>2, <1>2, <1>3 DEF m
  <2>5. Len(chatLog') = IF Len(parent') <= entries THEN Len(parent') ELSE entries
    BY <2>1, <2>2, <2>4
  <2>6. \A i \in DOMAIN chatLog' : chatLog'[i] = Len(parent') - Len(chatLog') + i
    BY <2>1, <2>3, <2>4, <1>2, <1>4
  <2> QED BY <2>5, <2>6 DEF LogInv
<1>7. CASE ~(Len(chatLog) + 1 > entries)
  <2>1. chatLog' = Append(chatLog, m)
    BY <1>1, <1>2, <1>7, KeptLog DEF TypeOK
  <2>2. Len(chatLog) = Len(parent) /\ Len(parent) + 1 <= entries
    BY <1>2, <1>3, <1>4, <1>7 DEF LogInv
  <2> HIDE DEF m
  <2>3. \A i \in 1..(Len(chatLog) + 1) : chatLog'[i] = i
    BY <2>1, <2>2, <1>4, <1>5
  <2> QED BY <2>1, <2>2, <2>3, <1>2, <1>3, <1>4 DEF LogInv, m
<1> QED BY <1>6, <1>7

(* Only HandleMessage touches the log and the messages.                    *)
LEMMA HandledOrNot ==
  ASSUME TypeOK, [Next]_vars
  PROVE  \/ stack = <<>> /\ HandleMessage(0)
         \/ Running /\ Top = stack[1] /\ Top.msg \in Nat /\ HandleMessage(Top.msg)
         \/ UNCHANGED <<chatLog, parent>>
<1>1. CASE Reply
  <2>1. stack # <<>> /\ stack \in Seq(Frames)
    BY <1>1 DEF Reply, Running, TypeOK
  <2>2. Head(stack) = stack[1] /\ stack[1] \in Frames
    BY <2>1, Pop, LenProperties
  <2> QED BY <1>1, <2>2 DEF Reply, Top, Frames
<1> QED BY <1>1 DEF Next, vars, ReceiveOrSend, Idle, CallNext, LoopEnds, Return,
           Throw, AddChatListener

(* Only handleMessage touches the log.                                     *)
LEMMA LogStep == TypeOK /\ LogInv /\ [Next]_vars => LogInv'
<1> SUFFICES ASSUME TypeOK, LogInv, [Next]_vars PROVE LogInv'
  OBVIOUS
<1>1. CASE UNCHANGED <<chatLog, parent>>
  BY <1>1 DEF LogInv
<1> QED BY <1>1, HandledOrNot, HandleMessageLog

(* A listener that draws the log finds the message it was called with,     *)
(* unless a whole log of answers came in between (getChatLog).             *)
THEOREM HeardIsLoggedProved == Spec => []HeardIsLogged
<1>1. Init => LogInv
  BY ChatAssumption DEF Init, LogInv
<1>2. CallsInv /\ LogInv => HeardIsLogged
  <2> SUFFICES ASSUME CallsInv, LogInv PROVE HeardIsLogged
    OBVIOUS
  <2>1. /\ Len(parent) \in Nat /\ DOMAIN parent = 1..Len(parent)
        /\ Len(chatLog) \in Nat /\ DOMAIN chatLog = 1..Len(chatLog)
        /\ entries \in Nat \ {0}
    BY ChatAssumption, LenProperties DEF CallsInv, TypeOK
  <2>2. Len(chatLog) <= entries
    BY <2>1 DEF LogInv
  <2>3. \A i \in DOMAIN chatLog : chatLog[i] + entries > Len(parent)
    BY <2>1, <2>2 DEF LogInv
  <2>4. ASSUME Running, ~(Len(parent) >= Top.msg + entries)
        PROVE  \E i \in DOMAIN chatLog : chatLog[i] = Top.msg
    <3>1. stack # <<>> /\ stack \in Seq(Frames)
      BY <2>4 DEF Running, CallsInv, TypeOK
    <3>2. Top = stack[1] /\ 1 \in DOMAIN stack
      BY <3>1, Pop DEF Top
    <3>3. Top.msg \in 1..Len(parent)
      BY <3>2, <2>1 DEF CallsInv, Nesting, Messages
    <3>4. Top.msg - Len(parent) + Len(chatLog) \in DOMAIN chatLog
      BY <3>3, <2>1, <2>4 DEF LogInv
    <3>5. chatLog[Top.msg - Len(parent) + Len(chatLog)] = Top.msg
      BY <3>3, <3>4, <2>1 DEF LogInv
    <3> QED BY <3>4, <3>5
  <2> QED BY <2>2, <2>3, <2>4 DEF HeardIsLogged
<1>3. CallsInv => TypeOK
  BY DEF CallsInv
<1> QED BY <1>1, <1>2, <1>3, LogStep, CallsInit, CallsStep, PTL DEF Spec

-----------------------------------------------------------------------------
(* The order in which a listener hears messages *)

(* The equation of the recursive function Ancestors.                       *)
LEMMA AncestorsDef ==
  ASSUME NEW par, NEW m \in Nat
  PROVE  Ancestors(par, m) =
           [k \in 0..m |-> IF k = 0 THEN m
                           ELSE Sender(par, Ancestors(par, m)[k - 1])]
<1> DEFINE Def(g, n) == [k \in 0..n |-> IF k = 0 THEN m ELSE Sender(par, g[k - 1])]
           T == {n \in Nat : \E g : g = Def(g, n)}
<1>1. 0 \in T
  <2>1. [k \in 0..0 |-> m] = Def([k \in 0..0 |-> m], 0)
    OBVIOUS
  <2> QED BY <2>1
<1>2. ASSUME NEW n \in T PROVE n + 1 \in T
  <2>1. PICK g : g = Def(g, n)
    OBVIOUS
  <2> DEFINE h == [k \in 0..(n + 1) |-> IF k <= n THEN g[k] ELSE Sender(par, g[n])]
  <2>2. h = Def(h, n + 1)
    <3> SUFFICES ASSUME NEW k \in 0..(n + 1)
                 PROVE  h[k] = IF k = 0 THEN m ELSE Sender(par, h[k - 1])
      OBVIOUS
    <3>1. CASE k = 0
      BY <3>1, <2>1
    <3>2. CASE k \in 1..n
      BY <3>2, <2>1
    <3>3. CASE k = n + 1
      BY <3>3
    <3> QED BY <3>1, <3>2, <3>3
  <2> HIDE DEF h, Def
  <2>3. \E f : f = Def(f, n + 1)
    BY <2>2
  <2> QED BY <2>3
<1>3. T = Nat
  <2>1. T \subseteq Nat
    OBVIOUS
  <2> HIDE DEF T
  <2> QED BY <1>1, <1>2, <2>1, SetInduction
<1>4. \E g : g = Def(g, m)
  BY <1>3
<1>5. Ancestors(par, m) = CHOOSE g : g = Def(g, m)
  BY DEF Ancestors
<1> HIDE DEF Def
<1>6. Ancestors(par, m) = Def(Ancestors(par, m), m)
  BY <1>4, <1>5
<1> QED BY <1>6 DEF Def

(* Messages are numbered as they come, so the one answered is smaller.     *)
Numbered(par) ==
  par \in Seq(Nat) /\ \A m \in DOMAIN par : par[m] < m

(* What a message answers, and what that one answers, one by one.          *)
LEMMA AncestorsAt ==
  ASSUME NEW par, NEW m \in Nat
  PROVE  /\ Ancestors(par, m)[0] = m
         /\ \A k \in 0..(m - 1) : Ancestors(par, m)[k + 1] = Sender(par, Ancestors(par, m)[k])
<1> DEFINE A == Ancestors(par, m)
<1>1. A = [k \in 0..m |-> IF k = 0 THEN m ELSE Sender(par, A[k - 1])]
  BY AncestorsDef
<1> HIDE DEF A
<1>2. A[0] = m
  BY <1>1
<1>3. ASSUME NEW k \in 0..(m - 1) PROVE A[k + 1] = Sender(par, A[k])
  <2>1. k + 1 \in 0..m /\ k + 1 # 0 /\ (k + 1) - 1 = k
    OBVIOUS
  <2> QED BY <2>1, <1>1
<1> QED BY <1>2, <1>3 DEF A

(* The ancestors of a message are the one it answers and the ancestors of  *)
(* that one.                                                               *)
LEMMA AncestorsOfSender ==
  ASSUME NEW par, Numbered(par), NEW m \in DOMAIN par, par[m] # 0
  PROVE  \A k \in 0..par[m] : Ancestors(par, m)[k + 1] = Ancestors(par, par[m])[k]
<1> DEFINE p == par[m]
           T == {k \in Nat : k <= p => Ancestors(par, m)[k + 1] = Ancestors(par, p)[k]}
<1>1. m \in Nat /\ p \in Nat /\ p < m
  BY LenProperties DEF Numbered
<1>2. 0 \in T
  <2>1. /\ Ancestors(par, m)[0] = m /\ Ancestors(par, p)[0] = p
        /\ Ancestors(par, m)[0 + 1] = Sender(par, Ancestors(par, m)[0])
    BY <1>1, AncestorsAt
  <2> QED BY <1>1, <2>1 DEF Sender
<1>3. ASSUME NEW k \in T PROVE k + 1 \in T
  <2> SUFFICES ASSUME k + 1 <= p
               PROVE  Ancestors(par, m)[(k + 1) + 1] = Ancestors(par, p)[k + 1]
    OBVIOUS
  <2>1. k \in 0..(p - 1) /\ k + 1 \in 0..(m - 1)
    BY <1>1
  <2>2. Ancestors(par, p)[k + 1] = Sender(par, Ancestors(par, p)[k])
    BY <2>1, <1>1, AncestorsAt
  <2>3. Ancestors(par, m)[(k + 1) + 1] = Sender(par, Ancestors(par, m)[k + 1])
    BY <2>1, <1>1, AncestorsAt
  <2>4. Ancestors(par, m)[k + 1] = Ancestors(par, p)[k]
    BY <2>1, <1>1
  <2> QED BY <2>2, <2>3, <2>4
<1>4. T = Nat
  <2>1. T \subseteq Nat
    OBVIOUS
  <2> HIDE DEF T
  <2> QED BY <1>2, <1>3, <2>1, SetInduction
<1> QED BY <1>1, <1>4

(* Later messages leave the ancestors of a message alone.                  *)
LEMMA AncestorsStay ==
  ASSUME NEW par, Numbered(par), NEW x \in Nat, NEW m \in DOMAIN par
  PROVE  \A k \in 0..m : Ancestors(Append(par, x), m)[k] = Ancestors(par, m)[k]
<1> DEFINE more == Append(par, x)
           T == {k \in Nat : k <= m => /\ Ancestors(more, m)[k] = Ancestors(par, m)[k]
                                       /\ Ancestors(par, m)[k] \in 0..Len(par)}
<1>1. /\ m \in 1..Len(par) /\ m \in Nat /\ Len(par) \in Nat
      /\ \A i \in 1..Len(par) : more[i] = par[i] /\ par[i] \in 0..Len(par)
  BY Grow, LenProperties DEF Numbered
<1> HIDE DEF more
<1>2. 0 \in T
  BY <1>1, AncestorsAt
<1>3. ASSUME NEW k \in T PROVE k + 1 \in T
  <2> DEFINE a == Ancestors(par, m)[k]
  <2> SUFFICES ASSUME k + 1 <= m
               PROVE  /\ Ancestors(more, m)[k + 1] = Ancestors(par, m)[k + 1]
                      /\ Ancestors(par, m)[k + 1] \in 0..Len(par)
    OBVIOUS
  <2>1. k \in 0..(m - 1)
    BY <1>1
  <2>2. Ancestors(more, m)[k] = a /\ a \in 0..Len(par)
    BY <2>1, <1>1
  <2>3. /\ Ancestors(par, m)[k + 1] = Sender(par, a)
        /\ Ancestors(more, m)[k + 1] = Sender(more, a)
    BY <2>1, <2>2, <1>1, AncestorsAt
  <2>4. Sender(more, a) = Sender(par, a) /\ Sender(par, a) \in 0..Len(par)
    BY <2>2, <1>1 DEF Sender
  <2> QED BY <2>3, <2>4
<1>4. T = Nat
  <2>1. T \subseteq Nat
    OBVIOUS
  <2> HIDE DEF T
  <2> QED BY <1>2, <1>3, <2>1, SetInduction
<1> QED BY <1>1, <1>4 DEF more

(* An answer answers what the message it answers does.                     *)
LEMMA AnswersUp ==
  ASSUME NEW par, Numbered(par), NEW m \in DOMAIN par, par[m] # 0
  PROVE  /\ Answers(par, m, par[m])
         /\ \A first : Answers(par, par[m], first) => Answers(par, m, first)
<1> DEFINE p == par[m]
<1>1. m \in Nat /\ m >= 1 /\ p \in Nat /\ p >= 1 /\ p < m
  BY LenProperties DEF Numbered
<1>2. Ancestors(par, m)[0 + 1] = Ancestors(par, p)[0] /\ Ancestors(par, p)[0] = p
  BY <1>1, AncestorsOfSender, AncestorsAt
<1>3. Answers(par, m, p)
  BY <1>1, <1>2 DEF Answers
<1>4. ASSUME NEW first, Answers(par, p, first) PROVE Answers(par, m, first)
  <2>1. PICK k \in 1..p : Ancestors(par, p)[k] = first
    BY <1>4 DEF Answers
  <2>2. Ancestors(par, m)[k + 1] = first /\ k + 1 \in 1..m
    BY <2>1, <1>1, AncestorsOfSender
  <2> QED BY <2>2 DEF Answers
<1> QED BY <1>3, <1>4

(* What answered a message still does when another one is handled.         *)
LEMMA AnswersStay ==
  ASSUME NEW par, Numbered(par), NEW x \in Nat,
         NEW m \in DOMAIN par, NEW first, Answers(par, m, first)
  PROVE  Answers(Append(par, x), m, first)
<1>1. PICK k \in 1..m : Ancestors(par, m)[k] = first
  BY DEF Answers
<1>2. m \in Nat /\ k \in 0..m
  BY LenProperties DEF Numbered
<1> QED BY <1>1, <1>2, AncestorsStay DEF Answers

(* A new message has been heard by nobody.                                 *)
LEMMA HandleMessageOrder ==
  ASSUME CallsInv, OrderInv, NEW from \in Nat, HandleMessage(from),
         IF stack = <<>> THEN from = 0 ELSE from = stack[1].msg
  PROVE  OrderInv'
<1> DEFINE n == Len(parent) + 1
<1> USE DEF CallsInv, OrderInv
<1>1. /\ stack' = <<[msg |-> n, at |-> 0, last |-> listeners, running |-> FALSE]>> \o stack
      /\ parent' = Append(parent, from) /\ UNCHANGED heard
  BY DEF HandleMessage, Called
<1>2. /\ Len(parent) \in Nat /\ n \in Nat /\ n >= 1 /\ DOMAIN parent = 1..(n - 1)
      /\ DOMAIN parent' = 1..n /\ parent' \in Seq(Nat) /\ parent'[n] = from
      /\ \A m \in 1..(n - 1) : parent'[m] = parent[m]
  BY <1>1, Grow DEF TypeOK
<1>3. /\ DOMAIN stack = 1..Len(stack) /\ Len(stack) \in Nat
      /\ DOMAIN stack' = 1..(Len(stack) + 1) /\ stack'[1].msg = n
      /\ \A i \in 2..(Len(stack) + 1) : stack'[i] = stack[i - 1]
  <2>1. [msg |-> n, at |-> 0, last |-> listeners, running |-> FALSE] \in Frames
    BY <1>2 DEF Frames, TypeOK
  <2> QED BY <1>1, <2>1, Push, LenProperties DEF TypeOK
<1> HIDE DEF n
<1>4. Numbered(parent) /\ \A i \in DOMAIN stack : stack[i].msg \in 1..(n - 1)
  BY <1>2 DEF Numbered, TypeOK, Descent, Messages, Nesting
<1>5. from < n /\ (from # 0 => stack # <<>> /\ from = stack[1].msg)
  <2>1. stack # <<>> => 1 \in DOMAIN stack
    BY Pop DEF TypeOK
  <2> QED BY <2>1, <1>2, <1>4
<1>6. Numbered(parent')
  BY <1>2, <1>4, <1>5 DEF Numbered
<1>7. \A m \in 1..(n - 1) : \A first :
        Answers(parent, m, first) => Answers(parent', m, first)
  BY <1>1, <1>2, <1>4, AnswersStay
<1>8. from # 0 =>
        /\ Answers(parent', n, from)
        /\ \A first : Answers(parent', from, first) => Answers(parent', n, first)
  BY <1>2, <1>6, AnswersUp
<1>9. Descent'
  <2>1. \A m \in Messages' : parent'[m] < m
    BY <1>6 DEF Numbered, Messages
  <2>2. ASSUME NEW i \in DOMAIN stack', NEW m \in Messages', m > stack'[i].msg
        PROVE  Answers(parent', m, stack'[i].msg)
    <3>1. i # 1 /\ i \in 2..(Len(stack) + 1) /\ stack'[i] = stack[i - 1]
      <4>1. m <= n /\ m \in Nat
        BY <1>2 DEF Messages
      <4>2. i # 1
        BY <2>2, <1>2, <1>3, <4>1
      <4>3. i \in 2..(Len(stack) + 1)
        BY <1>3, <4>2
      <4> QED BY <1>3, <4>2, <4>3
    <3>2. i - 1 \in DOMAIN stack /\ i - 1 >= 1
      BY <3>1, <1>3
    <3>3. CASE m \in 1..(n - 1)
      BY <3>1, <3>2, <3>3, <2>2, <1>2, <1>7 DEF Descent, Messages
    <3>4. CASE m = n
      <4>1. stack # <<>> /\ 1 \in DOMAIN stack
        BY <3>2, <1>3
      <4>2. from = stack[1].msg /\ from \in 1..(n - 1) /\ from # 0
        BY <4>1, <1>4
      <4>3. CASE i - 1 = 1
        BY <4>2, <4>3, <3>1, <3>4, <1>8
      <4>4. CASE i - 1 > 1
        <5>1. from > stack[i - 1].msg
          BY <4>1, <4>2, <4>4, <3>2 DEF Nesting
        <5>2. Answers(parent, from, stack[i - 1].msg)
          BY <5>1, <4>2, <3>2, <1>2 DEF Descent, Messages
        <5> QED BY <5>2, <4>2, <3>1, <3>4, <1>7, <1>8
      <4> QED BY <4>3, <4>4, <3>2
    <3> QED BY <3>3, <3>4, <1>2 DEF Messages
  <2> QED BY <2>1, <2>2 DEF Descent
<1>10. OutOfOrderOnlyByReply'
  <2> SUFFICES ASSUME NEW l \in DOMAIN heard, NEW i \in DOMAIN heard[l],
                      NEW j \in DOMAIN heard[l], i < j, heard[l][i] > heard[l][j]
               PROVE  Answers(parent', heard[l][i], heard[l][j])
    BY <1>1 DEF OutOfOrderOnlyByReply
  <2>1. Answers(parent, heard[l][i], heard[l][j]) /\ heard[l][i] \in 1..(n - 1)
    BY <1>2 DEF OutOfOrderOnlyByReply, Hearing, Messages
  <2> QED BY <2>1, <1>7
<1> QED BY <1>9, <1>10

(* No other step adds a message, or a message in progress.                 *)
LEMMA DescentStays ==
  ASSUME CallsInv, Descent, UNCHANGED parent,
         \A i \in DOMAIN stack' : \E j \in DOMAIN stack : stack'[i].msg = stack[j].msg
  PROVE  Descent'
BY DEF Descent, Messages

(* The calls that are left were in progress before.                        *)
LEMMA PoppedFrames ==
  ASSUME CallsInv, stack # <<>>, stack' = Tail(stack)
  PROVE  \A i \in DOMAIN stack' : \E j \in DOMAIN stack : stack'[i].msg = stack[j].msg
<1>1. /\ Len(stack) \in Nat \ {0} /\ DOMAIN stack = 1..Len(stack)
      /\ DOMAIN stack' = 1..(Len(stack) - 1)
      /\ \A i \in 1..(Len(stack) - 1) : stack'[i] = stack[i + 1]
  BY Pop DEF CallsInv, TypeOK
<1> QED BY <1>1

(* A listener hears a message after those it does not answer.              *)
LEMMA CallNextOrder ==
  ASSUME CallsInv, OrderInv, CallNext
  PROVE  OrderInv'
<1> DEFINE m == stack[1].msg
           l == stack[1].at + 1
           n == Len(heard[l])
<1> USE DEF CallsInv, OrderInv
<1>1. stack # <<>> /\ Top = stack[1] /\ 1 \in DOMAIN stack /\ stack[1] \in Frames
  BY Pop, LenProperties DEF CallNext, Top, TypeOK
<1>2. /\ stack' = [stack EXCEPT ![1].at = @ + 1, ![1].running = TRUE]
      /\ heard' = [heard EXCEPT ![l] = Append(@, m)]
      /\ UNCHANGED parent
  BY <1>1 DEF CallNext
<1>3. /\ DOMAIN stack' = DOMAIN stack
      /\ \A i \in DOMAIN stack : stack'[i].msg = stack[i].msg
  BY <1>1, <1>2 DEF Frames
<1>4. Descent'
  BY <1>2, <1>3, DescentStays
<1>5. m \in Messages /\ m \in Nat
  BY <1>1 DEF Nesting, Frames
<1>6. /\ DOMAIN heard' = DOMAIN heard
      /\ \A k \in DOMAIN heard : k # l => heard'[k] = heard[k]
      /\ l \in DOMAIN heard => heard'[l] = Append(heard[l], m)
  BY <1>2
<1> HIDE DEF l, m
<1>7. l \in DOMAIN heard =>
        /\ n \in Nat /\ DOMAIN heard[l] = 1..n /\ DOMAIN heard'[l] = 1..(n + 1)
        /\ \A i \in 1..n : heard'[l][i] = heard[l][i]
        /\ heard'[l][n + 1] = m
  <2> SUFFICES ASSUME l \in DOMAIN heard
               PROVE  /\ n \in Nat /\ DOMAIN heard[l] = 1..n
                      /\ DOMAIN heard'[l] = 1..(n + 1)
                      /\ \A i \in 1..n : heard'[l][i] = heard[l][i]
                      /\ heard'[l][n + 1] = m
    OBVIOUS
  <2>1. heard[l] \in Seq(Nat)
    BY LenProperties DEF TypeOK
  <2> QED BY <2>1, <1>5, <1>6, Grow
<1>8. OutOfOrderOnlyByReply'
  <2> SUFFICES ASSUME NEW k \in DOMAIN heard, NEW i \in DOMAIN heard'[k],
                      NEW j \in DOMAIN heard'[k], i < j, heard'[k][i] > heard'[k][j]
               PROVE  Answers(parent, heard'[k][i], heard'[k][j])
    BY <1>2, <1>6 DEF OutOfOrderOnlyByReply
  <2>1. CASE k # l
    BY <2>1, <1>6 DEF OutOfOrderOnlyByReply
  <2>2. CASE k = l /\ j \in 1..n
    <3>1. i \in 1..n /\ heard'[k][i] = heard[k][i] /\ heard'[k][j] = heard[k][j]
      BY <2>2, <1>7
    <3> QED BY <3>1, <2>2, <1>7 DEF OutOfOrderOnlyByReply
  <2>3. CASE k = l /\ j = n + 1
    <3>1. i \in 1..n /\ heard'[k][i] = heard[k][i] /\ heard'[k][j] = m
      BY <2>3, <1>7
    <3>2. heard[k][i] \in Messages /\ heard[k][i] > m
      BY <3>1, <2>3, <1>7 DEF Hearing
    <3> QED BY <3>1, <3>2, <1>1 DEF Descent, m
  <2> QED BY <2>1, <2>2, <2>3, <1>7
<1> QED BY <1>4, <1>8

(* Every step keeps the order in which listeners hear messages.            *)
LEMMA OrderStep == CallsInv /\ OrderInv /\ [Next]_vars => OrderInv'
<1> SUFFICES ASSUME CallsInv, OrderInv, [Next]_vars PROVE OrderInv'
  OBVIOUS
<1>1. CASE ReceiveOrSend
  BY <1>1, HandleMessageOrder DEF ReceiveOrSend, Idle
<1>2. CASE Reply
  <2>1. stack # <<>> /\ stack \in Seq(Frames)
    BY <1>2 DEF Reply, Running, CallsInv, TypeOK
  <2>2. Head(stack) = stack[1] /\ stack[1] \in Frames
    BY <2>1, Pop, LenProperties
  <2>3. stack[1].msg \in Nat
    BY <2>2 DEF Frames
  <2> QED BY <1>2, <2>1, <2>2, <2>3, HandleMessageOrder DEF Reply, Top
<1>3. CASE LoopEnds \/ Throw
  <2>1. Descent'
    BY <1>3, PoppedFrames, DescentStays DEF OrderInv, LoopEnds, Throw, Running
  <2> QED BY <1>3, <2>1 DEF OrderInv, OutOfOrderOnlyByReply, LoopEnds, Throw
<1>4. CASE Return
  <2>1. /\ 1 \in DOMAIN stack /\ stack[1] \in Frames
        /\ stack' = [stack EXCEPT ![1].running = FALSE]
    BY <1>4, Pop, LenProperties DEF Return, Running, CallsInv, TypeOK
  <2>2. /\ DOMAIN stack' = DOMAIN stack
        /\ \A i \in DOMAIN stack : stack'[i].msg = stack[i].msg
    BY <2>1 DEF Frames
  <2>3. Descent'
    BY <1>4, <2>2, DescentStays DEF OrderInv, Return
  <2> QED BY <1>4, <2>3 DEF OrderInv, OutOfOrderOnlyByReply, Return
<1>5. CASE AddChatListener
  <2>1. UNCHANGED <<parent, stack>> /\ heard' = Append(heard, <<>>)
    BY <1>5 DEF AddChatListener
  <2>2. <<>> \in Seq(Nat) /\ heard \in Seq(Seq(Nat))
    BY DEF CallsInv, TypeOK
  <2>3. \A l \in DOMAIN heard' :
          \/ l \in DOMAIN heard /\ heard'[l] = heard[l]
          \/ DOMAIN heard'[l] = {}
    <3> DEFINE S == Seq(Nat)
    <3>1. heard \in Seq(S) /\ <<>> \in S
      BY <2>2
    <3> HIDE DEF S
    <3> QED BY <2>1, <3>1, Grow
  <2>4. Descent'
    BY <2>1 DEF OrderInv, Descent, Messages
  <2>5. OutOfOrderOnlyByReply'
    BY <2>1, <2>3 DEF OrderInv, OutOfOrderOnlyByReply
  <2> QED BY <2>4, <2>5 DEF OrderInv
<1>6. CASE UNCHANGED vars
  BY <1>6 DEF vars, OrderInv, Descent, OutOfOrderOnlyByReply, Messages
<1> QED BY <1>1, <1>2, <1>3, <1>4, <1>5, <1>6, CallNextOrder DEF Next

(* A listener hears a later message first only if it answers the earlier.  *)
THEOREM OutOfOrderOnlyByReplyProved == Spec => []OutOfOrderOnlyByReply
<1>1. Init => OrderInv
  BY DEF Init, OrderInv, Descent, OutOfOrderOnlyByReply, Messages
<1>2. OrderInv => OutOfOrderOnlyByReply
  BY DEF OrderInv
<1> QED BY <1>1, <1>2, OrderStep, CallsInit, CallsStep, PTL DEF Spec

=============================================================================
