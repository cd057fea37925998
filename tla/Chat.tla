-------------------------------- MODULE Chat --------------------------------
(***************************************************************************)
(* The chat of src/src/Chat.ts on one client: its log, and the listeners   *)
(* it calls one after the other, without a try, whenever a message is      *)
(* handled.  A listener is the user's code: while it runs it may send a    *)
(* message of its own, which is handled at once, in the middle of the      *)
(* other, add a listener, return, or throw.                                *)
(*                                                                         *)
(* A message is the number it gets when it is handled.  stack holds the    *)
(* calls of handleMessage in progress, innermost first.                    *)
(***************************************************************************)
EXTENDS Naturals, Sequences, FiniteSets

CONSTANTS
  entries,      \* the length of the log: 20 in the code
  MaxMessages,  \* bound: messages handled
  MaxListeners  \* bound: listeners added

ASSUME ChatAssumption ==
  entries \in Nat \ {0} /\ MaxMessages \in Nat /\ MaxListeners \in Nat

VARIABLES
  chatLog,
  listeners,  \* how many there are
  stack,      \* [msg, at, last, running]: listener at of last has msg
  parent,     \* history: parent[m]: the message whose listener sent m, or 0
  present,    \* history: present[m]: the listeners there were when m came
  heard,      \* history: heard[l]: the messages listener l was called with
  thrown      \* history: <<m, l>> if listener l threw when called with m

vars == <<chatLog, listeners, stack, parent, present, heard, thrown>>

Messages == DOMAIN parent

(* (slip: a message that comes in the middle of another is only logged)    *)
Called_Outermost == IF stack = <<>> THEN listeners ELSE 0

(* for (var m in listeners) visits what was there when it began.           *)
Called == listeners

(* (slip: the log is cut before the message is added)                      *)
Kept_CutFirst(log, m) ==
  Append(IF Len(log) > entries THEN Tail(log) ELSE log, m)

Kept(log, m) ==
  LET longer == Append(log, m)
  IN IF Len(longer) > entries THEN Tail(longer) ELSE longer

(* handleMessage, up to its loop.                                          *)
HandleMessage(from) ==
  LET m == Len(parent) + 1
  IN /\ m <= MaxMessages
     /\ chatLog' = Kept(chatLog, m)
     /\ parent' = Append(parent, from)
     /\ present' = Append(present, listeners)
     /\ stack' = <<[msg |-> m, at |-> 0, last |-> Called, running |-> FALSE]>>
                   \o stack
     /\ UNCHANGED <<listeners, heard, thrown>>

(* (slip: the handler awaits its listeners, so others run in between)      *)
Idle_Awaits == TRUE

Idle == stack = <<>>

(* A message from the topic, or one the user sends: both are handled here, *)
(* and what is published does not come back.                               *)
ReceiveOrSend == Idle /\ HandleMessage(0)

Top == Head(stack)
Running == stack # <<>> /\ Top.running

CallNext ==
  /\ stack # <<>> /\ ~Top.running /\ Top.at < Top.last
  /\ stack' = [stack EXCEPT ![1].at = @ + 1, ![1].running = TRUE]
  /\ heard' = [heard EXCEPT ![Top.at + 1] = Append(@, Top.msg)]
  /\ UNCHANGED <<chatLog, listeners, parent, present, thrown>>

LoopEnds ==
  /\ stack # <<>> /\ ~Top.running /\ Top.at = Top.last
  /\ stack' = Tail(stack)
  /\ UNCHANGED <<chatLog, listeners, parent, present, heard, thrown>>

(* sendChatMessage from within a listener                                  *)
Reply == Running /\ HandleMessage(Top.msg)

Return ==
  /\ Running
  /\ stack' = [stack EXCEPT ![1].running = FALSE]
  /\ UNCHANGED <<chatLog, listeners, parent, present, heard, thrown>>

(* The exception ends the loop; a listener whose reply it was may catch it *)
(* and go on, or throw in its turn.                                        *)
Throw ==
  /\ Running
  /\ stack' = Tail(stack)
  /\ thrown' = thrown \cup {<<Top.msg, Top.at>>}
  /\ UNCHANGED <<chatLog, listeners, parent, present, heard>>

AddChatListener ==
  /\ stack = <<>> \/ Running
  /\ listeners < MaxListeners
  /\ listeners' = listeners + 1
  /\ heard' = Append(heard, <<>>)
  /\ UNCHANGED <<chatLog, stack, parent, present, thrown>>

Init ==
  /\ chatLog = <<>> /\ listeners = 0 /\ stack = <<>>
  /\ parent = <<>> /\ present = <<>> /\ heard = <<>> /\ thrown = {}

Next ==
  \/ ReceiveOrSend \/ CallNext \/ LoopEnds
  \/ Reply \/ Return \/ Throw \/ AddChatListener

Spec == Init /\ [][Next]_vars

-----------------------------------------------------------------------------
(* Properties *)

InProgress(m) == \E i \in DOMAIN stack : stack[i].msg = m

Heard(l, m) == \E i \in DOMAIN heard[l] : heard[l][i] = m

(* Once a message is dealt with, every listener there was when it came was *)
(* called with it once, however messages were nested, unless a listener    *)
(* before it threw: the first misses nothing (handleMessage has no try).   *)
MissedOnlyByThrow ==
  \A m \in Messages : ~InProgress(m) =>
    \A l \in 1..present[m] :
      /\ Heard(l, m) \/ \E k \in 1..(l - 1) : <<m, k>> \in thrown
      /\ Cardinality({i \in DOMAIN heard[l] : heard[l][i] = m}) <= 1

Sender(parents, m) == IF m = 0 THEN 0 ELSE parents[m]

(* [k] is the message k answers up from m, 0 beyond the first: ancestors   *)
(* are of smaller number, so that comes after at most m steps.             *)
Ancestors(parents, m) ==
  LET up[k \in 0..m] == IF k = 0 THEN m ELSE Sender(parents, up[k - 1])
  IN up

Answers(parents, m, first) ==
  \E k \in 1..m : Ancestors(parents, m)[k] = first

(* A listener hears messages in the order in which they were handled; a    *)
(* later one comes first only if it answers the earlier one, directly or   *)
(* through other answers (sendChatMessage, handleMessage).                 *)
OutOfOrderOnlyByReply ==
  \A l \in DOMAIN heard :
    \A i, j \in DOMAIN heard[l] :
      i < j /\ heard[l][i] > heard[l][j] =>
        Answers(parent, heard[l][i], heard[l][j])

(* A listener that draws the log when it is called finds the message it is *)
(* called with, unless that many answers came in between, and no message   *)
(* in the log is older than the last entries (getChatLog).                 *)
HeardIsLogged ==
  /\ Running => \/ \E i \in DOMAIN chatLog : chatLog[i] = Top.msg
                \/ Len(parent) >= Top.msg + entries
  /\ Len(chatLog) <= entries
  /\ \A i \in DOMAIN chatLog : chatLog[i] + entries > Len(parent)

=============================================================================
