---------------------------- MODULE MatchCalls ----------------------------
(***************************************************************************)
(* One client of src/src/Matcher.ts, call by call.  Matcher folds an event *)
(* of the JavaScript loop and all the calls it makes into one action; here *)
(* the calls are steps.  Sending a message handles it locally, which       *)
(* raises an update event, which calls the agent, which may send; and the  *)
(* user's own code runs in the middle of it: the callback passed to        *)
(* findMatch and the listeners added with addMatchListener, all of which   *)
(* may call findMatch and stopMatch, as often as they like.                *)
(*                                                                         *)
(* stack holds what is left to do of the calls in progress, innermost      *)
(* first.  The rest of the world is an environment that delivers any       *)
(* message at any time, also messages under this client's own key: its     *)
(* user may have the wallet open in a second page.                         *)
(***************************************************************************)
EXTENDS Naturals, Sequences, FiniteSets

CONSTANTS
  Nodes, Games, Wishes, None, ADVERTISE_TIMEOUT, SERVING_REBROADCAST_TIMEOUT,
  CLAIM_ACK_TIMEOUT, CallbackOutcomes, MaxCopies,  \* as in Matcher
  Me,            \* the client
  CallbackDoes,  \* what the callback may do: "throw", "find", "stop"
  ListenerDoes,  \* what the listener may do: "find", "stop"
  MaxSearches,   \* bound: searches started
  MaxInner       \* bound: calls user code makes in the middle of one event

ASSUME CallsAssumption ==
  /\ Me \in Nodes
  /\ None \notin [advertiser : Nodes, match : Games]
  /\ \A wish \in Wishes : wish \in Seq(Games) /\ wish # <<>> /\ wish # None
  /\ MaxSearches \in Nat /\ MaxInner \in Nat

VARIABLES
  map,       \* matchMap
  agent,     \* state, matchId, target and callback (a search, 0 for null)
  actionAge, \* time since lastActionStart
  incoming,  \* the message that arrives next, or None
  outbox,    \* copies of each message the last event published
  stack,     \* the calls in progress
  searches,  \* history: searches started; each has a callback of its own
  tried,     \* history: <<s, id>> if search s claimed or advertised id
  told,      \* history: the calls of callbacks
  did,       \* history: <<n, x>> if callback n threw or called stopMatch (x)
  from,      \* history: <<s, n>> if search s began inside callback n of told
  astray,    \* history: the agent began, or began anew, while an earlier
             \* claim or acceptance of its own was still being sent
  inner,     \* history: how many calls user code made during this event
  before     \* history: all of this when the event began; None at rest

clientVars == <<map, agent, actionAge, outbox>>
historyVars == <<searches, tried, told, did, from, astray, inner>>
vars == <<clientVars, incoming, stack, historyVars, before>>

Now == [map |-> map, agent |-> agent, actionAge |-> actionAge,
        incoming |-> incoming, outbox |-> outbox, tried |-> tried,
        told |-> told, searches |-> searches, astray |-> astray]

(* The client as Matcher sees it: in the middle of an event, not yet moved *)
Seen == IF stack = <<>> THEN Now ELSE before

MineOr(x, other) == [n \in Nodes |-> IF n = Me THEN x ELSE other]

Counted(p, mine) ==
  Cardinality({i \in DOMAIN Seen.told :
    LET t == Seen.told[i]
    IN t.match = p.matchId /\ t.user = p.user
         /\ (t.match.advertiser = Me) = mine})

M == INSTANCE Matcher WITH
  matchMap <- MineOr(Seen.map, [id \in DOMAIN Seen.map |-> None]),
  state <- MineOr(Seen.agent.state, "IDLE"),
  matchId <- MineOr(IF Seen.agent.state = "IDLE" THEN None
                    ELSE Seen.agent.matchId, None),
  targetMatch <- MineOr(Seen.agent.target, None),
  actionAge <- MineOr(Seen.actionAge, 0),
  net <- MineOr([m \in DOMAIN Seen.outbox |->
                   IF m = Seen.incoming THEN 1 ELSE 0], Seen.outbox),
  claimed <- {[matchId |-> t[2], user |-> Me] :
                t \in {t \in Seen.tried : t[2].advertiser # Me}},
  filled <- [p \in [matchId : DOMAIN map, user : Nodes] |-> Counted(p, TRUE)],
  joined <- [p \in [matchId : DOMAIN map, user : Nodes] |-> Counted(p, FALSE)],
  searches <- MineOr(Seen.searches, 0)

(* null is no message; stopMatch throws just when its callback does.       *)
ASSUME FoldsAssumption ==
  /\ None \notin M!MatchState \cup M!Message
  /\ ADVERTISE_TIMEOUT \in Nat
  /\ MaxCopies \in Nat \ {0}
  /\ "returns" \in CallbackOutcomes
  /\ "throw" \in CallbackDoes => "throws" \in CallbackOutcomes

-----------------------------------------------------------------------------
(* The pieces calls are made of.  rest is what the caller goes on with.    *)

Nothing == [m \in M!Message |-> 0]

Publish(m) == outbox' = [outbox EXCEPT ![m] = M!Older(@, MaxCopies)]

(* raiseUpdateEvent: the agent is the first listener.  The user's come one *)
(* after the other with nothing in between, and what each of them throws   *)
(* is caught: together they are one that makes all their calls.            *)
Raise(id) == <<[op |-> "agent", id |-> id], [op |-> "listener", id |-> id]>>

OnAdvertise(id, rest) ==
  /\ map' = M!HandleAdvertise(map, id)
  /\ stack' = Raise(id) \o rest

Unadvertise(id) == map' = M!Without(map, {id})

OnClaim(id, user, rest) ==
  /\ map' = M!HandleClaim(map, id, user)
  /\ stack' = IF M!NewClaim(map, id, user) THEN Raise(id) \o rest ELSE rest

(* (slip: the game is not removed after the update event)                  *)
OnAck_KeepsGame(id, user, rest) ==
  IF M!NewAck(map, id, user)
  THEN /\ map' = M!HandleAck(map, id, user)
       /\ stack' = Raise(id) \o rest
  ELSE stack' = rest /\ UNCHANGED map

OnAck(id, user, rest) ==
  IF M!NewAck(map, id, user)
  THEN /\ map' = M!HandleAck(map, id, user)
       /\ stack' = Raise(id) \o <<[op |-> "remove", id |-> id]>> \o rest
  ELSE stack' = rest /\ UNCHANGED map

(* (slip: the callback is not reset)                                       *)
Cleared_KeepsCallback(a) ==
  [state |-> "IDLE", matchId |-> None, target |-> None, callback |-> a.callback]

Cleared(a) ==
  [state |-> "IDLE", matchId |-> None, target |-> None, callback |-> 0]

Clear == agent' = Cleared(agent) /\ astray' = FALSE

(* _matchCallback: the callback is called, and the state is cleared when   *)
(* it returns.  An agent without a callback has its state cleared at once. *)
Tell(id, user, by, stops, rest) ==
  IF agent.callback = 0
  THEN Clear /\ stack' = rest /\ UNCHANGED told
  ELSE /\ stack' = <<[op |-> "called", n |-> Len(told) + 1, stops |-> stops]>> \o rest
       /\ told' = Append(told, [search |-> agent.callback, match |-> id,
                                user |-> user, by |-> by, amid |-> astray])
       /\ UNCHANGED <<agent, astray>>

(* The agent goes on to bind itself to a game, or to call its callback and *)
(* clear itself, when these calls return.                                  *)
Midway(rest) == \E i \in DOMAIN rest : rest[i].op \in {"claimed", "accepted"}

(* A joiner knows which game it waits for only after its claim was sent.   *)
StartMatch(wish, search, rest) ==
  LET open == M!Joinable(Me, wish, map)
      own == M!getMatchID(Me, Head(wish))
  IN /\ actionAge' = 0
     /\ astray' = Midway(rest)
     /\ \/ \E id \in open :
             /\ agent' = [state |-> "JOINING_WAITING_ACK", matchId |-> None,
                          target |-> wish, callback |-> search]
             /\ tried' = tried \cup {<<search, id>>}
             /\ Publish(M!ClaimMsg(id, Me))
             /\ OnClaim(id, Me, <<[op |-> "claimed", id |-> id]>> \o rest)
        \/ /\ open = {}
           /\ agent' = [state |-> "SERVING_WAITING_CLAIMS", matchId |-> own,
                        target |-> wish, callback |-> search]
           /\ tried' = tried \cup {<<search, own>>}
           /\ Publish(M!AdvertiseMsg(own))
           /\ OnAdvertise(own, rest)

Restart(rest) ==
  /\ StartMatch(agent.target, agent.callback, rest)
  /\ UNCHANGED told

-----------------------------------------------------------------------------
(* The calls a user makes, from outside or from within an event.  Refused, *)
(* they change nothing.                                                    *)

Inner == inner' = IF stack = <<>> THEN 0 ELSE inner + 1

(* The callbacks of which the call is in progress.                         *)
InCallbacks == {stack[i].n : i \in {i \in DOMAIN stack : stack[i].op = "called"}}

(* (slip: a busy agent drops its search for the new one)                   *)
FindMatch_Busy(wish) ==
  /\ searches < MaxSearches
  /\ searches' = searches + 1
  /\ from' = from \cup {<<searches + 1, n>> : n \in InCallbacks}
  /\ Inner
  /\ StartMatch(wish, searches + 1, stack)
  /\ UNCHANGED told

FindMatch(wish) ==
  /\ agent.state = "IDLE"
  /\ searches < MaxSearches
  /\ searches' = searches + 1
  /\ from' = from \cup {<<searches + 1, n>> : n \in InCallbacks}
  /\ Inner
  /\ StartMatch(wish, searches + 1, stack)
  /\ UNCHANGED told

(* Withdraw the advert, tell the callback, clear: in this order.           *)
StopMatch ==
  /\ agent.state # "IDLE"
  /\ IF agent.state = "SERVING_WAITING_CLAIMS"
     THEN /\ Publish(M!UnadvertiseMsg(agent.matchId))
          /\ Unadvertise(agent.matchId)
     ELSE UNCHANGED <<map, outbox>>
  /\ Tell(None, None, agent.callback, TRUE, stack)
  /\ Inner
  /\ UNCHANGED <<actionAge, searches, tried, from>>

-----------------------------------------------------------------------------
(* One step of the innermost call.                                         *)

Top(op) == stack # <<>> /\ Head(stack).op = op

(* (slip: an update of any game is taken for the agent's own)              *)
Concerns_Any(id) == M!Listed(map, id)

(* An entry that was removed meanwhile is undefined: the agent throws, and *)
(* raiseUpdateEvent goes on.                                               *)
Concerns(id) == M!Listed(map, id) /\ agent.matchId = id

(* handleMatchStateUpdate, up to the first call it makes.                  *)
Agent ==
  LET id == Head(stack).id
      rest == Tail(stack)
      accepts == /\ Concerns(id)
                 /\ agent.state = "SERVING_WAITING_CLAIMS"
                 /\ map[id].claimsSeen # <<>>
      answered == /\ Concerns(id)
                  /\ agent.state = "JOINING_WAITING_ACK"
                  /\ map[id].acksSeen # <<>>
      won == Head(map[id].acksSeen) = Me
      by == IF <<agent.callback, id>> \in tried THEN agent.callback ELSE 0
  IN /\ Top("agent")
     /\ UNCHANGED <<searches, did, from, inner>>
     /\ \/ /\ accepts
           /\ LET first == Head(map[id].claimsSeen)
              IN /\ Publish(M!AckMsg(id, first))
                 /\ OnAck(id, first,
                      <<[op |-> "accepted", id |-> id, user |-> first,
                         by |-> by]>> \o rest)
           /\ UNCHANGED <<agent, actionAge, tried, told, astray>>
        \/ /\ answered /\ won
           /\ map' = M!Without(map, {id})
           /\ Tell(id, Me, by, FALSE, rest)
           /\ UNCHANGED <<actionAge, outbox, tried>>
        \/ answered /\ ~won /\ Restart(rest)
        \/ /\ ~accepts /\ ~answered
           /\ stack' = rest
           /\ UNCHANGED <<clientVars, tried, told, astray>>

(* The rest of it once the ack was sent and handled locally.               *)
Accepted ==
  LET top == Head(stack)
  IN /\ Top("accepted")
     /\ map' = M!Without(map, {top.id})
     /\ Tell(top.id, top.user, top.by, FALSE, Tail(stack))
     /\ UNCHANGED <<actionAge, outbox, searches, tried, did, from, inner>>

Finds == inner < MaxInner /\ \E wish \in Wishes : FindMatch(wish)
Stops == inner < MaxInner /\ StopMatch

(* (slip: an agent that searches anew is spared)                           *)
Returns_SparesNew ==
  /\ Top("called")
  /\ IF told[Head(stack).n].search = agent.callback THEN Clear
     ELSE UNCHANGED <<agent, astray>>
  /\ stack' = Tail(stack)
  /\ UNCHANGED <<map, actionAge, outbox, searches, tried, told, did, from, inner>>

(* The callback returns, or throws where that is caught: the state is      *)
(* cleared, whatever the agent is doing by now.                            *)
Returns ==
  /\ Top("called")
  /\ Clear
  /\ stack' = Tail(stack)
  /\ UNCHANGED <<map, actionAge, outbox, searches, tried, told, did, from, inner>>

(* stopMatch has no try: the exception leaves it before clearState, and is *)
(* its caller's to catch or to throw again.                                *)
Throws ==
  /\ "throw" \in CallbackDoes
  /\ Top("called") /\ Head(stack).stops
  /\ did' = did \cup {<<Head(stack).n, "throw">>}
  /\ stack' = Tail(stack)
  /\ UNCHANGED <<clientVars, searches, tried, told, from, astray, inner>>

CallbackCalls ==
  /\ Top("called")
  /\ \/ "find" \in CallbackDoes /\ Finds /\ UNCHANGED did
     \/ /\ "stop" \in CallbackDoes /\ Stops
        /\ did' = did \cup {<<Head(stack).n, "stop">>}

(* The listeners return, or one of them calls.                             *)
Listener ==
  /\ Top("listener")
  /\ \/ stack' = Tail(stack) /\ UNCHANGED <<clientVars, historyVars>>
     \/ "find" \in ListenerDoes /\ Finds /\ UNCHANGED did
     \/ "stop" \in ListenerDoes /\ Stops /\ UNCHANGED did

Remove ==
  /\ Top("remove")
  /\ map' = M!Without(map, {Head(stack).id})
  /\ stack' = Tail(stack)
  /\ UNCHANGED <<agent, actionAge, outbox, historyVars>>

ClaimSent ==
  /\ Top("claimed")
  /\ agent' = [agent EXCEPT !.matchId = Head(stack).id]
  /\ stack' = Tail(stack)
  /\ UNCHANGED <<map, actionAge, outbox, historyVars>>

Step ==
  /\ \/ Agent \/ Accepted \/ Returns \/ Throws \/ CallbackCalls
     \/ Listener \/ Remove \/ ClaimSent
  /\ UNCHANGED incoming

-----------------------------------------------------------------------------
(* The events, which begin when no call is in progress.                    *)

Receive(m) ==
  /\ \/ m.type = "advertise" /\ OnAdvertise(m.matchId, <<>>)
     \/ m.type = "unadvertise" /\ Unadvertise(m.matchId) /\ stack' = <<>>
     \/ m.type = "claim" /\ OnClaim(m.matchId, m.user, <<>>)
     \/ m.type = "ack" /\ OnAck(m.matchId, m.user, <<>>)
  /\ incoming' = None
  /\ inner' = 0
  /\ UNCHANGED <<agent, actionAge, outbox, searches, tried, told, did, from,
                 astray>>

UserCalls ==
  /\ (\E wish \in Wishes : FindMatch(wish)) \/ StopMatch
  /\ UNCHANGED <<incoming, did>>

(* restartMatch does nothing for an agent without target or callback.      *)
Poll ==
  LET id == agent.matchId
      gone == ~M!Listed(map, id)
      full == M!Listed(map, id) /\ map[id].acksSeen # <<>>
      lapsed == \/ gone
                \/ full /\ Head(map[id].acksSeen) # Me
                \/ ~gone /\ ~full /\ actionAge > CLAIM_ACK_TIMEOUT
  IN /\ agent.target # None /\ agent.callback # 0
     /\ \/ /\ agent.state = "SERVING_WAITING_CLAIMS"
           /\ actionAge > SERVING_REBROADCAST_TIMEOUT
        \/ /\ agent.state = "JOINING_WAITING_ACK"
           /\ id # None /\ lapsed
     /\ StartMatch(agent.target, agent.callback, <<>>)
     /\ inner' = 0
     /\ UNCHANGED <<incoming, searches, told, did, from>>

CheckTimeouts ==
  /\ M!Stale(map) # {}
  /\ map' = M!Without(map, M!Stale(map))
  /\ inner' = 0
  /\ UNCHANGED <<agent, actionAge, outbox, incoming, stack,
                 searches, tried, told, did, from, astray>>

Event ==
  /\ stack = <<>> /\ outbox = Nothing
  /\ \/ incoming # None /\ Receive(incoming)
     \/ UserCalls
     \/ Poll
     \/ CheckTimeouts

(* Peers may send any message that somebody with one of the keys can send; *)
(* the order is theirs.                                                    *)
Arrive(m) ==
  /\ incoming = None
  /\ m.type \in {"claim", "ack"} => m.user # m.matchId.advertiser
  /\ incoming' = m
  /\ UNCHANGED clientVars

Flush ==
  /\ outbox' = Nothing
  /\ UNCHANGED <<map, agent, actionAge, incoming>>

Tick ==
  /\ map' = [id \in M!MatchIds |->
               IF M!Listed(map, id)
               THEN [map[id] EXCEPT !.seenAge = M!Older(@, M!SeenLimit)]
               ELSE None]
  /\ actionAge' = M!Older(actionAge, M!ActionLimit)
  /\ UNCHANGED <<agent, outbox, incoming>>

Environment ==
  /\ stack = <<>>
  /\ \/ outbox # Nothing /\ Flush
     \/ outbox = Nothing /\ ((\E m \in M!Message : Arrive(m)) \/ Tick)
  /\ UNCHANGED <<stack, historyVars>>

-----------------------------------------------------------------------------

Init ==
  /\ map = M!EmptyMap
  /\ agent = Cleared([callback |-> 0])
  /\ actionAge = M!ActionLimit
  /\ incoming = None
  /\ outbox = Nothing
  /\ stack = <<>>
  /\ searches = 0 /\ tried = {} /\ told = <<>> /\ did = {} /\ from = {}
  /\ astray = FALSE /\ inner = 0
  /\ before = None

Remember ==
  before' = IF stack' = <<>> THEN None ELSE IF stack = <<>> THEN Now ELSE before

Next == (Event \/ Step \/ Environment) /\ Remember

Spec == Init /\ [][Next]_vars

-----------------------------------------------------------------------------
(* Properties *)

(* Matcher may treat an event with all its nested calls as one step: what  *)
(* an event has done when its last call returns is a step of that client   *)
(* in Matcher (send*Message, raiseUpdateEvent, _matchCallback).  Not so if *)
(* the user's own code called findMatch or stopMatch in the middle of it,  *)
(* or if such a call had left the agent astray, until it begins anew.      *)
FoldsToMatcher ==
  [][\/ M!ClientStep(Me)
     \/ stack # <<>> /\ inner # 0
     \/ Seen.astray
     \/ Environment]_(M!vars)

(* A search never ends behind its user's back: when all calls have         *)
(* returned, a search that is not under way had its callback called,       *)
(* unless it began inside the call of a callback, which is cleared when    *)
(* that returns (startMatch, clearState).                                  *)
EverySearchIsTold ==
  stack = <<>> =>
    \A s \in 1..searches :
      \/ agent.state # "IDLE" /\ agent.callback = s
      \/ \E i \in DOMAIN told : told[i].search = s
      \/ \E n \in DOMAIN told : <<s, n>> \in from

(* Nor is it told twice, unless its callback left stopMatch half done: by  *)
(* throwing out of it, or by calling stopMatch again (stopMatch).          *)
ToldTwiceOnlyByCallback ==
  \A i, j \in DOMAIN told :
    i < j /\ told[i].search = told[j].search =>
      <<i, "throw">> \in did \/ <<i, "stop">> \in did

(* A callback that stops and searches anew does so in vain: its findMatch  *)
(* returns true, but when all calls have returned the search is not under  *)
(* way, unless the callback then threw out of stopMatch (clearState).      *)
CallbacksSearchInVain ==
  stack = <<>> /\ agent.state # "IDLE" =>
    \A n \in DOMAIN told :
      <<agent.callback, n>> \in from => <<n, "throw">> \in did

(* A callback hears of no other search's match: the game was advertised or *)
(* claimed by the search it belongs to.  Only one that began while an      *)
(* earlier search of the agent was sending its claim or its acceptance may *)
(* take over that one's game (startMatch, handleMatchStateUpdate).         *)
ToldOfOwnMatch ==
  \A i \in DOMAIN told : told[i].search = told[i].by \/ told[i].amid

=============================================================================
