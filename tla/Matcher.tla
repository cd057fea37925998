------------------------------ MODULE Matcher ------------------------------
(***************************************************************************)
(* The matching protocol of src/src/Matcher.ts, run by a set of clients    *)
(* that talk over four lossy, unordered pubsub topics.                     *)
(*                                                                         *)
(* A client is one MatchManager: its MatchStateManager (the map of games   *)
(* it has heard of) and its MatchAgent (the search of its own user).       *)
(* JavaScript runs one handler at a time to completion, so a handler and   *)
(* everything it calls is one action here: sendXxxMessage publishes and    *)
(* then calls the local handler, which raises an update event, which       *)
(* re-enters the agent.  Clients interleave arbitrarily.                   *)
(*                                                                         *)
(* Time is kept as ages.  lastSeen and lastActionStart are only ever       *)
(* compared with the current time, so each is modelled by the whole time   *)
(* units since it was written, capped one above the timeout it is compared *)
(* with.  Tick ages everything at every client.                            *)
(*                                                                         *)
(* A definition marked (slip: ...) is not part of the model: it is the     *)
(* definition below it with a plausible mistake, which a run must notice.  *)
(***************************************************************************)
EXTENDS Naturals, Sequences

CONSTANTS
  Nodes,     \* the clients; every one has its own public key
  Games,     \* the names of matches that users look for
  Wishes,    \* the lists of games a user may pass to findMatch
  None,      \* null: no match id, no target, no entry in the map
  ADVERTISE_TIMEOUT, SERVING_REBROADCAST_TIMEOUT, CLAIM_ACK_TIMEOUT,
  CallbackOutcomes, \* what the user's callback may do when stopMatch calls it
  MaxCopies  \* bound: copies of one message in flight to one client

MatchIds == [advertiser : Nodes, match : Games]

SeenLimit == ADVERTISE_TIMEOUT + 1

MatchState ==
  [seenAge : 0..SeenLimit, claimsSeen : Seq(Nodes), acksSeen : Seq(Nodes)]

ASSUME MatcherAssumption ==
  /\ None \notin MatchIds \cup MatchState
  /\ \A wish \in Wishes : wish \in Seq(Games) /\ wish # <<>> /\ wish # None
  /\ ADVERTISE_TIMEOUT \in Nat
  /\ SERVING_REBROADCAST_TIMEOUT \in Nat
  /\ CLAIM_ACK_TIMEOUT \in Nat
  /\ CallbackOutcomes \subseteq {"returns", "throws"}
  /\ MaxCopies \in Nat \ {0}

VARIABLES
  matchMap,    \* matchMap[n][id]: client n's MatchState of game id, or None
  state,       \* the state of n's agent
  matchId,     \* the game the agent serves or has claimed, or None
  targetMatch, \* the games its user asked for, or None
  actionAge,   \* time since lastActionStart
  net,         \* net[n][m]: copies of message m in flight to client n
  claimed,     \* history: the claims ever published
  filled,      \* history: how often a host's callback was told of a match
  joined,      \* history: how often a joiner's callback was told of it
  searches     \* history: how often a client's user began a search

agentVars == <<state, matchId, targetMatch, actionAge>>
historyVars == <<claimed, filled, joined, searches>>
vars == <<matchMap, state, matchId, targetMatch, actionAge, net,
          claimed, filled, joined, searches>>

-----------------------------------------------------------------------------
(* Data *)

getMatchID(advertiser, match) ==
  [advertiser |-> advertiser, match |-> match]

Pairing(id, user) == [matchId |-> id, user |-> user]
Pairings == [matchId : MatchIds, user : Nodes]

AdvertiseMsg(id)   == [type |-> "advertise", matchId |-> id]
UnadvertiseMsg(id) == [type |-> "unadvertise", matchId |-> id]
ClaimMsg(id, user) == [type |-> "claim", matchId |-> id, user |-> user]
AckMsg(id, user)   == [type |-> "ack", matchId |-> id, user |-> user]

Message ==
  [type : {"advertise", "unadvertise"}, matchId : MatchIds]
    \cup [type : {"claim", "ack"}, matchId : MatchIds, user : Nodes]

AgentStates == {"IDLE", "SERVING_WAITING_CLAIMS", "JOINING_WAITING_ACK"}

ActionLimit ==
  1 + (IF CLAIM_ACK_TIMEOUT > SERVING_REBROADCAST_TIMEOUT
       THEN CLAIM_ACK_TIMEOUT ELSE SERVING_REBROADCAST_TIMEOUT)

NewMatch == [seenAge |-> 0, claimsSeen |-> <<>>, acksSeen |-> <<>>]

WithClaim(match, user) == [match EXCEPT !.claimsSeen = Append(@, user)]
WithAck(match, user)   == [match EXCEPT !.acksSeen = Append(@, user)]

Older(age, limit) == IF age < limit THEN age + 1 ELSE limit

In(x, s) == \E i \in DOMAIN s : s[i] = x

-----------------------------------------------------------------------------
(* The network: libp2p pubsub.  It never echoes to the publisher, keeps no *)
(* order within or across topics, and may lose a copy.                     *)

Broadcast(n, m, base) ==
  [p \in Nodes |->
     IF p = n THEN base[p]
     ELSE [base[p] EXCEPT ![m] = Older(@, MaxCopies)]]

Consume(n, m) == [net EXCEPT ![n][m] = @ - 1]

Arrived(n, m, type) == m.type = type /\ net[n][m] > 0

-----------------------------------------------------------------------------
(* MatchStateManager: what each handler does to a client's own map mm.     *)

Listed(mm, id) == mm[id] # None

Without(mm, ids) == [id \in MatchIds |-> IF id \in ids THEN None ELSE mm[id]]

(* (slip: an advert of a listed game does not refresh lastSeen)            *)
HandleAdvertise_NoRefresh(mm, id) ==
  [mm EXCEPT ![id] = IF @ = None THEN NewMatch ELSE @]

HandleAdvertise(mm, id) ==
  [mm EXCEPT ![id] = IF @ = None THEN NewMatch
                                 ELSE [@ EXCEPT !.seenAge = 0]]

(* (slip: the test for a known claimant is inverted)                       *)
NewClaim_Inverted(mm, id, user) == Listed(mm, id) /\ In(user, mm[id].claimsSeen)

NewClaim(mm, id, user) == Listed(mm, id) /\ ~In(user, mm[id].claimsSeen)

(* (slip: the message is pushed, not its user)                             *)
HandleClaim_PushesMessage(mm, id, user) ==
  IF NewClaim(mm, id, user)
  THEN [mm EXCEPT ![id] = WithClaim(@, ClaimMsg(id, user))]
  ELSE mm

HandleClaim(mm, id, user) ==
  IF NewClaim(mm, id, user)
  THEN [mm EXCEPT ![id] = WithClaim(@, user)]
  ELSE mm

NewAck(mm, id, user) == Listed(mm, id) /\ ~In(user, mm[id].acksSeen)

HandleAck(mm, id, user) ==
  [mm EXCEPT ![id] = WithAck(@, user)]

(* (slip: the filled game is not removed)                                  *)
Closed_KeepsGame(mm, id, user) == HandleAck(mm, id, user)

(* What an ack leaves: the game it fills, whoever it names, is removed.    *)
Closed(mm, id, user) == Without(HandleAck(mm, id, user), {id})

-----------------------------------------------------------------------------
(* MatchAgent: the pieces its handlers share.  mm and base are the map and *)
(* the network as the calling handler leaves them so far; gone are the     *)
(* entries the caller removes after the call returns.                      *)

(* (slips: a field is not reset)                                           *)
ClearState_KeepsTarget(n) ==
  /\ state' = [state EXCEPT ![n] = "IDLE"]
  /\ matchId' = [matchId EXCEPT ![n] = None]
  /\ UNCHANGED targetMatch

ClearState_StaysBusy(n) == UNCHANGED <<state, matchId, targetMatch>>

ClearState(n) ==
  /\ state' = [state EXCEPT ![n] = "IDLE"]
  /\ matchId' = [matchId EXCEPT ![n] = None]
  /\ targetMatch' = [targetMatch EXCEPT ![n] = None]

(* A host accepts the first claim on its game.  The ack is published       *)
(* twice: handling it locally raises an update event while the agent is    *)
(* still serving, which acks the same claim again before the state clears. *)
AcceptClaim(n, id, mm, base, gone) ==
  LET first == Head(mm[id].claimsSeen)
      ack == AckMsg(id, first)
  IN /\ net' = Broadcast(n, ack, Broadcast(n, ack, base))
     /\ matchMap' = [matchMap EXCEPT ![n] = Without(mm, gone \cup {id})]
     /\ filled' = [filled EXCEPT ![Pairing(id, first)] = @ + 1]
     /\ ClearState(n)

(* (slip: re-advertising a listed game raises no update event)             *)
Claimed_NotLooked(mm, id) == FALSE

Claimed(mm, id) == mm[id].claimsSeen # <<>>

(* (slip: the search does not skip the agent's own games)                  *)
Joinable_OwnToo(n, wish, mm) ==
  {id \in MatchIds : /\ Listed(mm, id)
                     /\ In(id.match, wish)
                     /\ mm[id].acksSeen = <<>>}

(* The games startMatch may pick from; it tries them in random order.      *)
Joinable(n, wish, mm) ==
  {id \in MatchIds : /\ Listed(mm, id)
                     /\ In(id.match, wish)
                     /\ id.advertiser # n
                     /\ mm[id].acksSeen = <<>>}

JoinGame(n, wish, id, mm, base, gone) ==
  /\ state' = [state EXCEPT ![n] = "JOINING_WAITING_ACK"]
  /\ matchId' = [matchId EXCEPT ![n] = id]
  /\ targetMatch' = [targetMatch EXCEPT ![n] = wish]
  /\ net' = Broadcast(n, ClaimMsg(id, n), base)
  /\ matchMap' = [matchMap EXCEPT ![n] = Without(HandleClaim(mm, id, n), gone)]
  /\ claimed' = claimed \cup {Pairing(id, n)}
  /\ UNCHANGED filled

ServeGame(n, wish, own, mm, base, gone) ==
  /\ state' = [state EXCEPT ![n] = "SERVING_WAITING_CLAIMS"]
  /\ matchId' = [matchId EXCEPT ![n] = own]
  /\ targetMatch' = [targetMatch EXCEPT ![n] = wish]
  /\ net' = base
  /\ matchMap' = [matchMap EXCEPT ![n] = Without(mm, gone)]
  /\ UNCHANGED <<claimed, filled>>

(* startMatch: claim a listed game, else advertise the first game wished   *)
(* for.  Claims that an older advert of that game collected are still in   *)
(* the map, and the first of them is accepted at once.                     *)
StartMatch(n, wish, mm, base, gone) ==
  LET open == Joinable(n, wish, mm)
      own == getMatchID(n, Head(wish))
      listed == HandleAdvertise(mm, own)
      sent == Broadcast(n, AdvertiseMsg(own), base)
  IN /\ actionAge' = [actionAge EXCEPT ![n] = 0]
     /\ UNCHANGED joined
     /\ \/ \E id \in open : JoinGame(n, wish, id, mm, base, gone)
        \/ /\ open = {}
           /\ ~Claimed(listed, own)
           /\ ServeGame(n, wish, own, listed, sent, gone)
        \/ /\ open = {}
           /\ Claimed(listed, own)
           /\ AcceptClaim(n, own, listed, sent, gone)
           /\ UNCHANGED claimed

-----------------------------------------------------------------------------
(* The user's calls: RoundTable.findMatch and RoundTable.stopMatch.        *)

FindMatch(n, wish) ==
  /\ state[n] = "IDLE"
  /\ StartMatch(n, wish, matchMap[n], net, {})
  /\ searches' = [searches EXCEPT ![n] = @ + 1]

StopServing(n) ==
  /\ state[n] = "SERVING_WAITING_CLAIMS"
  /\ net' = Broadcast(n, UnadvertiseMsg(matchId[n]), net)
  /\ matchMap' = [matchMap EXCEPT ![n] = Without(@, {matchId[n]})]

StopJoining(n) ==
  /\ state[n] = "JOINING_WAITING_ACK"
  /\ UNCHANGED <<net, matchMap>>

(* The callback is called before the state is cleared, and not guarded: if *)
(* it throws, stopMatch ends there and the agent still searches.           *)
StopMatch(n, outcome) ==
  /\ StopServing(n) \/ StopJoining(n)
  /\ IF outcome = "throws" THEN UNCHANGED <<state, matchId, targetMatch>>
                           ELSE ClearState(n)
  /\ UNCHANGED <<actionAge, historyVars>>

-----------------------------------------------------------------------------
(* Messages from the four topics.                                          *)

(* The update event this raises changes nothing: the advert is another     *)
(* client's, so the agent does not serve it, and it carries no ack.        *)
ReceiveAdvertise(n, m) ==
  /\ Arrived(n, m, "advertise")
  /\ net' = Consume(n, m)
  /\ matchMap' = [matchMap EXCEPT ![n] = HandleAdvertise(@, m.matchId)]
  /\ UNCHANGED <<agentVars, historyVars>>

ReceiveUnadvertise(n, m) ==
  /\ Arrived(n, m, "unadvertise")
  /\ net' = Consume(n, m)
  /\ matchMap' = [matchMap EXCEPT ![n] = Without(@, {m.matchId})]
  /\ UNCHANGED <<agentVars, historyVars>>

Serves(n, id) == state[n] = "SERVING_WAITING_CLAIMS" /\ matchId[n] = id
Awaits(n, id) == state[n] = "JOINING_WAITING_ACK" /\ matchId[n] = id

(* (slip: any ack of the awaited game counts as one's own)                 *)
Won_AnyAck(n, mm, id) == Awaits(n, id)

(* A joiner heeds the first ack it has seen of the game it waits for.      *)
Won(n, mm, id) == Awaits(n, id) /\ Head(mm[id].acksSeen) = n
Lost(n, mm, id) == Awaits(n, id) /\ Head(mm[id].acksSeen) # n

(* A claim is recorded whether or not the client hosts the game; only a    *)
(* host that serves it now answers.                                        *)
ReceiveClaim(n, m) ==
  LET id == m.matchId
      mm == HandleClaim(matchMap[n], id, m.user)
  IN /\ Arrived(n, m, "claim")
     /\ UNCHANGED <<actionAge, claimed, joined, searches>>
     /\ \/ /\ NewClaim(matchMap[n], id, m.user)
           /\ Serves(n, id)
           /\ AcceptClaim(n, id, mm, Consume(n, m), {})
        \/ /\ ~(NewClaim(matchMap[n], id, m.user) /\ Serves(n, id))
           /\ net' = Consume(n, m)
           /\ matchMap' = [matchMap EXCEPT ![n] = mm]
           /\ UNCHANGED <<state, matchId, targetMatch, filled>>

(* An ack for a listed game: the claimant it names is matched, another     *)
(* claimant starts over, and in every case the game leaves the map.        *)
ReceiveAck(n, m) ==
  LET id == m.matchId
      mm == HandleAck(matchMap[n], id, m.user)
      seen == NewAck(matchMap[n], id, m.user)
  IN /\ Arrived(n, m, "ack")
     /\ \/ /\ seen /\ Won(n, mm, id)
           /\ net' = Consume(n, m)
           /\ matchMap' = [matchMap EXCEPT ![n] = Closed(@, id, m.user)]
           /\ joined' = [joined EXCEPT ![Pairing(id, n)] = @ + 1]
           /\ ClearState(n)
           /\ UNCHANGED <<actionAge, claimed, filled, searches>>
        \/ /\ seen /\ Lost(n, mm, id)
           /\ StartMatch(n, targetMatch[n], mm, Consume(n, m), {id})
           /\ UNCHANGED searches
        \/ /\ seen /\ ~Awaits(n, id)
           /\ net' = Consume(n, m)
           /\ matchMap' = [matchMap EXCEPT ![n] = Closed(@, id, m.user)]
           /\ UNCHANGED <<agentVars, historyVars>>
        \/ /\ ~seen
           /\ net' = Consume(n, m)
           /\ UNCHANGED <<matchMap, agentVars, historyVars>>

-----------------------------------------------------------------------------
(* The two intervals of MatchManager: poll and checkTimeouts.              *)

(* (slip: a joiner that gets no answer waits on)                           *)
ClaimLapsed_NoTimeout(n) ==
  LET id == matchId[n]
      mm == matchMap[n]
  IN \/ ~Listed(mm, id)
     \/ Listed(mm, id) /\ mm[id].acksSeen # <<>> /\ Head(mm[id].acksSeen) # n

(* Why a joiner gives up on its claim.                                     *)
ClaimLapsed(n) ==
  LET id == matchId[n]
      mm == matchMap[n]
  IN \/ ~Listed(mm, id)
     \/ Listed(mm, id) /\ mm[id].acksSeen # <<>> /\ Head(mm[id].acksSeen) # n
     \/ /\ Listed(mm, id) /\ mm[id].acksSeen = <<>>
        /\ actionAge[n] > CLAIM_ACK_TIMEOUT

AdvertLapsed(n) == actionAge[n] > SERVING_REBROADCAST_TIMEOUT

Overdue(n) ==
  \/ state[n] = "SERVING_WAITING_CLAIMS" /\ AdvertLapsed(n)
  \/ state[n] = "JOINING_WAITING_ACK" /\ ClaimLapsed(n)

(* restartMatch is startMatch with the same target; a host that finds a    *)
(* game to join drops its own without unadvertising it.                    *)
Poll(n) ==
  /\ Overdue(n)
  /\ StartMatch(n, targetMatch[n], matchMap[n], net, {})
  /\ UNCHANGED searches

(* (slip: a game somebody has claimed is spared)                           *)
Stale_SparesClaimed(mm) ==
  {id \in MatchIds : /\ Listed(mm, id)
                     /\ mm[id].seenAge > ADVERTISE_TIMEOUT
                     /\ mm[id].claimsSeen = <<>>}

Stale(mm) == {id \in MatchIds : Listed(mm, id)
                                /\ mm[id].seenAge > ADVERTISE_TIMEOUT}

CheckTimeouts(n) ==
  /\ Stale(matchMap[n]) # {}
  /\ matchMap' = [matchMap EXCEPT ![n] = Without(@, Stale(@))]
  /\ UNCHANGED <<agentVars, net, historyVars>>

-----------------------------------------------------------------------------
(* The environment: time, loss, and a page that is reloaded.               *)

Tick ==
  /\ matchMap' =
       [n \in Nodes |-> [id \in MatchIds |->
          IF Listed(matchMap[n], id)
          THEN [matchMap[n][id] EXCEPT !.seenAge = Older(@, SeenLimit)]
          ELSE None]]
  /\ actionAge' = [n \in Nodes |-> Older(actionAge[n], ActionLimit)]
  /\ UNCHANGED <<state, matchId, targetMatch, net, historyVars>>

Lose(n, m) ==
  /\ net[n][m] > 0
  /\ net' = Consume(n, m)
  /\ UNCHANGED <<matchMap, agentVars, historyVars>>

EmptyMap == [id \in MatchIds |-> None]

(* Nothing is stored: a reloaded client starts from an empty map.          *)
Reload(n) ==
  /\ matchMap' = [matchMap EXCEPT ![n] = EmptyMap]
  /\ ClearState(n)
  /\ actionAge' = [actionAge EXCEPT ![n] = ActionLimit]
  /\ UNCHANGED <<net, historyVars>>

-----------------------------------------------------------------------------

Init ==
  /\ matchMap = [n \in Nodes |-> EmptyMap]
  /\ state = [n \in Nodes |-> "IDLE"]
  /\ matchId = [n \in Nodes |-> None]
  /\ targetMatch = [n \in Nodes |-> None]
  /\ actionAge = [n \in Nodes |-> ActionLimit]
  /\ net = [n \in Nodes |-> [m \in Message |-> 0]]
  /\ claimed = {}
  /\ filled = [p \in Pairings |-> 0]
  /\ joined = [p \in Pairings |-> 0]
  /\ searches = [n \in Nodes |-> 0]

Receive(n, m) ==
  \/ ReceiveAdvertise(n, m)
  \/ ReceiveUnadvertise(n, m)
  \/ ReceiveClaim(n, m)
  \/ ReceiveAck(n, m)

UserStep(n) ==
  \/ \E wish \in Wishes : FindMatch(n, wish)
  \/ \E outcome \in CallbackOutcomes : StopMatch(n, outcome)

ClientStep(n) ==
  \/ UserStep(n)
  \/ \E m \in Message : Receive(n, m)
  \/ Poll(n)
  \/ CheckTimeouts(n)

Next ==
  \/ \E n \in Nodes : ClientStep(n)
  \/ \E n \in Nodes, m \in Message : Lose(n, m)
  \/ \E n \in Nodes : Reload(n)
  \/ Tick

Spec == Init /\ [][Next]_vars

(* Intervals keep firing, a copy in flight arrives or is lost, time        *)
(* passes.  Users promise nothing.                                         *)
Fairness ==
  /\ \A n \in Nodes : WF_vars(Poll(n)) /\ WF_vars(CheckTimeouts(n))
  /\ \A n \in Nodes, m \in Message : WF_vars(Receive(n, m) \/ Lose(n, m))
  /\ WF_vars(Tick)

FairSpec == Spec /\ Fairness

-----------------------------------------------------------------------------
(* Properties *)

(* What the protocol promises its users: see Pairing.                      *)
Matches == INSTANCE Pairing WITH
             searching <- {n \in Nodes : state[n] # "IDLE"}
ImplementsPairing == Matches!Spec

(* Type invariant.                                                         *)
TypeOK ==
  /\ matchMap \in [Nodes -> [MatchIds -> MatchState \cup {None}]]
  /\ state \in [Nodes -> AgentStates]
  /\ matchId \in [Nodes -> MatchIds \cup {None}]
  /\ targetMatch \in [Nodes -> Wishes \cup {None}]
  /\ actionAge \in [Nodes -> 0..ActionLimit]
  /\ net \in [Nodes -> [Message -> 0..MaxCopies]]
  /\ claimed \subseteq Pairings
  /\ filled \in [Pairings -> Nat]
  /\ joined \in [Pairings -> Nat]
  /\ searches \in [Nodes -> Nat]

(* An idle agent remembers nothing of its last search, a host serves the   *)
(* first game it asked for under its own key, a joiner waits for another   *)
(* client's game that it asked for (startMatch, clearState).               *)
AgentConsistent ==
  \A n \in Nodes :
    /\ state[n] = "IDLE" <=> matchId[n] = None
    /\ state[n] = "IDLE" <=> targetMatch[n] = None
    /\ state[n] = "SERVING_WAITING_CLAIMS" =>
         matchId[n] = getMatchID(n, Head(targetMatch[n]))
    /\ state[n] = "JOINING_WAITING_ACK" =>
         matchId[n].advertiser # n /\ In(matchId[n].match, targetMatch[n])

(* No game that was acked is ever found in a map: the ack that fills it    *)
(* also removes it, whatever its update event led to (handleAckMessage).   *)
NoAckedGame ==
  \A n \in Nodes, id \in MatchIds :
    Listed(matchMap[n], id) => matchMap[n][id].acksSeen = <<>>

(* A host never sits on a claim: while it serves a game, no claim on it is *)
(* left unanswered in its own map, also when the claim came in before the  *)
(* host (re)started to serve (startMatch, handleMatchStateUpdate).         *)
HostAnswersClaims ==
  \A n \in Nodes :
    state[n] = "SERVING_WAITING_CLAIMS" /\ Listed(matchMap[n], matchId[n])
      => matchMap[n][matchId[n]].claimsSeen = <<>>

(* A host only ever accepts a client other than itself that really claimed *)
(* this game from it, at some time.                                        *)
AcceptsOnlyClaimants ==
  /\ \A p \in Pairings : filled[p] > 0 => p \in claimed
  /\ \A p \in claimed : p.matchId.advertiser # p.user

(* A client is told it joined a game only if that game's host was told     *)
(* that it was filled by this client.                                      *)
JoinedOnlyIfAccepted ==
  \A p \in Pairings : joined[p] > 0 => filled[p] > 0

(* A call of findMatch is answered by at most one match, whatever mix of   *)
(* claims, acks and restarts it went through (matchCallback, clearState).  *)
OneMatchPerSearch == Matches!OneMatchPerSearch

(* Every claim on record or in flight was published by its user, and every *)
(* ack in flight by a host that reported the match.                        *)
MessagesAreReal ==
  /\ \A n \in Nodes, id \in MatchIds :
       Listed(matchMap[n], id) =>
         \A i \in DOMAIN matchMap[n][id].claimsSeen :
           Pairing(id, matchMap[n][id].claimsSeen[i]) \in claimed
  /\ \A n \in Nodes, id \in MatchIds, user \in Nodes :
       /\ net[n][ClaimMsg(id, user)] > 0 => Pairing(id, user) \in claimed
       /\ net[n][AckMsg(id, user)] > 0 => filled[Pairing(id, user)] > 0

(* The inductive invariant: what the safety properties above rest on.      *)
IInv ==
  /\ TypeOK
  /\ AgentConsistent
  /\ NoAckedGame
  /\ HostAnswersClaims
  /\ MessagesAreReal
  /\ AcceptsOnlyClaimants
  /\ JoinedOnlyIfAccepted

(* A game nobody serves any more disappears from every map.                *)
AbandonedGamesDrain ==
  \A n \in Nodes :
    <>[](state[n] = "IDLE") =>
      <>[](\A p \in Nodes, id \in MatchIds :
             id.advertiser = n => ~Listed(matchMap[p], id))

(* No agent waits forever for the answer to one claim or to one advert.    *)
NeverHangs ==
  \A n \in Nodes : []<>(state[n] = "IDLE" \/ actionAge[n] = 0)

=============================================================================
