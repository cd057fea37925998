---------------------------- MODULE PromptProofs ----------------------------
(***************************************************************************)
(* The matching protocol on its good days, for every set of clients, games *)
(* and wishes.  Two relations between the timeouts carry the proofs, and   *)
(* the code's 15, 10 and 5 seconds satisfy both, the second with nothing   *)
(* to spare: an advert is renewed before it expires, and it expires before *)
(* a client gives up that claimed the game when its host had left it.      *)
(***************************************************************************)
EXTENDS MatcherPrompt, MatcherProofs

(* What the proofs assume: user code does not throw out of stopMatch.      *)
Renews ==
  /\ "throws" \notin CallbackOutcomes
  /\ SERVING_REBROADCAST_TIMEOUT < ADVERTISE_TIMEOUT

Outlasts ==
  ADVERTISE_TIMEOUT <= SERVING_REBROADCAST_TIMEOUT + CLAIM_ACK_TIMEOUT

(* Nobody but its host speaks for a game, except to claim it.              *)
Silent(base) ==
  \A n \in Nodes, m \in Message :
    m.type # "claim" /\ m.matchId.advertiser = n => base[n][m] = 0

(* Claims in flight are those of clients F.                                *)
ClaimsBy(base, F) ==
  \A p, u \in Nodes, id \in MatchIds : base[p][ClaimMsg(id, u)] > 0 => u \in F

(* An ack finds a client whose wait for it has not lapsed.                 *)
InTime(u, id) == Outlasts /\ Awaits(u, id) => actionAge[u] <= CLAIM_ACK_TIMEOUT

AcksInTime(base) ==
  \A u \in Nodes, id \in MatchIds : base[u][AckMsg(id, u)] > 0 => InTime(u, id)

Traffic(base, F) ==
  base \in Nets /\ Silent(base) /\ ClaimsBy(base, F) /\ AcksInTime(base)

(* The clients whose last action was in the current unit of time.          *)
Fresh == {n \in Nodes : actionAge[n] = 0}

(* A host lists the game it serves, and last advertised it when it last    *)
(* acted.                                                                  *)
HostLists(st, mid, mm, age) ==
  st = "SERVING_WAITING_CLAIMS" =>
    /\ Listed(mm, mid)
    /\ mm[mid].seenAge = age
    /\ age <= SERVING_REBROADCAST_TIMEOUT + 1

(* A game a host left without withdrawing it: its advert is older than a   *)
(* host lets one get, and older by that much than any wait for an answer   *)
(* to a claim on it.                                                       *)
LeftGame(n, mm, id) ==
  /\ mm[id].seenAge > SERVING_REBROADCAST_TIMEOUT
  /\ \A u \in Nodes : In(u, mm[id].claimsSeen) /\ Awaits(u, id) =>
       actionAge[u] + SERVING_REBROADCAST_TIMEOUT < mm[id].seenAge

LeftGames(n, mm, st, mid) ==
  \A id \in MatchIds :
    /\ id.advertiser = n
    /\ Listed(mm, id)
    /\ ~(st = "SERVING_WAITING_CLAIMS" /\ mid = id)
    => LeftGame(n, mm, id)

PromptInv ==
  /\ LocalInv
  /\ Traffic(net, Fresh)
  /\ \A n \in Nodes :
       /\ HostLists(state[n], matchId[n], matchMap[n], actionAge[n])
       /\ LeftGames(n, matchMap[n], state[n], matchId[n])

-----------------------------------------------------------------------------
(* The network.                                                            *)

(* A count that is capped after it was raised was not lowered.             *)
LEMMA OlderGrows ==
  ASSUME NEW i \in 0..MaxCopies
  PROVE  Older(i, MaxCopies) >= i /\ Older(i, MaxCopies) > 0
BY MatcherAssumption DEF Older

(* What a message in flight may be and who may have sent it.               *)
LEMMA BroadcastTraffic ==
  ASSUME NEW base, NEW F, Traffic(base, F), NEW n \in Nodes, NEW m \in Message,
         m.type # "claim" => m.matchId.advertiser = n,
         \A id \in MatchIds, u \in Nodes :
           /\ m = ClaimMsg(id, u) => u \in F
           /\ m = AckMsg(id, u) => InTime(u, id)
  PROVE  Traffic(Broadcast(n, m, base), F)
<1> DEFINE out == Broadcast(n, m, base)
<1>1. /\ out \in Nets
      /\ \A p \in Nodes : \A k \in Message \ {m} : out[p][k] = base[p][k]
      /\ out[n] = base[n]
  <2>1. base \in Nets
    BY DEF Traffic
  <2>2. out[n] = base[n]
    BY DEF Broadcast
  <2> QED BY <2>1, <2>2, BroadcastNet
<1> HIDE DEF out
<1>2. Silent(out)
  BY <1>1 DEF Traffic, Silent
<1>3. ClaimsBy(out, F)
  BY <1>1, MessageKinds DEF Traffic, ClaimsBy
<1>4. AcksInTime(out)
  BY <1>1, MessageKinds DEF Traffic, AcksInTime
<1>5. Traffic(out, F)
  BY <1>1, <1>2, <1>3, <1>4 DEF Traffic
<1> QED BY <1>5 DEF out

(* Taking a message off the network leaves the promises about the rest.    *)
LEMMA ConsumeTraffic ==
  ASSUME NEW F, Traffic(net, F), NEW n \in Nodes, NEW m \in Message,
         net[n][m] > 0
  PROVE  Traffic(Consume(n, m), F)
<1>1. net[n][m] \in 1..MaxCopies
  BY MatcherAssumption DEF Traffic, Nets
<1>2. Consume(n, m) \in Nets
  BY <1>1, MatcherAssumption DEF Traffic, Nets, Consume
<1>3. /\ Consume(n, m)[n][m] < net[n][m]
      /\ \A p \in Nodes, k \in Message :
           p # n \/ k # m => Consume(n, m)[p][k] = net[p][k]
  BY <1>1, MatcherAssumption DEF Traffic, Nets, Consume
<1>4. Silent(Consume(n, m))
  BY <1>1, <1>3 DEF Traffic, Silent
<1>5. ClaimsBy(Consume(n, m), F) /\ AcksInTime(Consume(n, m))
  BY <1>1, <1>3, MessageKinds DEF Traffic, ClaimsBy, AcksInTime
<1> QED BY <1>2, <1>4, <1>5 DEF Traffic

-----------------------------------------------------------------------------
(* Steps.                                                                  *)

(* A step of client k: k's own map and agent are sound when it is over,    *)
(* and k goes idle, acts anew or leaves its agent alone.                   *)
LEMMA OnePromptStep ==
  ASSUME PromptInv, LocalInv', NEW k \in Nodes,
         NEW mm, NEW st, NEW mid, NEW age \in {0, actionAge[k]},
         matchMap' = [matchMap EXCEPT ![k] = mm],
         state' = [state EXCEPT ![k] = st],
         matchId' = [matchId EXCEPT ![k] = mid],
         actionAge' = [actionAge EXCEPT ![k] = age],
         \/ age = 0
         \/ st = "IDLE"
         \/ st = state[k] /\ mid = matchId[k],
         HostLists(st, mid, mm, age),
         LeftGames(k, mm, st, mid),
         NEW F, Traffic(net', F),
         F \subseteq Fresh \/ (age = 0 /\ F \subseteq Fresh \cup {k})
  PROVE  PromptInv'
<1>1. /\ matchMap \in [Nodes -> Maps] /\ state \in [Nodes -> AgentStates]
      /\ matchId \in [Nodes -> MatchIds \cup {None}]
      /\ actionAge \in [Nodes -> 0..ActionLimit]
  BY DEF PromptInv, LocalInv, Functions
<1>2. /\ matchMap'[k] = mm /\ state'[k] = st /\ matchId'[k] = mid
      /\ actionAge'[k] = age
      /\ \A n \in Nodes \ {k} :
           /\ matchMap'[n] = matchMap[n] /\ state'[n] = state[n]
           /\ matchId'[n] = matchId[n] /\ actionAge'[n] = actionAge[n]
  BY <1>1
<1>3. ASSUME NEW u \in Nodes, NEW id \in MatchIds, Awaits(u, id)'
      PROVE  \/ u = k /\ age = 0
             \/ Awaits(u, id) /\ actionAge'[u] = actionAge[u]
  <2>1. CASE u = k
    BY <1>2, <1>3, <2>1 DEF Awaits
  <2>2. CASE u # k
    BY <1>2, <1>3, <2>2 DEF Awaits
  <2> QED BY <2>1, <2>2
<1>4. Traffic(net, Fresh)'
  <2>1. F \subseteq Fresh'
    BY <1>1, <1>2 DEF Fresh
  <2>2. AcksInTime(net)'
    <3> SUFFICES ASSUME NEW u \in Nodes, NEW id \in MatchIds,
                        net'[u][AckMsg(id, u)] > 0, Outlasts, Awaits(u, id)'
                 PROVE  actionAge'[u] <= CLAIM_ACK_TIMEOUT
      BY DEF AcksInTime, InTime, Outlasts
    <3>1. InTime(u, id)
      BY DEF Traffic, AcksInTime
    <3> QED BY <1>2, <1>3, <3>1, MatcherAssumption DEF InTime
  <2>3. (net \in Nets)' /\ Silent(net)' /\ ClaimsBy(net, F)'
    BY DEF Traffic, Nets, Silent, ClaimsBy
  <2>4. ClaimsBy(net, Fresh)'
    BY <2>1, <2>3 DEF ClaimsBy
  <2> QED BY <2>2, <2>3, <2>4 DEF Traffic
<1>5. ASSUME NEW n \in Nodes
      PROVE  HostLists(state[n], matchId[n], matchMap[n], actionAge[n])'
  <2>1. CASE n = k
    BY <1>2, <2>1 DEF HostLists
  <2>2. CASE n # k
    BY <1>2, <2>2 DEF PromptInv, HostLists
  <2> QED BY <2>1, <2>2
<1>6. ASSUME NEW n \in Nodes
      PROVE  LeftGames(n, matchMap[n], state[n], matchId[n])'
  <2> SUFFICES ASSUME NEW id \in MatchIds, id.advertiser = n,
                      Listed(matchMap'[n], id),
                      ~(state'[n] = "SERVING_WAITING_CLAIMS" /\ matchId'[n] = id)
               PROVE  LeftGame(n, matchMap[n], id)'
    BY DEF LeftGames, Listed
  <2>1. LeftGame(n, matchMap'[n], id)
    <3>1. CASE n = k
      BY <1>2, <3>1 DEF LeftGames
    <3>2. CASE n # k
      BY <1>2, <3>2 DEF PromptInv, LeftGames
    <3> QED BY <3>1, <3>2
  <2>2. matchMap'[n][id].seenAge \in Nat
    <3>1. matchMap'[n] \in Maps
      BY DEF LocalInv, Functions
    <3>2. matchMap'[n][id] \in MatchState
      BY <3>1 DEF Maps, Listed
    <3> QED BY <3>2, MatcherAssumption DEF MatchState, SeenLimit
  <2> SUFFICES ASSUME NEW u \in Nodes, In(u, matchMap'[n][id].claimsSeen),
                      Awaits(u, id)'
               PROVE  actionAge'[u] + SERVING_REBROADCAST_TIMEOUT
                        < matchMap'[n][id].seenAge
    BY <2>1 DEF LeftGame, In
  <2>3. CASE u = k /\ age = 0
    BY <1>2, <2>1, <2>2, <2>3, MatcherAssumption DEF LeftGame
  <2>4. CASE Awaits(u, id) /\ actionAge'[u] = actionAge[u]
    BY <2>1, <2>4 DEF LeftGame
  <2> QED BY <1>3, <2>3, <2>4
<1> QED BY <1>4, <1>5, <1>6 DEF PromptInv

(* What an advert leaves of the game it is about, and of the others.       *)
LEMMA AdvertiseEntry ==
  ASSUME NEW mm \in Maps, NEW id \in MatchIds
  PROVE  /\ HandleAdvertise(mm, id)[id] \in MatchState
         /\ HandleAdvertise(mm, id)[id].seenAge = 0
         /\ HandleAdvertise(mm, id)[id].claimsSeen =
              IF Listed(mm, id) THEN mm[id].claimsSeen ELSE <<>>
         /\ HandleAdvertise(mm, id)[id].acksSeen =
              IF Listed(mm, id) THEN mm[id].acksSeen ELSE <<>>
         /\ \A other \in MatchIds \ {id} :
              HandleAdvertise(mm, id)[other] = mm[other]
<1>1. HandleAdvertise(mm, id)[id]
        = IF Listed(mm, id) THEN [mm[id] EXCEPT !.seenAge = 0] ELSE NewMatch
  BY DEF HandleAdvertise, Maps, Listed
<1>2. \A other \in MatchIds \ {id} : HandleAdvertise(mm, id)[other] = mm[other]
  BY DEF HandleAdvertise, Maps
<1>3. CASE Listed(mm, id)
  <2>1. mm[id] \in MatchState
    BY <1>3 DEF Maps, Listed
  <2> QED BY <1>1, <1>2, <1>3, <2>1, MatcherAssumption DEF MatchState, SeenLimit
<1>4. CASE ~Listed(mm, id)
  <2>1. NewMatch.seenAge = 0 /\ NewMatch.claimsSeen = <<>> /\ NewMatch.acksSeen = <<>>
    BY DEF NewMatch
  <2> QED BY <1>1, <1>2, <1>4, <2>1, NewMatchType
<1> QED BY <1>3, <1>4

(* A client that is about to start over, if it serves because its advert   *)
(* lapsed, has left every game of its own that it lists.                   *)
LEMMA OwnGamesLeft ==
  ASSUME PromptInv, NEW k \in Nodes,
         state[k] = "SERVING_WAITING_CLAIMS" => AdvertLapsed(k),
         NEW id \in MatchIds, id.advertiser = k, Listed(matchMap[k], id)
  PROVE  LeftGame(k, matchMap[k], id)
<1>1. CASE Serves(k, id)
  <2>1. matchMap[k][id].seenAge = actionAge[k] /\ AdvertLapsed(k)
    BY <1>1 DEF PromptInv, HostLists, Serves
  <2>2. matchMap[k][id].claimsSeen = <<>>
    BY <1>1, ClientParts DEF PromptInv, HostInv, Serves
  <2>3. \A u \in Nodes : ~In(u, matchMap[k][id].claimsSeen)
    BY <2>2 DEF In
  <2> QED BY <2>1, <2>3 DEF LeftGame, AdvertLapsed
<1>2. CASE ~Serves(k, id)
  BY <1>2 DEF PromptInv, LeftGames, Serves
<1> QED BY <1>1, <1>2

(* startMatch, whoever calls it.                                           *)
LEMMA StartPrompt ==
  ASSUME PromptInv, LocalInv', NEW k \in Nodes, NEW wish \in Wishes,
         NEW mm \in Maps, NEW base, NEW gone \in SUBSET MatchIds,
         Traffic(base, Fresh),
         \A id \in gone : id.advertiser # k,
         \A id \in MatchIds : id.advertiser = k => mm[id] = matchMap[k][id],
         state[k] = "SERVING_WAITING_CLAIMS" => AdvertLapsed(k),
         StartMatch(k, wish, mm, base, gone)
  PROVE  PromptInv'
<1> DEFINE own == getMatchID(k, Head(wish))
           listed == HandleAdvertise(mm, own)
           sent == Broadcast(k, AdvertiseMsg(own), base)
<1>1. own \in MatchIds /\ own.advertiser = k
  <2>1. Head(wish) \in Games
    BY MatcherAssumption
  <2> QED BY <2>1 DEF getMatchID, MatchIds
<1>2. actionAge' = [actionAge EXCEPT ![k] = 0]
  BY DEF StartMatch
<1>3. Traffic(base, Fresh \cup {k})
  BY DEF Traffic, ClaimsBy
<1>4. ASSUME NEW id \in MatchIds, id.advertiser = k, Listed(mm, id),
             NEW mm2, mm2[id] = mm[id]
      PROVE  LeftGame(k, mm2, id)
  <2>1. LeftGame(k, matchMap[k], id)
    BY <1>4, OwnGamesLeft DEF Listed
  <2> QED BY <1>4, <2>1 DEF LeftGame
<1>5. ASSUME NEW id \in Joinable(k, wish, mm), JoinGame(k, wish, id, mm, base, gone)
      PROVE  PromptInv'
  <2> DEFINE mm2 == Without(HandleClaim(mm, id, k), gone)
  <2>1. id \in MatchIds /\ id.advertiser # k
    BY DEF Joinable
  <2>2. \A e \in MatchIds \ {id} : HandleClaim(mm, id, k)[e] = mm[e]
    BY DEF HandleClaim
  <2>3. LeftGames(k, mm2, "JOINING_WAITING_ACK", id)
    <3> SUFFICES ASSUME NEW e \in MatchIds, e.advertiser = k, Listed(mm2, e)
                 PROVE  LeftGame(k, mm2, e)
      BY DEF LeftGames
    <3>1. mm2[e] = mm[e] /\ Listed(mm, e)
      BY <2>1, <2>2 DEF Without, Listed
    <3> QED BY <1>4, <3>1
  <2>4. Traffic(Broadcast(k, ClaimMsg(id, k), base), Fresh \cup {k})
    <3>1. ClaimMsg(id, k) \in Message /\ ClaimMsg(id, k).type = "claim"
      BY <2>1, MessageKinds DEF ClaimMsg
    <3>2. \A e \in MatchIds, u \in Nodes :
            /\ ClaimMsg(id, k) = ClaimMsg(e, u) => u = k
            /\ ClaimMsg(id, k) # AckMsg(e, u)
      BY DEF ClaimMsg, AckMsg
    <3> QED BY <1>3, <3>1, <3>2, BroadcastTraffic
  <2>5. /\ matchMap' = [matchMap EXCEPT ![k] = mm2]
        /\ state' = [state EXCEPT ![k] = "JOINING_WAITING_ACK"]
        /\ matchId' = [matchId EXCEPT ![k] = id]
        /\ net' = Broadcast(k, ClaimMsg(id, k), base)
    BY <1>5 DEF JoinGame
  <2>6. HostLists("JOINING_WAITING_ACK", id, mm2, 0)
    BY DEF HostLists
  <2> HIDE DEF mm2
  <2> QED BY <1>2, <2>3, <2>4, <2>5, <2>6, OnePromptStep
<1>6. /\ listed[own] \in MatchState
      /\ listed[own].seenAge = 0
      /\ listed[own].claimsSeen =
           IF Listed(mm, own) THEN mm[own].claimsSeen ELSE <<>>
      /\ \A e \in MatchIds \ {own} : listed[e] = mm[e]
  <2> HIDE DEF own
  <2> QED BY <1>1, AdvertiseEntry
<1>7. Traffic(sent, Fresh)
  <2>1. AdvertiseMsg(own) \in Message /\ AdvertiseMsg(own).matchId = own
    BY <1>1, MessageKinds DEF AdvertiseMsg
  <2>2. \A e \in MatchIds, u \in Nodes :
          AdvertiseMsg(own) # ClaimMsg(e, u) /\ AdvertiseMsg(own) # AckMsg(e, u)
    <3>1. AdvertiseMsg(own).type = "advertise"
      BY DEF AdvertiseMsg
    <3> QED BY <3>1 DEF ClaimMsg, AckMsg
  <2> HIDE DEF own
  <2> QED BY <1>1, <2>1, <2>2, BroadcastTraffic
<1>8. ASSUME NEW ids \in SUBSET MatchIds, NEW e \in MatchIds, e.advertiser = k,
             e # own, Listed(Without(listed, ids), e)
      PROVE  LeftGame(k, Without(listed, ids), e)
  <2>1. Without(listed, ids)[e] = mm[e] /\ Listed(mm, e)
    BY <1>6, <1>8 DEF Without, Listed
  <2> QED BY <1>4, <1>8, <2>1
<1>9. ASSUME ServeGame(k, wish, own, listed, sent, gone)
      PROVE  PromptInv'
  <2> DEFINE mm2 == Without(listed, gone)
  <2>1. mm2[own] = listed[own] /\ Listed(mm2, own)
    BY <1>1, <1>6, MatcherAssumption DEF Without, Listed
  <2>2. HostLists("SERVING_WAITING_CLAIMS", own, mm2, 0)
    BY <1>6, <2>1, MatcherAssumption DEF HostLists
  <2>3. LeftGames(k, mm2, "SERVING_WAITING_CLAIMS", own)
    BY <1>8 DEF LeftGames
  <2>4. /\ matchMap' = [matchMap EXCEPT ![k] = mm2]
        /\ state' = [state EXCEPT ![k] = "SERVING_WAITING_CLAIMS"]
        /\ matchId' = [matchId EXCEPT ![k] = own]
        /\ net' = sent
    BY <1>9 DEF ServeGame
  <2> HIDE DEF mm2, own, sent, listed
  <2> QED BY <1>2, <1>7, <2>2, <2>3, <2>4, OnePromptStep
<1>10. ASSUME Claimed(listed, own), AcceptClaim(k, own, listed, sent, gone)
       PROVE  PromptInv'
  <2> DEFINE first == Head(listed[own].claimsSeen)
             mm2 == Without(listed, gone \cup {own})
  <2>1. Listed(mm, own) /\ listed[own].claimsSeen = mm[own].claimsSeen
    BY <1>6, <1>10 DEF Claimed
  <2>2. first \in Nodes /\ In(first, mm[own].claimsSeen)
    <3>1. listed[own].claimsSeen \in Seq(Nodes) /\ listed[own].claimsSeen # <<>>
      BY <1>6, <1>10 DEF Claimed, MatchState
    <3>2. /\ 1 \in DOMAIN listed[own].claimsSeen
          /\ first = listed[own].claimsSeen[1] /\ first \in Nodes
      BY <3>1
    <3> QED BY <2>1, <3>2 DEF In
  <2>3. InTime(first, own)
    <3> SUFFICES ASSUME Outlasts, Awaits(first, own)
                 PROVE  actionAge[first] <= CLAIM_ACK_TIMEOUT
      BY DEF InTime
    <3>1. actionAge[first] + SERVING_REBROADCAST_TIMEOUT < mm[own].seenAge
      BY <1>1, <1>4, <2>1, <2>2 DEF LeftGame
    <3>2. mm[own].seenAge \in 0..(ADVERTISE_TIMEOUT + 1)
      BY <1>1, <2>1 DEF Maps, Listed, MatchState, SeenLimit
    <3>3. actionAge[first] \in Nat
      <4>1. actionAge \in [Nodes -> 0..ActionLimit]
        BY DEF PromptInv, LocalInv, Functions
      <4> QED BY <2>2, <4>1, ActionLimitType
    <3> DEFINE age == actionAge[first]
               seen == mm[own].seenAge
    <3>4. /\ age + SERVING_REBROADCAST_TIMEOUT < seen /\ age \in Nat
          /\ seen \in 0..(ADVERTISE_TIMEOUT + 1)
          /\ ADVERTISE_TIMEOUT \in Nat /\ SERVING_REBROADCAST_TIMEOUT \in Nat
          /\ CLAIM_ACK_TIMEOUT \in Nat
          /\ ADVERTISE_TIMEOUT <= SERVING_REBROADCAST_TIMEOUT + CLAIM_ACK_TIMEOUT
      BY <3>1, <3>2, <3>3, MatcherAssumption DEF Outlasts
    <3> HIDE DEF age, seen
    <3>5. age <= CLAIM_ACK_TIMEOUT
      BY <3>4
    <3> QED BY <3>5 DEF age
  <2>4. Traffic(Broadcast(k, AckMsg(own, first),
                  Broadcast(k, AckMsg(own, first), sent)), Fresh)
    <3> HIDE DEF own, first, sent
    <3>1. AckMsg(own, first) \in Message /\ AckMsg(own, first).matchId = own
      BY <1>1, <2>2, MessageKinds DEF AckMsg
    <3>2. \A e \in MatchIds, u \in Nodes :
            /\ AckMsg(own, first) = AckMsg(e, u) => e = own /\ u = first
            /\ AckMsg(own, first) # ClaimMsg(e, u)
      BY DEF ClaimMsg, AckMsg
    <3>3. ASSUME NEW from, Traffic(from, Fresh)
          PROVE  Traffic(Broadcast(k, AckMsg(own, first), from), Fresh)
      BY <1>1, <2>3, <3>1, <3>2, <3>3, BroadcastTraffic
    <3> QED BY <1>7, <3>3
  <2>5. LeftGames(k, mm2, "IDLE", None)
    <3>1. ~Listed(mm2, own)
      BY <1>1 DEF Without, Listed
    <3> QED BY <1>8, <3>1, <1>1 DEF LeftGames
  <2>6. /\ matchMap' = [matchMap EXCEPT ![k] = mm2]
        /\ state' = [state EXCEPT ![k] = "IDLE"]
        /\ matchId' = [matchId EXCEPT ![k] = None]
        /\ net' = Broadcast(k, AckMsg(own, first),
                    Broadcast(k, AckMsg(own, first), sent))
    BY <1>10 DEF AcceptClaim, ClearState
  <2>7. HostLists("IDLE", None, mm2, 0)
    BY DEF HostLists
  <2> HIDE DEF mm2, own, sent, listed, first
  <2> QED BY <1>2, <2>4, <2>5, <2>6, <2>7, OnePromptStep
<1> QED BY <1>5, <1>9, <1>10 DEF StartMatch

(* A host serves a game of its own.                                        *)
LEMMA OwnServed ==
  ASSUME LocalInv, NEW n \in Nodes, state[n] = "SERVING_WAITING_CLAIMS"
  PROVE  matchId[n] \in MatchIds /\ matchId[n].advertiser = n
<1>1. matchId[n] = getMatchID(n, Head(targetMatch[n]))
  BY ClientParts DEF AgentInv
<1>2. matchId[n] \in MatchIds
  BY ClientParts DEF AgentInv
<1> QED BY <1>1, <1>2 DEF getMatchID

(* A step that leaves k's agent alone: of its own games it may forget those*)
(* it does not serve.                                                      *)
LEMMA MapPromptStep ==
  ASSUME PromptInv, LocalInv', NEW k \in Nodes, NEW mm,
         matchMap' = [matchMap EXCEPT ![k] = mm], UNCHANGED agentVars,
         Traffic(net', Fresh),
         \A id \in MatchIds : id.advertiser = k =>
           /\ Listed(mm, id) => mm[id] = matchMap[k][id]
           /\ Serves(k, id) => Listed(mm, id)
  PROVE  PromptInv'
<1>1. /\ state' = [state EXCEPT ![k] = state[k]]
      /\ matchId' = [matchId EXCEPT ![k] = matchId[k]]
      /\ actionAge' = [actionAge EXCEPT ![k] = actionAge[k]]
  BY DEF PromptInv, LocalInv, Functions, agentVars
<1>2. HostLists(state[k], matchId[k], mm, actionAge[k])
  <2> SUFFICES ASSUME state[k] = "SERVING_WAITING_CLAIMS"
               PROVE  /\ Listed(mm, matchId[k])
                      /\ mm[matchId[k]] = matchMap[k][matchId[k]]
    BY DEF PromptInv, HostLists
  <2>1. matchId[k] \in MatchIds /\ matchId[k].advertiser = k
    BY OwnServed DEF PromptInv
  <2> QED BY <2>1 DEF Serves
<1>3. LeftGames(k, mm, state[k], matchId[k])
  <2> SUFFICES ASSUME NEW id \in MatchIds, id.advertiser = k, Listed(mm, id),
                      ~(state[k] = "SERVING_WAITING_CLAIMS" /\ matchId[k] = id)
               PROVE  LeftGame(k, mm, id)
    BY DEF LeftGames
  <2>1. mm[id] = matchMap[k][id]
    OBVIOUS
  <2>2. LeftGame(k, matchMap[k], id)
    BY <2>1 DEF PromptInv, LeftGames, Listed
  <2> QED BY <2>1, <2>2 DEF LeftGame
<1> QED BY <1>1, <1>2, <1>3, OnePromptStep

(* What is known of a message that arrived.                                *)
LEMMA ArrivedPrompt ==
  ASSUME PromptInv, NEW n \in Nodes, NEW m \in Message, NEW type,
         Arrived(n, m, type)
  PROVE  /\ m.matchId \in MatchIds
         /\ Traffic(Consume(n, m), Fresh)
         /\ type # "claim" => m.matchId.advertiser # n
         /\ type \in {"claim", "ack"} => m.user \in Nodes
         /\ type = "claim" => m.user \in Fresh
<1>1. /\ m.matchId \in MatchIds
      /\ type \in {"claim", "ack"} => m.user \in Nodes
  BY ArrivedMessage DEF PromptInv
<1>2. net[n][m] > 0 /\ Traffic(net, Fresh)
  BY DEF Arrived, PromptInv
<1>3. Traffic(Consume(n, m), Fresh)
  BY <1>2, ConsumeTraffic
<1>4. type # "claim" => m.matchId.advertiser # n
  BY <1>2 DEF Traffic, Silent, Arrived, Nets
<1>5. type = "claim" => m.user \in Fresh
  <2> SUFFICES ASSUME type = "claim" PROVE m.user \in Fresh
    OBVIOUS
  <2>1. m \in [type : {"claim", "ack"}, matchId : MatchIds, user : Nodes]
    BY DEF Arrived, Message
  <2>2. m = ClaimMsg(m.matchId, m.user)
    BY <2>1 DEF Arrived, ClaimMsg
  <2> QED BY <1>1, <1>2, <2>2 DEF Traffic, ClaimsBy
<1> QED BY <1>1, <1>3, <1>4, <1>5

-----------------------------------------------------------------------------
(* Each action.                                                            *)

(* A search that begins.                                                   *)
LEMMA FindMatchPrompt ==
  ASSUME PromptInv, LocalInv', NEW n \in Nodes, NEW wish \in Wishes,
         FindMatch(n, wish)
  PROVE  PromptInv'
<1>1. matchMap[n] \in Maps /\ Traffic(net, Fresh)
  BY ClientParts DEF PromptInv
<1> QED BY <1>1, StartPrompt DEF FindMatch

(* A poll that starts the search over.                                     *)
LEMMA PollPrompt ==
  ASSUME PromptInv, LocalInv', NEW n \in Nodes, Poll(n)
  PROVE  PromptInv'
<1>1. matchMap[n] \in Maps /\ Traffic(net, Fresh) /\ targetMatch[n] \in Wishes
  BY ClientParts DEF PromptInv, Poll, Overdue, AgentInv
<1>2. state[n] = "SERVING_WAITING_CLAIMS" => AdvertLapsed(n)
  BY DEF Poll, Overdue
<1> QED BY <1>1, <1>2, StartPrompt DEF Poll

(* A host that stops takes its game along.                                 *)
LEMMA StopMatchPrompt ==
  ASSUME PromptInv, LocalInv', Renews, NEW n \in Nodes,
         NEW outcome \in CallbackOutcomes, StopMatch(n, outcome)
  PROVE  PromptInv'
<1> DEFINE mm == matchMap'[n]
<1>1. ClearState(n) /\ actionAge' = [actionAge EXCEPT ![n] = actionAge[n]]
  BY DEF StopMatch, Renews, PromptInv, LocalInv, Functions
<1>2. /\ matchMap' = [matchMap EXCEPT ![n] = mm]
      /\ LeftGames(n, mm, "IDLE", None)
      /\ Traffic(net', Fresh)
  <2>1. CASE StopServing(n)
    <3> DEFINE id == matchId[n]
    <3>1. id \in MatchIds /\ id.advertiser = n
      BY <2>1, OwnServed DEF StopServing, PromptInv
    <3>2. matchMap' = [matchMap EXCEPT ![n] = Without(matchMap[n], {id})]
      BY <2>1 DEF StopServing
    <3>3. mm = Without(matchMap[n], {id})
      BY <3>2 DEF PromptInv, LocalInv, Functions
    <3>4. LeftGames(n, mm, "IDLE", None)
      <4> SUFFICES ASSUME NEW e \in MatchIds, e.advertiser = n, Listed(mm, e)
                   PROVE  LeftGame(n, mm, e)
        BY DEF LeftGames
      <4>1. e # id /\ mm[e] = matchMap[n][e]
        BY <3>3 DEF Without, Listed
      <4>2. LeftGame(n, matchMap[n], e)
        BY <4>1 DEF PromptInv, LeftGames, Listed
      <4> QED BY <4>1, <4>2 DEF LeftGame
    <3>5. Traffic(net', Fresh)
      <4>1. /\ UnadvertiseMsg(id) \in Message
            /\ UnadvertiseMsg(id).matchId = id
            /\ UnadvertiseMsg(id).type = "unadvertise"
        BY <3>1, MessageKinds DEF UnadvertiseMsg
      <4>2. \A e \in MatchIds, u \in Nodes :
              UnadvertiseMsg(id) # ClaimMsg(e, u) /\ UnadvertiseMsg(id) # AckMsg(e, u)
        BY <4>1 DEF ClaimMsg, AckMsg
      <4>3. net' = Broadcast(n, UnadvertiseMsg(id), net) /\ Traffic(net, Fresh)
        BY <2>1 DEF StopServing, PromptInv
      <4> HIDE DEF id
      <4> QED BY <3>1, <4>1, <4>2, <4>3, BroadcastTraffic
    <3> QED BY <3>2, <3>3, <3>4, <3>5
  <2>2. CASE StopJoining(n)
    BY <2>2 DEF StopJoining, PromptInv, LocalInv, Functions, LeftGames
  <2> QED BY <2>1, <2>2 DEF StopMatch
<1>3. HostLists("IDLE", None, mm, actionAge[n])
  BY DEF HostLists
<1> HIDE DEF mm
<1> QED BY <1>1, <1>2, <1>3, OnePromptStep DEF ClearState

(* Adverts and their withdrawal come from other clients.                   *)
LEMMA ReceiveAdvertPrompt ==
  ASSUME PromptInv, LocalInv', NEW n \in Nodes, NEW m \in Message,
         ReceiveAdvertise(n, m) \/ ReceiveUnadvertise(n, m)
  PROVE  PromptInv'
<1> DEFINE id == m.matchId
<1>1. id \in MatchIds /\ Traffic(Consume(n, m), Fresh) /\ id.advertiser # n
  BY ArrivedPrompt DEF ReceiveAdvertise, ReceiveUnadvertise
<1>2. \A e \in MatchIds : e.advertiser = n =>
        /\ HandleAdvertise(matchMap[n], id)[e] = matchMap[n][e]
        /\ Without(matchMap[n], {id})[e] = matchMap[n][e]
  <2>1. matchMap[n] \in Maps
    BY ClientParts DEF PromptInv
  <2> HIDE DEF id
  <2> QED BY <1>1, <2>1, AdvertiseEntry DEF Without
<1>3. \A e \in MatchIds : Serves(n, e) => Listed(matchMap[n], e)
  BY DEF PromptInv, HostLists, Serves
<1>4. CASE ReceiveAdvertise(n, m)
  <2>1. /\ matchMap' = [matchMap EXCEPT ![n] = HandleAdvertise(matchMap[n], id)]
        /\ net' = Consume(n, m) /\ UNCHANGED agentVars
    BY <1>4 DEF ReceiveAdvertise
  <2>2. \A e \in MatchIds : e.advertiser = n =>
          /\ HandleAdvertise(matchMap[n], id)[e] = matchMap[n][e]
          /\ Serves(n, e) => Listed(HandleAdvertise(matchMap[n], id), e)
    BY <1>2, <1>3 DEF Listed
  <2> HIDE DEF id
  <2> QED BY <1>1, <2>1, <2>2, MapPromptStep
<1>5. CASE ReceiveUnadvertise(n, m)
  <2>1. /\ matchMap' = [matchMap EXCEPT ![n] = Without(matchMap[n], {id})]
        /\ net' = Consume(n, m) /\ UNCHANGED agentVars
    BY <1>5 DEF ReceiveUnadvertise
  <2>2. \A e \in MatchIds : e.advertiser = n =>
          /\ Without(matchMap[n], {id})[e] = matchMap[n][e]
          /\ Serves(n, e) => Listed(Without(matchMap[n], {id}), e)
    BY <1>2, <1>3 DEF Listed
  <2> HIDE DEF id
  <2> QED BY <1>1, <2>1, <2>2, MapPromptStep
<1> QED BY <1>4, <1>5

(* A claim is answered by the host that serves the game, or is one more on *)
(* a game its host has left.                                               *)
LEMMA ReceiveClaimPrompt ==
  ASSUME PromptInv, LocalInv', NEW n \in Nodes, NEW m \in Message,
         ReceiveClaim(n, m)
  PROVE  PromptInv'
<1> DEFINE id == m.matchId
           u == m.user
           mm == HandleClaim(matchMap[n], id, u)
<1>1. /\ id \in MatchIds /\ u \in Nodes /\ u \in Fresh
      /\ Traffic(Consume(n, m), Fresh)
  BY ArrivedPrompt DEF ReceiveClaim
<1>2. matchMap[n] \in Maps /\ actionAge \in [Nodes -> 0..ActionLimit]
  BY ClientParts DEF PromptInv, LocalInv, Functions
<1>3. \A e \in MatchIds \ {id} : mm[e] = matchMap[n][e]
  BY DEF HandleClaim
<1>4. actionAge' = [actionAge EXCEPT ![n] = actionAge[n]]
  BY <1>2 DEF ReceiveClaim
<1>5. NewClaim(matchMap[n], id, u) =>
        /\ Listed(matchMap[n], id) /\ Listed(mm, id)
        /\ mm[id].seenAge = matchMap[n][id].seenAge
        /\ matchMap[n][id].claimsSeen \in Seq(Nodes)
        /\ mm[id].claimsSeen = Append(matchMap[n][id].claimsSeen, u)
  <2> SUFFICES ASSUME NewClaim(matchMap[n], id, u)
               PROVE  /\ Listed(matchMap[n], id) /\ Listed(mm, id)
                      /\ mm[id].seenAge = matchMap[n][id].seenAge
                      /\ matchMap[n][id].claimsSeen \in Seq(Nodes)
                      /\ mm[id].claimsSeen = Append(matchMap[n][id].claimsSeen, u)
    OBVIOUS
  <2>1. matchMap[n][id] \in MatchState
    BY <1>1, <1>2 DEF NewClaim, Maps, Listed
  <2>2. mm[id] = WithClaim(matchMap[n][id], u)
    BY <1>1, <1>2 DEF HandleClaim, Maps
  <2>3. Listed(mm, id) <=> Listed(matchMap[n], id)
    <3>1. MapInv(matchMap[n], claimed) /\ Pairing(id, u) \in claimed
      BY ClientParts, ArrivedMessage DEF ReceiveClaim, PromptInv
    <3> HIDE DEF id, u
    <3> QED BY <1>1, <3>1, ClaimMap
  <2> HIDE DEF id, u, mm
  <2> QED BY <2>1, <2>2, <2>3 DEF WithClaim, MatchState, NewClaim
<1>6. CASE /\ NewClaim(matchMap[n], id, u)
           /\ Serves(n, id)
           /\ AcceptClaim(n, id, mm, Consume(n, m), {})
  <2> DEFINE mm2 == Without(mm, {} \cup {id})
             ack == AckMsg(id, u)
             sent == Broadcast(n, ack, Broadcast(n, ack, Consume(n, m)))
  <2>1. Head(mm[id].claimsSeen) = u
    <3>1. matchMap[n][id].claimsSeen = <<>>
      BY <1>6, ClientParts DEF Serves, HostInv, NewClaim, PromptInv
    <3> HIDE DEF mm
    <3> QED BY <1>1, <1>5, <1>6, <3>1
  <2>2. LeftGames(n, mm2, "IDLE", None)
    <3> SUFFICES ASSUME NEW e \in MatchIds, e.advertiser = n, Listed(mm2, e)
                 PROVE  LeftGame(n, mm2, e)
      BY DEF LeftGames
    <3>1. e # id /\ mm2[e] = matchMap[n][e] /\ ~Serves(n, e)
      BY <1>3, <1>6 DEF Without, Listed, Serves
    <3>2. LeftGame(n, matchMap[n], e)
      BY <3>1 DEF PromptInv, LeftGames, Listed, Serves
    <3> QED BY <3>1, <3>2 DEF LeftGame
  <2>3. Traffic(sent, Fresh)
    <3>1. id.advertiser = n
      BY <1>6, OwnServed DEF Serves, PromptInv
    <3>2. InTime(u, id)
      BY <1>1, MatcherAssumption DEF Fresh, InTime
    <3> HIDE DEF id, u
    <3>3. ack \in Message /\ ack.matchId = id
      BY <1>1, MessageKinds DEF AckMsg
    <3>4. \A e \in MatchIds, v \in Nodes :
            /\ ack = AckMsg(e, v) => e = id /\ v = u
            /\ ack # ClaimMsg(e, v)
      BY DEF ClaimMsg, AckMsg
    <3> HIDE DEF ack
    <3>5. ASSUME NEW from, Traffic(from, Fresh)
          PROVE  Traffic(Broadcast(n, ack, from), Fresh)
      BY <3>1, <3>2, <3>3, <3>4, <3>5, BroadcastTraffic
    <3> QED BY <1>1, <3>5
  <2>4. /\ matchMap' = [matchMap EXCEPT ![n] = mm2]
        /\ state' = [state EXCEPT ![n] = "IDLE"]
        /\ matchId' = [matchId EXCEPT ![n] = None]
        /\ net' = sent
    BY <1>6, <2>1 DEF AcceptClaim, ClearState
  <2>5. HostLists("IDLE", None, mm2, actionAge[n])
    BY DEF HostLists
  <2> HIDE DEF mm2, sent, id, u, mm
  <2> QED BY <1>4, <2>2, <2>3, <2>4, <2>5, OnePromptStep
<1>7. CASE /\ ~(NewClaim(matchMap[n], id, u) /\ Serves(n, id))
           /\ net' = Consume(n, m)
           /\ matchMap' = [matchMap EXCEPT ![n] = mm]
           /\ UNCHANGED <<state, matchId, targetMatch, filled>>
  <2>1. CASE ~NewClaim(matchMap[n], id, u)
    <3>1. mm = matchMap[n] /\ UNCHANGED agentVars
      BY <1>7, <2>1 DEF HandleClaim, ReceiveClaim, agentVars
    <3>2. \A e \in MatchIds : Serves(n, e) => Listed(matchMap[n], e)
      BY DEF PromptInv, HostLists, Serves
    <3> QED BY <1>1, <1>7, <3>1, <3>2, MapPromptStep
  <2>2. CASE NewClaim(matchMap[n], id, u) /\ ~Serves(n, id)
    <3>1. HostLists(state[n], matchId[n], mm, actionAge[n])
      <4> SUFFICES ASSUME state[n] = "SERVING_WAITING_CLAIMS"
                   PROVE  mm[matchId[n]] = matchMap[n][matchId[n]]
        BY DEF PromptInv, HostLists, Listed
      <4>1. matchId[n] \in MatchIds \ {id}
        BY <2>2, ClientParts DEF PromptInv, AgentInv, Serves
      <4> QED BY <1>3, <4>1
    <3>2. ASSUME NEW e \in MatchIds, e.advertiser = n, Listed(mm, e), ~Serves(n, e)
          PROVE  LeftGame(n, mm, e)
      <4>1. CASE e # id
        <5>1. mm[e] = matchMap[n][e]
          BY <1>3, <4>1
        <5>2. LeftGame(n, matchMap[n], e)
          BY <3>2, <5>1 DEF PromptInv, LeftGames, Listed, Serves
        <5> QED BY <5>1, <5>2 DEF LeftGame
      <4>2. CASE e = id
        <5>1. LeftGame(n, matchMap[n], id)
          BY <1>5, <2>2, <3>2, <4>2 DEF PromptInv, LeftGames, Serves
        <5> DEFINE old == matchMap[n][id].claimsSeen
                   new == mm[id].claimsSeen
        <5>2. \A v \in Nodes : In(v, new) => v = u \/ In(v, old)
          <6>1. old \in Seq(Nodes) /\ new = Append(old, u)
            BY <1>5, <2>2
          <6> HIDE DEF old, new
          <6>2. \A i \in DOMAIN new : new[i] = u \/ (i \in DOMAIN old /\ new[i] = old[i])
            BY <1>1, <6>1
          <6> QED BY <6>2 DEF In
        <5>3. actionAge[u] = 0
          BY <1>1 DEF Fresh
        <5>4. mm[id].seenAge \in Nat
          <6>1. matchMap[n][id] \in MatchState
            BY <1>1, <1>2, <1>5, <2>2 DEF Maps, Listed
          <6>2. SeenLimit \in Nat
            BY MatcherAssumption DEF SeenLimit
          <6>3. matchMap[n][id].seenAge \in Nat
            BY <6>1, <6>2 DEF MatchState
          <6>4. mm[id].seenAge = matchMap[n][id].seenAge
            BY <1>5, <2>2
          <6> QED BY <6>3, <6>4
        <5>5. mm[id].seenAge = matchMap[n][id].seenAge
          BY <1>5, <2>2
        <5> HIDE DEF mm, id, u
        <5> QED BY <4>2, <5>1, <5>2, <5>3, <5>4, <5>5, MatcherAssumption DEF LeftGame
      <4> QED BY <4>1, <4>2
    <3>3. LeftGames(n, mm, state[n], matchId[n])
      BY <3>2 DEF LeftGames, Serves
    <3>4. /\ state' = [state EXCEPT ![n] = state[n]]
          /\ matchId' = [matchId EXCEPT ![n] = matchId[n]]
      BY <1>7 DEF PromptInv, LocalInv, Functions
    <3> HIDE DEF mm
    <3> QED BY <1>1, <1>4, <1>7, <3>1, <3>3, <3>4, OnePromptStep
  <2> QED BY <1>7, <2>1, <2>2
<1> QED BY <1>6, <1>7 DEF ReceiveClaim

(* An ack ends or restarts the search of a client that waits for it, and   *)
(* concerns no game of its own.                                            *)
LEMMA ReceiveAckPrompt ==
  ASSUME PromptInv, LocalInv', NEW n \in Nodes, NEW m \in Message,
         ReceiveAck(n, m)
  PROVE  PromptInv'
<1> DEFINE id == m.matchId
           mm == HandleAck(matchMap[n], id, m.user)
<1>1. /\ id \in MatchIds /\ m.user \in Nodes /\ id.advertiser # n
      /\ Traffic(Consume(n, m), Fresh)
  BY ArrivedPrompt DEF ReceiveAck
<1>2. \A e \in MatchIds : Serves(n, e) => Listed(matchMap[n], e)
  BY DEF PromptInv, HostLists, Serves
<1>3. \A e \in MatchIds : e.advertiser = n =>
        /\ mm[e] = matchMap[n][e]
        /\ Closed(matchMap[n], id, m.user)[e] = matchMap[n][e]
  BY <1>1 DEF HandleAck, Closed, Without
<1>4. matchMap[n] \in Maps /\ actionAge \in [Nodes -> 0..ActionLimit]
  BY ClientParts DEF PromptInv, LocalInv, Functions
<1>5. CASE /\ Won(n, mm, id)
           /\ net' = Consume(n, m)
           /\ matchMap' = [matchMap EXCEPT ![n] = Closed(@, id, m.user)]
           /\ ClearState(n)
           /\ UNCHANGED actionAge
  <2> DEFINE mm2 == Closed(matchMap[n], id, m.user)
  <2>1. LeftGames(n, mm2, "IDLE", None)
    <3> SUFFICES ASSUME NEW e \in MatchIds, e.advertiser = n, Listed(mm2, e)
                 PROVE  LeftGame(n, mm2, e)
      BY DEF LeftGames
    <3>1. mm2[e] = matchMap[n][e] /\ Listed(matchMap[n], e)
      BY <1>3 DEF Listed
    <3>2. state[n] # "SERVING_WAITING_CLAIMS"
      BY <1>5 DEF Won, Awaits
    <3>3. LeftGame(n, matchMap[n], e)
      BY <3>1, <3>2 DEF PromptInv, LeftGames
    <3> QED BY <3>1, <3>3 DEF LeftGame
  <2>2. /\ matchMap' = [matchMap EXCEPT ![n] = mm2]
        /\ state' = [state EXCEPT ![n] = "IDLE"]
        /\ matchId' = [matchId EXCEPT ![n] = None]
        /\ actionAge' = [actionAge EXCEPT ![n] = actionAge[n]]
        /\ net' = Consume(n, m)
    BY <1>4, <1>5 DEF ClearState
  <2>3. HostLists("IDLE", None, mm2, actionAge[n])
    BY DEF HostLists
  <2> HIDE DEF mm2
  <2> QED BY <1>1, <2>1, <2>2, <2>3, OnePromptStep
<1>6. CASE /\ NewAck(matchMap[n], id, m.user) /\ Lost(n, mm, id)
           /\ StartMatch(n, targetMatch[n], mm, Consume(n, m), {id})
  <2>1. targetMatch[n] \in Wishes /\ state[n] # "SERVING_WAITING_CLAIMS"
    BY <1>6, ClientParts DEF Lost, Awaits, AgentInv, PromptInv
  <2>2. mm \in Maps
    <3>1. MapInv(matchMap[n], claimed) /\ Listed(matchMap[n], id)
      BY <1>6, ClientParts DEF NewAck, PromptInv
    <3> HIDE DEF id
    <3> QED BY <1>1, <3>1, AckMap
  <2> HIDE DEF mm, id
  <2> QED BY <1>1, <1>3, <1>6, <2>1, <2>2, StartPrompt
<1>7. CASE /\ net' = Consume(n, m)
           /\ \/ matchMap' = [matchMap EXCEPT ![n] = Closed(@, id, m.user)]
              \/ UNCHANGED matchMap
           /\ UNCHANGED agentVars
  <2>1. PICK mm2 \in {Closed(matchMap[n], id, m.user), matchMap[n]} :
          matchMap' = [matchMap EXCEPT ![n] = mm2]
    BY <1>7 DEF PromptInv, LocalInv, Functions
  <2>2. \A e \in MatchIds : e.advertiser = n =>
          /\ Listed(mm2, e) => mm2[e] = matchMap[n][e]
          /\ Serves(n, e) => Listed(mm2, e)
    BY <1>2, <1>3 DEF Listed
  <2> QED BY <1>1, <1>7, <2>1, <2>2, MapPromptStep
<1> QED BY <1>5, <1>6, <1>7 DEF ReceiveAck

(* A game that is served was advertised too recently to expire.            *)
LEMMA CheckTimeoutsPrompt ==
  ASSUME PromptInv, LocalInv', Renews, NEW n \in Nodes, CheckTimeouts(n)
  PROVE  PromptInv'
<1> DEFINE mm == Without(matchMap[n], Stale(matchMap[n]))
<1>1. /\ matchMap' = [matchMap EXCEPT ![n] = mm]
      /\ net' = net /\ UNCHANGED agentVars /\ Traffic(net, Fresh)
  BY DEF CheckTimeouts, PromptInv
<1>2. \A id \in MatchIds : Listed(mm, id) => mm[id] = matchMap[n][id]
  BY DEF Without, Listed
<1>3. ASSUME NEW id \in MatchIds, Serves(n, id) PROVE Listed(mm, id)
  <2>1. /\ Listed(matchMap[n], id)
        /\ matchMap[n][id].seenAge = actionAge[n]
        /\ actionAge[n] <= SERVING_REBROADCAST_TIMEOUT + 1
    BY <1>3 DEF PromptInv, HostLists, Serves
  <2>2. actionAge[n] \in Nat
    BY ActionLimitType DEF PromptInv, LocalInv, Functions
  <2>3. ~(matchMap[n][id].seenAge > ADVERTISE_TIMEOUT)
    BY <2>1, <2>2, MatcherAssumption DEF Renews
  <2> QED BY <2>1, <2>3 DEF Stale, Without, Listed
<1> HIDE DEF mm
<1> QED BY <1>1, <1>2, <1>3, MapPromptStep

(* Time passes when nothing is in flight, nothing has expired and no host  *)
(* is late: everybody grows older by one.                                  *)
LEMMA TickPrompt ==
  ASSUME PromptInv, Renews, LocalInv', PromptTick
  PROVE  PromptInv'
<1> DEFINE RB == SERVING_REBROADCAST_TIMEOUT
<1>1. /\ \A n \in Nodes, m \in Message : net[n][m] = 0
      /\ \A n \in Nodes : ~Overdue(n) /\ Stale(matchMap[n]) = {}
      /\ net' = net /\ state' = state /\ matchId' = matchId
  BY DEF PromptTick, Quiet, Tick
<1>2. ASSUME NEW n \in Nodes
      PROVE  /\ actionAge[n] \in Nat
             /\ actionAge'[n] <= actionAge[n] + 1
             /\ actionAge[n] <= RB => actionAge'[n] = actionAge[n] + 1
  <2>1. actionAge[n] \in 0..ActionLimit
    BY DEF PromptInv, LocalInv, Functions
  <2>2. actionAge'[n] = Older(actionAge[n], ActionLimit)
    BY DEF PromptTick, Tick
  <2>3. RB < ActionLimit
    BY MatcherAssumption DEF ActionLimit
  <2> QED BY <2>1, <2>2, <2>3, ActionLimitType, MatcherAssumption DEF Older
<1>3. ASSUME NEW n \in Nodes, NEW id \in MatchIds
      PROVE  /\ Listed(matchMap[n], id) <=> Listed(matchMap'[n], id)
             /\ Listed(matchMap[n], id) =>
                  /\ matchMap[n][id].seenAge \in 0..ADVERTISE_TIMEOUT
                  /\ matchMap'[n][id].seenAge = matchMap[n][id].seenAge + 1
                  /\ matchMap'[n][id].claimsSeen = matchMap[n][id].claimsSeen
  <2> DEFINE old == matchMap[n][id]
             new == [old EXCEPT !.seenAge = Older(@, SeenLimit)]
  <2>1. matchMap'[n][id] = IF Listed(matchMap[n], id) THEN new ELSE None
    BY DEF PromptTick, Tick
  <2>2. CASE Listed(matchMap[n], id)
    <3>1. old \in MatchState
      BY <2>2, ClientParts DEF PromptInv, Maps, Listed
    <3>2. old.seenAge \in 0..ADVERTISE_TIMEOUT
      <4>1. old.seenAge \in 0..(ADVERTISE_TIMEOUT + 1)
        BY <3>1 DEF MatchState, SeenLimit
      <4>2. ~(old.seenAge > ADVERTISE_TIMEOUT)
        BY <1>1, <2>2 DEF Stale
      <4> QED BY <4>1, <4>2, MatcherAssumption
    <3>3. Older(old.seenAge, SeenLimit) = old.seenAge + 1
      BY <3>2, MatcherAssumption DEF Older, SeenLimit
    <3> HIDE DEF old
    <3>4. /\ new \in MatchState /\ new.seenAge = old.seenAge + 1
          /\ new.claimsSeen = old.claimsSeen
      BY <3>1, <3>2, <3>3, MatcherAssumption DEF MatchState, SeenLimit
    <3>5. new # None
      BY <3>4, MatcherAssumption
    <3> HIDE DEF new
    <3> QED BY <2>1, <2>2, <3>2, <3>4, <3>5 DEF old, Listed
  <2>3. CASE ~Listed(matchMap[n], id)
    BY <2>1, <2>3 DEF Listed
  <2> QED BY <2>2, <2>3
<1>4. ASSUME NEW n \in Nodes
      PROVE  HostLists(state[n], matchId[n], matchMap[n], actionAge[n])'
  <2> SUFFICES ASSUME state[n] = "SERVING_WAITING_CLAIMS"
               PROVE  /\ Listed(matchMap'[n], matchId[n])
                      /\ matchMap'[n][matchId[n]].seenAge = actionAge'[n]
                      /\ actionAge'[n] <= RB + 1
    BY <1>1 DEF HostLists, Listed
  <2>1. matchId[n] \in MatchIds
    BY OwnServed DEF PromptInv
  <2>2. /\ Listed(matchMap[n], matchId[n])
        /\ matchMap[n][matchId[n]].seenAge = actionAge[n]
    BY DEF PromptInv, HostLists
  <2>3. actionAge[n] <= RB
    <3>1. ~(actionAge[n] > RB)
      BY <1>1 DEF Overdue, AdvertLapsed
    <3> QED BY <1>2, <3>1, MatcherAssumption
  <2>4. actionAge'[n] = actionAge[n] + 1 /\ actionAge'[n] <= RB + 1
    BY <1>2, <2>3, MatcherAssumption
  <2>5. /\ Listed(matchMap'[n], matchId[n])
        /\ matchMap'[n][matchId[n]].seenAge = matchMap[n][matchId[n]].seenAge + 1
    BY <1>3, <2>1, <2>2
  <2> QED BY <2>2, <2>4, <2>5
<1>5. ASSUME NEW n \in Nodes
      PROVE  LeftGames(n, matchMap[n], state[n], matchId[n])'
  <2> SUFFICES ASSUME NEW id \in MatchIds, id.advertiser = n,
                      Listed(matchMap'[n], id),
                      ~(state[n] = "SERVING_WAITING_CLAIMS" /\ matchId[n] = id)
               PROVE  LeftGame(n, matchMap[n], id)'
    BY <1>1 DEF LeftGames, Listed
  <2>1. LeftGame(n, matchMap[n], id)
    BY <1>3 DEF PromptInv, LeftGames
  <2>2. /\ matchMap[n][id].seenAge \in Nat
        /\ matchMap'[n][id].seenAge = matchMap[n][id].seenAge + 1
        /\ matchMap'[n][id].claimsSeen = matchMap[n][id].claimsSeen
    BY <1>3, MatcherAssumption
  <2>3. matchMap'[n][id].seenAge > RB
    BY <2>1, <2>2, MatcherAssumption DEF LeftGame
  <2>4. ASSUME NEW u \in Nodes, In(u, matchMap'[n][id].claimsSeen), Awaits(u, id)'
        PROVE  actionAge'[u] + RB < matchMap'[n][id].seenAge
    <3>1. In(u, matchMap[n][id].claimsSeen) /\ Awaits(u, id)
      BY <1>1, <2>2, <2>4 DEF Awaits
    <3>2. actionAge[u] + RB < matchMap[n][id].seenAge
      BY <2>1, <3>1 DEF LeftGame
    <3>3. actionAge'[u] \in Nat
      BY ActionLimitType DEF LocalInv, Functions
    <3> QED BY <1>2, <2>2, <3>2, <3>3, MatcherAssumption
  <2> QED BY <2>3, <2>4 DEF LeftGame, In
<1>6. Traffic(net, Fresh)'
  <2>1. \A n \in Nodes, m \in Message : ~(net[n][m] > 0)
    BY <1>1
  <2>2. Silent(net) /\ net \in Nets
    BY DEF PromptInv, Traffic
  <2>3. (net \in Nets)' /\ Silent(net)'
    BY <1>1, <2>2 DEF Nets, Silent
  <2>4. ClaimsBy(net, Fresh)' /\ AcksInTime(net)'
    BY <1>1, <2>1, MessageKinds DEF ClaimsBy, AcksInTime
  <2> QED BY <2>3, <2>4 DEF Traffic
<1> QED BY <1>4, <1>5, <1>6 DEF PromptInv

-----------------------------------------------------------------------------
(* The invariant and what follows from it.                                 *)

(* Nothing is under way at first.                                          *)
LEMMA PromptInit == Init => PromptInv
<1> SUFFICES ASSUME Init PROVE PromptInv
  OBVIOUS
<1>1. LocalInv
  BY InitInv
<1>2. \A n \in Nodes, m \in Message : net[n][m] = 0
  BY DEF Init
<1>3. Traffic(net, Fresh)
  BY <1>1, <1>2, MessageKinds
     DEF Traffic, Silent, ClaimsBy, AcksInTime, LocalInv, NetInv
<1>4. ASSUME NEW n \in Nodes
      PROVE  /\ HostLists(state[n], matchId[n], matchMap[n], actionAge[n])
             /\ LeftGames(n, matchMap[n], state[n], matchId[n])
  BY DEF Init, HostLists, LeftGames, EmptyMap, Listed
<1> QED BY <1>1, <1>3, <1>4 DEF PromptInv

(* A good day is one of all the days the protocol may have.                *)
LEMMA PromptIsNext == [PromptNext]_vars => [Next]_vars
BY DEF PromptNext, PromptTick, Next

(* Every step of a good day keeps the invariant.                           *)
LEMMA PromptStep ==
  ASSUME Renews, PromptInv, [PromptNext]_vars
  PROVE  PromptInv'
<1>1. LocalInv'
  BY PromptIsNext, StepInv DEF PromptInv
<1>2. ASSUME NEW n \in Nodes, UserStep(n) PROVE PromptInv'
  BY <1>1, <1>2, FindMatchPrompt, StopMatchPrompt DEF UserStep
<1>3. ASSUME NEW n \in Nodes, NEW m \in Message, Receive(n, m) PROVE PromptInv'
  BY <1>1, <1>3, ReceiveAdvertPrompt, ReceiveClaimPrompt, ReceiveAckPrompt
     DEF Receive
<1>4. ASSUME NEW n \in Nodes, Poll(n) \/ CheckTimeouts(n) PROVE PromptInv'
  BY <1>1, <1>4, PollPrompt, CheckTimeoutsPrompt
<1>5. CASE PromptTick
  BY <1>1, <1>5, TickPrompt
<1>6. CASE UNCHANGED vars
  <2>1. UNCHANGED <<matchMap, state, matchId, actionAge, net>>
    BY <1>6 DEF vars
  <2>2. Fresh' = Fresh /\ \A u \in Nodes, id \in MatchIds : InTime(u, id)' <=> InTime(u, id)
    BY <2>1 DEF Fresh, InTime, Awaits, Outlasts
  <2>3. Traffic(net, Fresh)'
    BY <2>1, <2>2 DEF PromptInv, Traffic, Nets, Silent, ClaimsBy, AcksInTime
  <2>4. ASSUME NEW n \in Nodes
        PROVE  /\ HostLists(state[n], matchId[n], matchMap[n], actionAge[n])'
               /\ LeftGames(n, matchMap[n], state[n], matchId[n])'
    BY <2>1 DEF PromptInv, HostLists, LeftGames, LeftGame, Listed, In, Awaits
  <2> QED BY <1>1, <2>3, <2>4 DEF PromptInv
<1> QED BY <1>2, <1>3, <1>4, <1>5, <1>6 DEF PromptNext, ClientStep

(* On good days what is under way is heard in time, for an interval that   *)
(* renews an advert before its peers forget it.                            *)
THEOREM PromptInvariance ==
  ASSUME Renews
  PROVE  PromptSpec => []PromptInv
BY PromptInit, PromptStep, PTL DEF PromptSpec

(* A host's own game is in its own map for as long as it serves, so no     *)
(* claim on it goes unheard: renewing an advert refreshes the host's own   *)
(* copy in time (poll against checkTimeouts).                              *)
THEOREM HostsKeepTheirGames ==
  ASSUME Renews
  PROVE  PromptSpec => []HostKeepsItsGame
<1>1. PromptInv => HostKeepsItsGame
  BY DEF PromptInv, HostLists, HostKeepsItsGame
<1> QED BY <1>1, PromptInvariance, PTL

-----------------------------------------------------------------------------
(* What a step of one client means to the others.                          *)

(* Messages only client k sends.                                           *)
SentBy(k, m) == IF m.type = "claim" THEN m.user = k ELSE m.matchId.advertiser = k

(* From base to out, k receives and sends.                                 *)
Moves(k, base, out) ==
  /\ \A m \in Message : out[k][m] <= base[k][m]
  /\ \A p \in Nodes \ {k}, m \in Message :
       /\ out[p][m] >= base[p][m]
       /\ out[p][m] > base[p][m] => SentBy(k, m)

StepOf(k) ==
  /\ \A p \in Nodes \ {k} :
       /\ state'[p] = state[p] /\ matchId'[p] = matchId[p]
       /\ matchMap'[p] = matchMap[p] /\ actionAge'[p] = actionAge[p]
  /\ Moves(k, net, net')

(* A broadcast adds only messages of its sender.                           *)
LEMMA BroadcastMoves ==
  ASSUME NEW base \in Nets, NEW from \in Nets, NEW k \in Nodes,
         NEW m \in Message, SentBy(k, m), Moves(k, base, from)
  PROVE  Moves(k, base, Broadcast(k, m, from))
<1> DEFINE out == Broadcast(k, m, from)
<1>1. out \in Nets /\ out[k] = from[k]
  <2>1. out[k] = from[k]
    BY DEF Broadcast
  <2> QED BY <2>1, BroadcastNet
<1>2. \A p \in Nodes : \A x \in Message \ {m} : out[p][x] = from[p][x]
  BY BroadcastNet
<1>3. ASSUME NEW p \in Nodes \ {k} PROVE out[p][m] >= from[p][m]
  <2>1. out[p][m] = Older(from[p][m], MaxCopies)
    BY DEF Broadcast, Nets
  <2>2. from[p][m] \in 0..MaxCopies
    BY DEF Nets
  <2> QED BY <2>1, <2>2, OlderGrows
<1>4. \A p \in Nodes, x \in Message :
        out[p][x] \in Nat /\ from[p][x] \in Nat /\ base[p][x] \in Nat
  BY <1>1, MatcherAssumption DEF Nets
<1> HIDE DEF out
<1>5. ASSUME NEW p \in Nodes \ {k}, NEW x \in Message
      PROVE  out[p][x] >= base[p][x] /\ (out[p][x] > base[p][x] => SentBy(k, x))
  <2>1. from[p][x] >= base[p][x] /\ (from[p][x] > base[p][x] => SentBy(k, x))
    BY DEF Moves
  <2>2. CASE x = m
    BY <1>3, <1>4, <2>1, <2>2
  <2>3. CASE x # m
    BY <1>2, <2>1, <2>3
  <2> QED BY <2>2, <2>3
<1>6. Moves(k, base, out)
  BY <1>1, <1>5 DEF Moves
<1> QED BY <1>6 DEF out

(* Sending nothing is sending only one's own.                              *)
LEMMA StillMoves ==
  ASSUME NEW k \in Nodes, net \in Nets
  PROVE  Moves(k, net, net)
BY MatcherAssumption DEF Moves, Nets

(* A message that is received is gone, and no other.                       *)
LEMMA ConsumeMoves ==
  ASSUME NEW k \in Nodes, net \in Nets, NEW m \in Message, net[k][m] > 0
  PROVE  /\ Moves(k, net, Consume(k, m)) /\ Consume(k, m) \in Nets
         /\ Consume(k, m)[k][m] = net[k][m] - 1
         /\ \A x \in Message \ {m} : Consume(k, m)[k][x] = net[k][x]
         /\ \A p \in Nodes \ {k} : Consume(k, m)[p] = net[p]
<1>1. \A p \in Nodes : \A x \in Message : net[p][x] \in 0..MaxCopies
  BY DEF Nets
<1>2. net[k][m] \in 1..MaxCopies
  BY <1>1, MatcherAssumption
<1>3. Consume(k, m) \in Nets
  BY <1>2, MatcherAssumption DEF Nets, Consume
<1>4. /\ Consume(k, m)[k][m] = net[k][m] - 1
      /\ \A x \in Message \ {m} : Consume(k, m)[k][x] = net[k][x]
      /\ \A p \in Nodes \ {k} : Consume(k, m)[p] = net[p]
  BY DEF Nets, Consume
<1> QED BY <1>1, <1>2, <1>3, <1>4, MatcherAssumption DEF Moves

(* What k sends when it accepts a claim, or starts over.                   *)
LEMMA AcceptMoves ==
  ASSUME NEW base \in Nets, NEW from \in Nets, NEW k \in Nodes,
         NEW id \in MatchIds, id.advertiser = k, NEW mm, NEW gone,
         Head(mm[id].claimsSeen) \in Nodes,
         Moves(k, base, from), AcceptClaim(k, id, mm, from, gone)
  PROVE  Moves(k, base, net')
<1> DEFINE ack == AckMsg(id, Head(mm[id].claimsSeen))
<1>1. ack \in Message /\ SentBy(k, ack)
  <2>1. ack.type = "ack" /\ ack.matchId = id
    BY DEF AckMsg
  <2> QED BY <2>1, MessageKinds DEF SentBy
<1>2. net' = Broadcast(k, ack, Broadcast(k, ack, from))
  BY DEF AcceptClaim
<1> HIDE DEF ack
<1>3. /\ Moves(k, base, Broadcast(k, ack, from))
      /\ Broadcast(k, ack, from) \in Nets
  BY <1>1, BroadcastMoves, BroadcastNet
<1> QED BY <1>1, <1>2, <1>3, BroadcastMoves

(* startMatch sends only messages of its client.                           *)
LEMMA StartMoves ==
  ASSUME NEW base \in Nets, NEW from \in Nets, NEW k \in Nodes,
         NEW wish \in Wishes, NEW mm \in Maps, NEW gone,
         Moves(k, base, from), StartMatch(k, wish, mm, from, gone)
  PROVE  Moves(k, base, net')
<1> DEFINE own == getMatchID(k, Head(wish))
           listed == HandleAdvertise(mm, own)
           sent == Broadcast(k, AdvertiseMsg(own), from)
<1>1. own \in MatchIds /\ own.advertiser = k
  <2>1. Head(wish) \in Games
    BY MatcherAssumption
  <2> QED BY <2>1 DEF getMatchID, MatchIds
<1>2. ASSUME NEW id \in Joinable(k, wish, mm), JoinGame(k, wish, id, mm, from, gone)
      PROVE  Moves(k, base, net')
  <2>1. ClaimMsg(id, k) \in Message /\ SentBy(k, ClaimMsg(id, k))
    <3>1. id \in MatchIds
      BY DEF Joinable
    <3> QED BY <3>1, MessageKinds DEF SentBy, ClaimMsg
  <2> QED BY <1>2, <2>1, BroadcastMoves DEF JoinGame
<1>3. Moves(k, base, sent) /\ sent \in Nets
  <2>1. AdvertiseMsg(own) \in Message /\ SentBy(k, AdvertiseMsg(own))
    <3>1. AdvertiseMsg(own).type = "advertise" /\ AdvertiseMsg(own).matchId = own
      BY DEF AdvertiseMsg
    <3> QED BY <1>1, <3>1, MessageKinds DEF SentBy
  <2> QED BY <2>1, BroadcastMoves, BroadcastNet
<1>4. ASSUME Claimed(listed, own), AcceptClaim(k, own, listed, sent, gone)
      PROVE  Moves(k, base, net')
  <2> HIDE DEF own
  <2>1. listed[own] \in MatchState
    BY <1>1, AdvertiseEntry
  <2>2. Head(listed[own].claimsSeen) \in Nodes
    <3>1. listed[own].claimsSeen \in Seq(Nodes) /\ listed[own].claimsSeen # <<>>
      BY <1>4, <2>1 DEF Claimed, MatchState
    <3> QED BY <3>1
  <2> HIDE DEF listed, sent
  <2> QED BY <1>1, <1>3, <1>4, <2>2, AcceptMoves
<1> QED BY <1>2, <1>3, <1>4 DEF StartMatch, ServeGame

(* startMatch changes no other client's state.                             *)
LEMMA StartElsewhere ==
  ASSUME LocalInv, NEW k \in Nodes, NEW wish, NEW mm, NEW from, NEW gone,
         StartMatch(k, wish, mm, from, gone)
  PROVE  \A p \in Nodes \ {k} :
           /\ state'[p] = state[p] /\ matchId'[p] = matchId[p]
           /\ matchMap'[p] = matchMap[p] /\ actionAge'[p] = actionAge[p]
<1>1. PICK mm2, st, mid :
        /\ matchMap' = [matchMap EXCEPT ![k] = mm2]
        /\ state' = [state EXCEPT ![k] = st]
        /\ matchId' = [matchId EXCEPT ![k] = mid]
        /\ actionAge' = [actionAge EXCEPT ![k] = 0]
  BY DEF StartMatch, JoinGame, ServeGame, AcceptClaim, ClearState
<1> QED BY <1>1 DEF LocalInv, Functions

(* Every step of client k is one.                                          *)
LEMMA ClientStepOf ==
  ASSUME PromptInv, NEW k \in Nodes, ClientStep(k)
  PROVE  StepOf(k)
<1>1. /\ net \in Nets /\ Moves(k, net, net) /\ matchMap[k] \in Maps
      /\ LocalInv
  BY StillMoves, ClientParts DEF PromptInv, Traffic
<1>2. /\ matchMap \in [Nodes -> Maps] /\ state \in [Nodes -> AgentStates]
      /\ matchId \in [Nodes -> MatchIds \cup {None}]
      /\ actionAge \in [Nodes -> 0..ActionLimit]
  BY <1>1 DEF LocalInv, Functions
<1>3. ASSUME NEW wish \in Wishes, FindMatch(k, wish) PROVE StepOf(k)
  BY <1>1, <1>3, StartMoves, StartElsewhere DEF FindMatch, StepOf
<1>4. ASSUME Poll(k) PROVE StepOf(k)
  <2>1. targetMatch[k] \in Wishes
    BY <1>1, <1>4, ClientParts DEF Poll, Overdue, AgentInv
  <2> QED BY <1>1, <1>4, <2>1, StartMoves, StartElsewhere DEF Poll, StepOf
<1>5. ASSUME NEW outcome, StopMatch(k, outcome) PROVE StepOf(k)
  <2>1. Moves(k, net, net')
    <3>1. CASE StopServing(k)
      <4>1. matchId[k] \in MatchIds /\ matchId[k].advertiser = k
        BY <1>1, <3>1, OwnServed DEF StopServing
      <4>2. /\ UnadvertiseMsg(matchId[k]).type = "unadvertise"
            /\ UnadvertiseMsg(matchId[k]).matchId = matchId[k]
        BY DEF UnadvertiseMsg
      <4>3. /\ UnadvertiseMsg(matchId[k]) \in Message
            /\ SentBy(k, UnadvertiseMsg(matchId[k]))
        BY <4>1, <4>2, MessageKinds DEF SentBy
      <4> QED BY <1>1, <3>1, <4>3, BroadcastMoves DEF StopServing
    <3>2. CASE StopJoining(k)
      BY <1>1, <3>2 DEF StopJoining
    <3> QED BY <1>5, <3>1, <3>2 DEF StopMatch
  <2>2. /\ \/ UNCHANGED matchMap
           \/ matchMap' = [matchMap EXCEPT ![k] = Without(@, {matchId[k]})]
        /\ \/ UNCHANGED <<state, matchId>>
           \/ /\ state' = [state EXCEPT ![k] = "IDLE"]
              /\ matchId' = [matchId EXCEPT ![k] = None]
        /\ UNCHANGED actionAge
    BY <1>5 DEF StopMatch, StopServing, StopJoining, ClearState
  <2> QED BY <1>2, <2>1, <2>2 DEF StepOf
<1>6. ASSUME NEW m \in Message, Receive(k, m) PROVE StepOf(k)
  <2>1. net[k][m] > 0
    BY <1>6 DEF Receive, ReceiveAdvertise, ReceiveUnadvertise, ReceiveClaim,
                ReceiveAck, Arrived
  <2>2. Consume(k, m) \in Nets /\ Moves(k, net, Consume(k, m))
    BY <1>1, <2>1, ConsumeMoves
  <2>3. CASE net' = Consume(k, m) /\ ~ReceiveClaim(k, m)
    <3>1. CASE \E wish, mm, gone : StartMatch(k, wish, mm, Consume(k, m), gone)
      BY <1>1, <2>2, <2>3, <3>1, StartElsewhere DEF StepOf
    <3>2. CASE ~\E wish, mm, gone : StartMatch(k, wish, mm, Consume(k, m), gone)
      <4>1. PICK mm2 :
              /\ \/ UNCHANGED matchMap
                 \/ matchMap' = [matchMap EXCEPT ![k] = mm2]
              /\ \/ UNCHANGED <<state, matchId>>
                 \/ /\ state' = [state EXCEPT ![k] = "IDLE"]
                    /\ matchId' = [matchId EXCEPT ![k] = None]
              /\ UNCHANGED actionAge
        BY <1>6, <2>3, <3>2
           DEF Receive, ReceiveAdvertise, ReceiveUnadvertise, ReceiveAck,
               ClearState, agentVars
      <4> QED BY <1>2, <2>2, <2>3, <4>1 DEF StepOf
    <3> QED BY <3>1, <3>2
  <2>4. CASE ReceiveAck(k, m) /\ net' # Consume(k, m)
    <3> DEFINE mm == HandleAck(matchMap[k], m.matchId, m.user)
    <3>1. /\ NewAck(matchMap[k], m.matchId, m.user) /\ Lost(k, mm, m.matchId)
          /\ StartMatch(k, targetMatch[k], mm, Consume(k, m), {m.matchId})
      BY <2>4 DEF ReceiveAck
    <3>2. targetMatch[k] \in Wishes
      BY <1>1, <3>1, ClientParts DEF Lost, Awaits, AgentInv
    <3>3. mm \in Maps
      <4>1. /\ MapInv(matchMap[k], claimed) /\ Listed(matchMap[k], m.matchId)
            /\ m.matchId \in MatchIds /\ m.user \in Nodes
        BY <1>1, <2>4, <3>1, ClientParts, ArrivedMessage DEF NewAck, ReceiveAck
      <4> QED BY <4>1, AckMap
    <3> HIDE DEF mm
    <3>4. Moves(k, net, net')
      BY <1>1, <2>2, <3>1, <3>2, <3>3, StartMoves
    <3> QED BY <1>1, <3>1, <3>4, StartElsewhere DEF StepOf
  <2>5. CASE ReceiveClaim(k, m)
    <3> DEFINE id == m.matchId
               mm == HandleClaim(matchMap[k], id, m.user)
    <3>1. CASE /\ NewClaim(matchMap[k], id, m.user) /\ Serves(k, id)
               /\ AcceptClaim(k, id, mm, Consume(k, m), {})
      <4>1. id \in MatchIds /\ id.advertiser = k /\ m.user \in Nodes
        BY <1>1, <2>5, <3>1, OwnServed, ArrivedMessage DEF Serves, ReceiveClaim
      <4>2. Head(mm[id].claimsSeen) \in Nodes
        <5> HIDE DEF id
        <5>1. MapInv(mm, claimed) /\ Listed(mm, id)
          <6>1. MapInv(matchMap[k], claimed) /\ Pairing(id, m.user) \in claimed
            BY <1>1, <2>5, ClientParts, ArrivedMessage DEF ReceiveClaim, id
          <6> QED BY <3>1, <4>1, <6>1, ClaimMap DEF NewClaim
        <5>2. matchMap[k][id] \in MatchState
          BY <1>1, <3>1, <4>1 DEF NewClaim, Listed, Maps
        <5>3. mm[id].claimsSeen = Append(matchMap[k][id].claimsSeen, m.user)
          <6>1. mm[id] = WithClaim(matchMap[k][id], m.user)
            BY <1>1, <3>1, <4>1 DEF HandleClaim, Maps
          <6> QED BY <5>2, <6>1 DEF WithClaim, MatchState
        <5>4. matchMap[k][id].claimsSeen \in Seq(Nodes)
          BY <5>2 DEF MatchState
        <5>5. \A s \in Seq(Nodes), u \in Nodes : Head(Append(s, u)) \in Nodes
          OBVIOUS
        <5> HIDE DEF mm
        <5> QED BY <4>1, <5>3, <5>4, <5>5
      <4>3. PICK mm2 :
              /\ matchMap' = [matchMap EXCEPT ![k] = mm2]
              /\ state' = [state EXCEPT ![k] = "IDLE"]
              /\ matchId' = [matchId EXCEPT ![k] = None]
              /\ UNCHANGED actionAge
        BY <2>5, <3>1 DEF AcceptClaim, ClearState, ReceiveClaim
      <4> HIDE DEF mm, id
      <4>4. Moves(k, net, net')
        BY <1>1, <2>2, <3>1, <4>1, <4>2, AcceptMoves
      <4> QED BY <1>2, <4>3, <4>4 DEF StepOf
    <3>2. CASE /\ net' = Consume(k, m)
               /\ matchMap' = [matchMap EXCEPT ![k] = mm]
               /\ UNCHANGED <<state, matchId, actionAge>>
      <4> HIDE DEF mm
      <4> QED BY <1>2, <2>2, <3>2 DEF StepOf
    <3> QED BY <2>5, <3>1, <3>2 DEF ReceiveClaim
  <2> QED BY <1>6, <2>3, <2>4, <2>5
          DEF Receive, ReceiveAdvertise, ReceiveUnadvertise
<1>7. ASSUME CheckTimeouts(k) PROVE StepOf(k)
  BY <1>1, <1>2, <1>7 DEF CheckTimeouts, StepOf, agentVars
<1> QED BY <1>3, <1>4, <1>5, <1>6, <1>7 DEF ClientStep, UserStep

-----------------------------------------------------------------------------
(* A punctual claim.                                                       *)

(* A message about game id that is neither the host's nor client n's.      *)
LEMMA StrangersMessage ==
  ASSUME NEW k \in Nodes, NEW n \in Nodes \ {k}, NEW id \in MatchIds,
         id.advertiser # k, NEW m \in Message, m.matchId = id, SentBy(k, m),
         NEW p \in Nodes, (net \in Nets)', net'[p][m] > 0
  PROVE  CalledOff(n, id)'
<1>1. m.type = "claim" /\ m.user = k
  BY DEF SentBy
<1>2. m = ClaimMsg(id, k)
  <2>1. m \in [type : {"claim", "ack"}, matchId : MatchIds, user : Nodes]
    BY <1>1 DEF Message
  <2> QED BY <1>1, <2>1 DEF ClaimMsg
<1>3. net'[p][ClaimMsg(id, k)] + net'[p][AckMsg(id, k)] > 0
  <2>1. net'[p][AckMsg(id, k)] \in Nat
    BY MessageKinds, MatcherAssumption DEF Nets
  <2>2. net'[p][ClaimMsg(id, k)] \in Nat
    BY MessageKinds, MatcherAssumption DEF Nets
  <2> QED BY <1>2, <2>1, <2>2
<1> QED BY <1>3 DEF CalledOff

(* A claim stays punctual while nothing else about its game is sent and    *)
(* neither side's agent, nor the claimant's entry, is touched.             *)
LEMMA PunctualStays ==
  ASSUME NEW n \in Nodes, NEW id \in MatchIds, PunctualClaim(n, id),
         \A p \in {n, id.advertiser} :
           state'[p] = state[p] /\ matchId'[p] = matchId[p],
         matchMap'[n][id] = matchMap[n][id],
         actionAge'[id.advertiser] = actionAge[id.advertiser],
         net'[id.advertiser][ClaimMsg(id, n)] > 0,
         \A p \in {n, id.advertiser}, m \in Message :
           m.matchId = id /\ net'[p][m] > 0 =>
             net[p][m] > 0 \/ (p = id.advertiser /\ m = ClaimMsg(id, n))
  PROVE  PunctualClaim(n, id)'
<1>1. Awaits(n, id)' /\ Serves(id.advertiser, id)' /\ ~AdvertLapsed(id.advertiser)'
  BY DEF PunctualClaim, Awaits, Serves, AdvertLapsed
<1>2. Listed(matchMap[n], id)' /\ (id \notin Stale(matchMap[n]))'
  BY DEF PunctualClaim, Listed, Stale
<1>3. \A p \in {n, id.advertiser}, m \in Message :
        m.matchId = id /\ net'[p][m] > 0 =>
          p = id.advertiser /\ m = ClaimMsg(id, n)
  BY DEF PunctualClaim
<1> QED BY <1>1, <1>2, <1>3 DEF PunctualClaim

(* A message about another game neither moves a client that waits for an   *)
(* answer nor a host, nor touches the client's entry.                      *)
LEMMA OtherGamesMessage ==
  ASSUME PromptInv, NEW k \in Nodes, NEW id \in MatchIds,
         Awaits(k, id) \/ Serves(k, id),
         NEW m \in Message, m.matchId # id, Receive(k, m)
  PROVE  /\ state'[k] = state[k] /\ matchId'[k] = matchId[k]
         /\ actionAge'[k] = actionAge[k]
         /\ matchMap'[k][id] = matchMap[k][id]
         /\ net' = Consume(k, m)
<1>1. matchMap \in [Nodes -> Maps] /\ matchMap[k] \in Maps
  BY ClientParts DEF PromptInv, LocalInv, Functions
<1>2. \A e \in MatchIds : matchId[k] = e => e = id
  BY DEF Awaits, Serves
<1>3. CASE ReceiveAdvertise(k, m) \/ ReceiveUnadvertise(k, m)
  <2>1. UNCHANGED agentVars /\ net' = Consume(k, m)
    BY <1>3 DEF ReceiveAdvertise, ReceiveUnadvertise
  <2>2. matchMap'[k][id] = matchMap[k][id]
    <3>1. CASE ReceiveAdvertise(k, m)
      <4>1. matchMap'[k] = HandleAdvertise(matchMap[k], m.matchId)
        BY <1>1, <3>1 DEF ReceiveAdvertise
      <4> QED BY <1>1, <4>1 DEF HandleAdvertise, Maps
    <3>2. CASE ReceiveUnadvertise(k, m)
      <4>1. matchMap'[k] = Without(matchMap[k], {m.matchId})
        BY <1>1, <3>2 DEF ReceiveUnadvertise
      <4> QED BY <1>1, <4>1 DEF Without, Maps
    <3> QED BY <1>3, <3>1, <3>2
  <2> QED BY <2>1, <2>2 DEF agentVars
<1>4. CASE ReceiveClaim(k, m)
  <2> DEFINE mm == HandleClaim(matchMap[k], m.matchId, m.user)
  <2>1. ~Serves(k, m.matchId) /\ mm[id] = matchMap[k][id]
    <3>1. mm[id] = matchMap[k][id]
      BY <1>1 DEF HandleClaim, Maps
    <3> QED BY <3>1 DEF Serves, Awaits
  <2>2. /\ net' = Consume(k, m) /\ matchMap' = [matchMap EXCEPT ![k] = mm]
        /\ UNCHANGED <<state, matchId, actionAge>>
    BY <1>4, <2>1 DEF ReceiveClaim
  <2> HIDE DEF mm
  <2> QED BY <1>1, <2>1, <2>2
<1>5. CASE ReceiveAck(k, m)
  <2>1. ~Awaits(k, m.matchId)
    BY DEF Awaits, Serves
  <2>2. /\ net' = Consume(k, m) /\ UNCHANGED agentVars
        /\ \/ UNCHANGED matchMap
           \/ matchMap' = [matchMap EXCEPT ![k] = Closed(@, m.matchId, m.user)]
    BY <1>5, <2>1 DEF ReceiveAck, Won, Lost
  <2>3. Closed(matchMap[k], m.matchId, m.user)[id] = matchMap[k][id]
    BY <1>1 DEF Closed, Without, HandleAck, Maps
  <2> QED BY <1>1, <2>2, <2>3 DEF agentVars
<1> QED BY <1>3, <1>4, <1>5 DEF Receive

(* What a client waits for, and how it can stop waiting.                   *)
LEMMA WaitingParts ==
  ASSUME PromptInv, NEW n \in Nodes, NEW id \in MatchIds, Awaits(n, id)
  PROVE  /\ id.advertiser # n
         /\ id.advertiser \in Nodes
         /\ Listed(matchMap[n], id) => /\ matchMap[n][id] \in MatchState
                                       /\ matchMap[n][id].acksSeen = <<>>
         /\ actionAge[n] \in Nat
<1>1. LocalInv
  BY DEF PromptInv
<1>2. id.advertiser # n
  BY <1>1, ClientParts DEF Awaits, AgentInv
<1>3. id.advertiser \in Nodes
  BY DEF MatchIds
<1>4. Listed(matchMap[n], id) => /\ matchMap[n][id] \in MatchState
                                 /\ matchMap[n][id].acksSeen = <<>>
  BY <1>1, ClientParts DEF MapInv, Maps, Listed
<1>5. actionAge[n] \in Nat
  BY <1>1, ActionLimitType DEF LocalInv, Functions
<1> QED BY <1>2, <1>3, <1>4, <1>5

(* A client that waits for the answer to a claim, its entry of the game    *)
(* current, does nothing of its own accord but give its search up or forget*)
(* other games.                                                            *)
LEMMA WaitersStep ==
  ASSUME Renews, PromptInv, NEW n \in Nodes, NEW id \in MatchIds, Awaits(n, id),
         Listed(matchMap[n], id), id \notin Stale(matchMap[n]),
         actionAge[n] <= CLAIM_ACK_TIMEOUT,
         UserStep(n) \/ Poll(n) \/ CheckTimeouts(n)
  PROVE  /\ net' = net
         /\ \/ state'[n] = "IDLE"
            \/ /\ state'[n] = state[n] /\ matchId'[n] = matchId[n]
               /\ matchMap'[n][id] = matchMap[n][id]
<1>1. /\ matchMap \in [Nodes -> Maps] /\ state \in [Nodes -> AgentStates]
  BY DEF PromptInv, LocalInv, Functions
<1>2. state[n] = "JOINING_WAITING_ACK" /\ matchId[n] = id
  BY DEF Awaits
<1>3. CASE UserStep(n)
  <2>1. PICK outcome \in CallbackOutcomes : StopMatch(n, outcome)
    BY <1>2, <1>3 DEF UserStep, FindMatch
  <2>2. UNCHANGED net /\ state' = [state EXCEPT ![n] = "IDLE"]
    <3>1. outcome # "throws"
      BY DEF Renews
    <3>2. StopJoining(n) /\ ClearState(n)
      BY <1>2, <2>1, <3>1 DEF StopMatch, StopServing
    <3> QED BY <3>2 DEF StopJoining, ClearState
  <2> QED BY <1>1, <2>2
<1>4. CASE Poll(n)
  <2>1. ClaimLapsed(n)
    BY <1>2, <1>4 DEF Poll, Overdue
  <2> QED BY <1>2, <2>1, WaitingParts, MatcherAssumption DEF ClaimLapsed
<1>5. CASE CheckTimeouts(n)
  <2>1. matchMap'[n][id] = matchMap[n][id]
    BY <1>1, <1>5 DEF CheckTimeouts, Without, Maps
  <2> QED BY <1>5, <2>1 DEF CheckTimeouts, agentVars
<1> QED BY <1>3, <1>4, <1>5

(* The claimant's own step.                                                *)
LEMMA ClaimantsStep ==
  ASSUME Renews, PromptInv, PromptInv', NEW n \in Nodes, NEW id \in MatchIds,
         PunctualClaim(n, id), ClientStep(n)
  PROVE  PunctualClaim(n, id)' \/ CalledOff(n, id)'
<1> DEFINE host == id.advertiser
           claim == ClaimMsg(id, n)
<1>1. /\ Awaits(n, id) /\ Listed(matchMap[n], id) /\ id \notin Stale(matchMap[n])
      /\ net[host][claim] > 0
  BY DEF PunctualClaim
<1>2. host # n /\ host \in Nodes /\ actionAge[n] \in Nat
  BY <1>1, WaitingParts
<1>3. StepOf(n)
  BY ClientStepOf
<1>4. claim \in Message
  BY MessageKinds
<1>5. actionAge[n] <= CLAIM_ACK_TIMEOUT
  <2>1. n \in Fresh
    BY <1>1, <1>2 DEF PromptInv, Traffic, ClaimsBy
  <2> QED BY <2>1, MatcherAssumption DEF Fresh
<1>6. net'[host][claim] > 0
  <2>1. net'[host][claim] >= net[host][claim]
    BY <1>2, <1>3, <1>4 DEF StepOf, Moves
  <2>2. net'[host][claim] \in Nat /\ net[host][claim] \in Nat
    BY <1>2, <1>4, MatcherAssumption DEF PromptInv, Traffic, Nets
  <2> QED BY <1>1, <2>1, <2>2
<1>7. ASSUME NEW p \in {n, host}, NEW m \in Message, m.matchId = id, net'[p][m] > 0
      PROVE  net[p][m] > 0 \/ (p = host /\ m = claim)
  <2>1. net'[p][m] \in Nat /\ net[p][m] \in Nat
    BY <1>2, MatcherAssumption DEF PromptInv, Traffic, Nets
  <2>2. CASE p = n
    BY <1>3, <1>7, <2>1, <2>2 DEF StepOf, Moves
  <2>3. CASE p = host /\ ~(net[p][m] > 0)
    <3>1. SentBy(n, m)
      BY <1>2, <1>3, <1>7, <2>1, <2>3 DEF StepOf, Moves
    <3>2. m.type = "claim" /\ m.user = n
      BY <1>2, <1>7, <3>1 DEF SentBy
    <3>3. m \in [type : {"claim", "ack"}, matchId : MatchIds, user : Nodes]
      BY <3>2 DEF Message
    <3>4. m = claim
      BY <1>7, <3>2, <3>3 DEF ClaimMsg
    <3> QED BY <2>3, <3>4
  <2> QED BY <2>2, <2>3
<1>8. \/ state'[n] = "IDLE"
      \/ /\ state'[n] = state[n] /\ matchId'[n] = matchId[n]
         /\ matchMap'[n][id] = matchMap[n][id]
  <2>1. CASE UserStep(n) \/ Poll(n) \/ CheckTimeouts(n)
    BY <1>1, <1>5, <2>1, WaitersStep
  <2>2. CASE \E m \in Message : Receive(n, m)
    <3>1. PICK m \in Message : Receive(n, m)
      BY <2>2
    <3>2. net[n][m] > 0
      BY <3>1 DEF Receive, ReceiveAdvertise, ReceiveUnadvertise, ReceiveClaim,
                  ReceiveAck, Arrived
    <3>3. m.matchId # id
      BY <1>2, <3>2 DEF PunctualClaim
    <3> QED BY <1>1, <3>1, <3>3, OtherGamesMessage
  <2> QED BY <2>1, <2>2 DEF ClientStep
<1>9. CASE state'[n] = "IDLE"
  BY <1>9 DEF CalledOff
<1>10. CASE /\ state'[n] = state[n] /\ matchId'[n] = matchId[n]
            /\ matchMap'[n][id] = matchMap[n][id]
  <2>1. /\ state'[host] = state[host] /\ matchId'[host] = matchId[host]
        /\ actionAge'[host] = actionAge[host]
    BY <1>2, <1>3 DEF StepOf
  <2> QED BY <1>6, <1>7, <1>10, <2>1, PunctualStays
<1> QED BY <1>8, <1>9, <1>10

(* The host accepts the claim when it arrives: the game is listed, and no  *)
(* other claim on it is unanswered, so the claimant is the first.          *)
LEMMA HostAnswers ==
  ASSUME PromptInv, PromptInv', NEW n \in Nodes, NEW id \in MatchIds,
         PunctualClaim(n, id), ReceiveClaim(id.advertiser, ClaimMsg(id, n))
  PROVE  net'[n][AckMsg(id, n)] > 0
<1> DEFINE host == id.advertiser
           claim == ClaimMsg(id, n)
           mm == HandleClaim(matchMap[host], id, n)
           base == Consume(host, claim)
           ack == AckMsg(id, n)
<1>1. /\ Awaits(n, id) /\ Serves(host, id) /\ net[host][claim] > 0
  BY DEF PunctualClaim
<1>2. host # n /\ host \in Nodes
  BY <1>1, WaitingParts
<1>3. claim \in Message /\ ack \in Message /\ claim.matchId = id /\ claim.user = n
  BY MessageKinds DEF ClaimMsg
<1>4. /\ matchMap[host] \in Maps /\ Listed(matchMap[host], id)
      /\ matchMap[host][id].claimsSeen = <<>>
  <2>1. matchMap[host] \in Maps /\ HostInv(state[host], matchId[host], matchMap[host])
    BY <1>2, ClientParts DEF PromptInv
  <2>2. Listed(matchMap[host], id)
    BY <1>1, <1>2 DEF PromptInv, HostLists, Serves
  <2> QED BY <1>1, <2>1, <2>2 DEF HostInv, Serves
<1>5. NewClaim(matchMap[host], id, n)
  BY <1>4 DEF NewClaim, In
<1>6. Head(mm[id].claimsSeen) = n
  <2>1. mm[id] = WithClaim(matchMap[host][id], n)
    BY <1>4, <1>5 DEF HandleClaim, Maps
  <2>2. matchMap[host][id] \in MatchState
    BY <1>4 DEF Maps, Listed
  <2>3. mm[id].claimsSeen = Append(<<>>, n)
    BY <1>4, <2>1, <2>2 DEF WithClaim, MatchState
  <2>4. Head(Append(<<>>, n)) = n
    OBVIOUS
  <2> QED BY <2>3, <2>4
<1>7. AcceptClaim(host, id, mm, base, {})
  BY <1>1, <1>3, <1>5 DEF ReceiveClaim
<1>8. net' = Broadcast(host, ack, Broadcast(host, ack, base))
  BY <1>6, <1>7 DEF AcceptClaim
<1>9. base \in Nets
  BY <1>1, <1>2, <1>3, ConsumeMoves DEF PromptInv, Traffic
<1> HIDE DEF base, mm, ack, claim, host
<1>10. Broadcast(host, ack, base) \in Nets
  BY <1>2, <1>3, <1>9, BroadcastNet
<1>11. Broadcast(host, ack, base)[n][ack] \in 0..MaxCopies
  BY <1>3, <1>10 DEF Nets
<1>12. net'[n][ack] = Older(Broadcast(host, ack, base)[n][ack], MaxCopies)
  <2> DEFINE from == Broadcast(host, ack, base)
  <2>1. from \in Nets /\ net' = Broadcast(host, ack, from)
    BY <1>8, <1>10
  <2> HIDE DEF from
  <2>2. net'[n][ack] = Older(from[n][ack], MaxCopies)
    BY <1>2, <1>3, <2>1 DEF Broadcast, Nets
  <2> QED BY <2>2 DEF from
<1>13. net'[n][ack] > 0
  BY <1>11, <1>12, OlderGrows
<1> QED BY <1>13 DEF ack

(* The host's step.                                                        *)
LEMMA HostsStep ==
  ASSUME PromptInv, PromptInv', NEW n \in Nodes, NEW id \in MatchIds,
         PunctualClaim(n, id), ClientStep(id.advertiser)
  PROVE  PunctualClaim(n, id)' \/ AckOnItsWay(n, id)' \/ CalledOff(n, id)'
<1> DEFINE host == id.advertiser
           claim == ClaimMsg(id, n)
<1>1. /\ Awaits(n, id) /\ Listed(matchMap[n], id) /\ id \notin Stale(matchMap[n])
      /\ net[host][claim] > 0 /\ Serves(host, id) /\ ~AdvertLapsed(host)
  BY DEF PunctualClaim
<1>2. host # n /\ host \in Nodes /\ n \in Nodes \ {host}
  BY <1>1, WaitingParts
<1>3. /\ state'[n] = state[n] /\ matchId'[n] = matchId[n]
      /\ matchMap'[n] = matchMap[n]
  BY <1>2, ClientStepOf DEF StepOf
<1>4. Awaits(n, id)' /\ Listed(matchMap[n], id)' /\ (id \notin Stale(matchMap[n]))'
  BY <1>1, <1>3 DEF Awaits, Listed, Stale
<1>5. state[host] = "SERVING_WAITING_CLAIMS" /\ matchId[host] = id
  BY <1>1 DEF Serves
<1>6. /\ state \in [Nodes -> AgentStates]
      /\ net \in Nets /\ LocalInv
  BY DEF PromptInv, LocalInv, Functions, Traffic
<1>7. CASE UserStep(host)
  <2>1. PICK outcome \in CallbackOutcomes : StopMatch(host, outcome)
    BY <1>5, <1>7 DEF UserStep, FindMatch
  <2>2. net' = Broadcast(host, UnadvertiseMsg(id), net)
    BY <1>5, <2>1 DEF StopMatch, StopServing, StopJoining
  <2>3. UnadvertiseMsg(id) \in Message
    BY MessageKinds
  <2>4. net'[n][UnadvertiseMsg(id)] = Older(net[n][UnadvertiseMsg(id)], MaxCopies)
    BY <1>2, <1>6, <2>2, <2>3 DEF Broadcast, Nets
  <2>5. net[n][UnadvertiseMsg(id)] \in 0..MaxCopies
    BY <1>6, <2>3 DEF Nets
  <2>6. net'[n][UnadvertiseMsg(id)] > 0
    BY <2>4, <2>5, OlderGrows
  <2> QED BY <2>6 DEF CalledOff
<1>8. CASE Poll(host)
  BY <1>1, <1>5, <1>8 DEF Poll, Overdue
<1>9. CASE CheckTimeouts(host)
  <2>1. UNCHANGED <<state, matchId, actionAge, net>>
    BY <1>9 DEF CheckTimeouts, agentVars
  <2> QED BY <1>1, <1>2, <1>3, <2>1, PunctualStays
<1>10. ASSUME NEW m \in Message, Receive(host, m), m.matchId # id
       PROVE  PunctualClaim(n, id)'
  <2>1. /\ state'[host] = state[host] /\ matchId'[host] = matchId[host]
        /\ actionAge'[host] = actionAge[host] /\ net' = Consume(host, m)
    BY <1>1, <1>2, <1>10, OtherGamesMessage
  <2>2. net[host][m] > 0
    BY <1>10 DEF Receive, ReceiveAdvertise, ReceiveUnadvertise, ReceiveClaim,
                 ReceiveAck, Arrived
  <2>3. /\ \A x \in Message \ {m} : net'[host][x] = net[host][x]
        /\ net'[n] = net[n]
    BY <1>2, <1>6, <2>1, <2>2, ConsumeMoves
  <2>4. \A x \in Message : x.matchId = id =>
          net'[host][x] = net[host][x] /\ net'[n][x] = net[n][x]
    BY <1>10, <2>3
  <2>5. claim \in Message /\ claim.matchId = id
    BY MessageKinds DEF ClaimMsg
  <2> QED BY <1>1, <1>3, <2>1, <2>4, <2>5, PunctualStays
<1>11. ASSUME NEW m \in Message, Receive(host, m), m.matchId = id
       PROVE  AckOnItsWay(n, id)'
  <2>1. net[host][m] > 0
    BY <1>11 DEF Receive, ReceiveAdvertise, ReceiveUnadvertise, ReceiveClaim,
                 ReceiveAck, Arrived
  <2>2. m = claim
    BY <1>2, <1>11, <2>1 DEF PunctualClaim
  <2>3. ReceiveClaim(host, claim)
    <3>1. claim.type = "claim"
      BY DEF ClaimMsg
    <3> QED BY <1>11, <2>2, <3>1 DEF Receive, ReceiveAdvertise,
               ReceiveUnadvertise, ReceiveAck, Arrived
  <2>4. net'[n][AckMsg(id, n)] > 0
    BY <2>3, HostAnswers
  <2> QED BY <1>4, <2>4 DEF AckOnItsWay
<1> QED BY <1>7, <1>8, <1>9, <1>10, <1>11 DEF ClientStep

(* Whatever any other client does.                                         *)
LEMMA OthersStep ==
  ASSUME PromptInv, PromptInv', NEW n \in Nodes, NEW id \in MatchIds,
         PunctualClaim(n, id), NEW k \in Nodes \ {n, id.advertiser}, ClientStep(k)
  PROVE  PunctualClaim(n, id)' \/ CalledOff(n, id)'
<1> DEFINE host == id.advertiser
           claim == ClaimMsg(id, n)
<1>1. Awaits(n, id) /\ net[host][claim] > 0
  BY DEF PunctualClaim
<1>2. host # n /\ host \in Nodes /\ k # n /\ k # host
  BY <1>1, WaitingParts
<1>3. StepOf(k)
  BY ClientStepOf
<1>4. \A p \in {n, host}, m \in Message :
        net'[p][m] \in Nat /\ net[p][m] \in Nat /\ net'[p][m] >= net[p][m]
  BY <1>2, <1>3, MatcherAssumption DEF StepOf, Moves, PromptInv, Traffic, Nets
<1>5. claim \in Message
  BY MessageKinds
<1>6. net'[host][claim] > 0
  BY <1>1, <1>4, <1>5
<1>7. CASE \E p \in {n, host}, m \in Message :
              m.matchId = id /\ net'[p][m] > 0 /\ ~(net[p][m] > 0)
  <2>1. PICK p \in {n, host}, m \in Message :
              m.matchId = id /\ net'[p][m] > 0 /\ ~(net[p][m] > 0)
    BY <1>7
  <2>2. SentBy(k, m)
    BY <1>2, <1>3, <1>4, <2>1 DEF StepOf, Moves
  <2>3. (net \in Nets)'
    BY DEF PromptInv, Traffic, Nets
  <2> QED BY <1>2, <2>1, <2>2, <2>3, StrangersMessage
<1>8. CASE ~\E p \in {n, host}, m \in Message :
               m.matchId = id /\ net'[p][m] > 0 /\ ~(net[p][m] > 0)
  <2>1. \A p \in {n, host} :
          /\ state'[p] = state[p] /\ matchId'[p] = matchId[p]
          /\ matchMap'[p] = matchMap[p] /\ actionAge'[p] = actionAge[p]
    BY <1>2, <1>3 DEF StepOf
  <2> QED BY <1>6, <1>8, <2>1, PunctualStays
<1> QED BY <1>7, <1>8

(* A message about the game a client waits for, with the host's ack of its *)
(* own claim on the way and nobody else after the game.                    *)
LEMMA AwaitedMessage ==
  ASSUME PromptInv, PromptInv', NEW n \in Nodes, NEW id \in MatchIds,
         AckOnItsWay(n, id), ~CalledOff(n, id),
         NEW m \in Message, m.matchId = id, Receive(n, m)
  PROVE  IF m = AckMsg(id, n)
         THEN joined'[Pairing(id, n)] = joined[Pairing(id, n)] + 1
         ELSE /\ state'[n] = state[n] /\ matchId'[n] = matchId[n]
              /\ Listed(matchMap'[n], id)
              /\ ~(matchMap'[n][id].seenAge > ADVERTISE_TIMEOUT)
              /\ net' = Consume(n, m)
<1>1. Awaits(n, id) /\ Listed(matchMap[n], id) /\ id \notin Stale(matchMap[n])
  BY DEF AckOnItsWay
<1>2. /\ matchMap \in [Nodes -> Maps] /\ matchMap[n] \in Maps
      /\ net \in Nets /\ MapInv(matchMap[n], claimed)
      /\ joined \in Counts
  BY ClientParts DEF PromptInv, LocalInv, Functions, Traffic, HistoryInv
<1>3. /\ matchMap[n][id] \in MatchState /\ matchMap[n][id].acksSeen = <<>>
      /\ ~(matchMap[n][id].seenAge > ADVERTISE_TIMEOUT)
  BY <1>1, WaitingParts DEF Stale
<1>4. net[n][m] > 0
  BY DEF Receive, ReceiveAdvertise, ReceiveUnadvertise, ReceiveClaim,
         ReceiveAck, Arrived
<1>5. CASE ReceiveAdvertise(n, m)
  <2> DEFINE mm == HandleAdvertise(matchMap[n], id)
  <2>1. mm[id] \in MatchState /\ mm[id].seenAge = 0
    BY <1>2, AdvertiseEntry
  <2>2. /\ matchMap' = [matchMap EXCEPT ![n] = mm] /\ UNCHANGED agentVars
        /\ net' = Consume(n, m)
    BY <1>5 DEF ReceiveAdvertise
  <2>3. m # AckMsg(id, n)
    BY <1>5 DEF ReceiveAdvertise, Arrived, AckMsg
  <2>4. mm[id] # None
    BY <2>1, MatcherAssumption
  <2> HIDE DEF mm
  <2> QED BY <1>2, <2>1, <2>2, <2>3, <2>4, MatcherAssumption DEF agentVars, Listed
<1>6. CASE ReceiveUnadvertise(n, m)
  <2>1. m.type = "unadvertise"
    BY <1>6 DEF ReceiveUnadvertise, Arrived
  <2>2. m \in [type : {"advertise", "unadvertise"}, matchId : MatchIds]
    BY <2>1 DEF Message
  <2>3. m = UnadvertiseMsg(id)
    BY <2>1, <2>2 DEF UnadvertiseMsg
  <2> QED BY <1>4, <2>3 DEF CalledOff
<1>7. CASE ReceiveClaim(n, m)
  <2> DEFINE mm == HandleClaim(matchMap[n], id, m.user)
  <2>1. Listed(mm, id) /\ mm[id].seenAge = matchMap[n][id].seenAge
    <3>1. CASE mm = matchMap[n]
      BY <1>1, <3>1
    <3>2. CASE mm # matchMap[n]
      <4>1. mm[id] = WithClaim(matchMap[n][id], m.user)
        BY <1>2, <3>2 DEF HandleClaim, Maps
      <4>2. m.user \in Nodes /\ Pairing(id, m.user) \in claimed
        BY <1>7, ArrivedMessage DEF PromptInv, ReceiveClaim
      <4>3. Listed(mm, id)
        BY <1>1, <1>2, <4>2, ClaimMap
      <4>4. WithClaim(matchMap[n][id], m.user).seenAge = matchMap[n][id].seenAge
        BY <1>3 DEF WithClaim, MatchState
      <4> QED BY <4>1, <4>3, <4>4
    <3> QED BY <3>1, <3>2
  <2>2. ~Serves(n, id)
    BY <1>1 DEF Serves, Awaits
  <2>3. /\ net' = Consume(n, m) /\ matchMap' = [matchMap EXCEPT ![n] = mm]
        /\ UNCHANGED <<state, matchId>>
    BY <1>7, <2>2 DEF ReceiveClaim
  <2>4. m # AckMsg(id, n)
    BY <1>7 DEF ReceiveClaim, Arrived, AckMsg
  <2> HIDE DEF mm
  <2> QED BY <1>2, <1>3, <2>1, <2>3, <2>4
<1>8. CASE ReceiveAck(n, m)
  <2>1. m.type = "ack"
    BY <1>8 DEF ReceiveAck, Arrived
  <2>2. m \in [type : {"claim", "ack"}, matchId : MatchIds, user : Nodes]
    BY <2>1 DEF Message
  <2>3. m = AckMsg(id, m.user) /\ m.user \in Nodes
    BY <2>1, <2>2 DEF AckMsg
  <2>4. m.user = n
    <3> SUFFICES ASSUME m.user # n PROVE FALSE
      OBVIOUS
    <3>1. net[n][ClaimMsg(id, m.user)] \in Nat /\ net[n][AckMsg(id, m.user)] \in Nat
      BY <1>2, <2>3, MessageKinds, MatcherAssumption DEF Nets
    <3>2. net[n][ClaimMsg(id, m.user)] + net[n][AckMsg(id, m.user)] > 0
      BY <1>4, <2>3, <3>1
    <3> QED BY <2>3, <3>2 DEF CalledOff
  <2> DEFINE mm == HandleAck(matchMap[n], id, n)
  <2>5. Head(mm[id].acksSeen) = n
    <3>1. mm[id].acksSeen = <<n>>
      BY <1>1, <1>2, AckMap
    <3> HIDE DEF mm
    <3> QED BY <3>1
  <2>6. NewAck(matchMap[n], id, n)
    BY <1>1, <1>3 DEF NewAck, In
  <2>7. joined' = [joined EXCEPT ![Pairing(id, n)] = @ + 1]
    <3> HIDE DEF mm
    <3>1. /\ Won(n, mm, id) /\ ~Lost(n, mm, id)
      BY <1>1, <2>5 DEF Won, Lost
    <3> QED BY <1>1, <1>8, <2>4, <2>6, <3>1 DEF ReceiveAck, mm
  <2>8. joined'[Pairing(id, n)] = joined[Pairing(id, n)] + 1
    BY <1>2, <2>7, MessageKinds DEF Counts
  <2> QED BY <2>3, <2>4, <2>8
<1> QED BY <1>5, <1>6, <1>7, <1>8 DEF Receive

(* While the ack is on its way.                                            *)
LEMMA AckStep ==
  ASSUME Renews, Outlasts, PromptInv, PromptInv', NEW n \in Nodes,
         NEW id \in MatchIds, AckOnItsWay(n, id), ~CalledOff(n, id),
         NEW k \in Nodes, ClientStep(k)
  PROVE  IF net'[n][AckMsg(id, n)] < net[n][AckMsg(id, n)]
         THEN joined'[Pairing(id, n)] = joined[Pairing(id, n)] + 1
         ELSE AckOnItsWay(n, id)' \/ CalledOff(n, id)'
<1> DEFINE ack == AckMsg(id, n)
<1>1. /\ Awaits(n, id) /\ Listed(matchMap[n], id) /\ id \notin Stale(matchMap[n])
      /\ net[n][ack] > 0
  BY DEF AckOnItsWay
<1>2. /\ ack \in Message /\ net[n][ack] \in Nat /\ net'[n][ack] \in Nat
      /\ net \in Nets
  BY MessageKinds, MatcherAssumption DEF PromptInv, Traffic, Nets
<1>3. CASE k # n
  <2>1. StepOf(k)
    BY ClientStepOf
  <2>2. /\ state'[n] = state[n] /\ matchId'[n] = matchId[n]
        /\ matchMap'[n] = matchMap[n] /\ net'[n][ack] >= net[n][ack]
    BY <1>2, <1>3, <2>1 DEF StepOf, Moves
  <2>3. AckOnItsWay(n, id)'
    BY <1>1, <1>2, <2>2 DEF AckOnItsWay, Awaits, Listed, Stale
  <2> QED BY <1>2, <2>2, <2>3
<1>4. CASE k = n /\ (UserStep(n) \/ Poll(n) \/ CheckTimeouts(n))
  <2>1. actionAge[n] <= CLAIM_ACK_TIMEOUT
    BY <1>1 DEF PromptInv, Traffic, AcksInTime, InTime
  <2>2. /\ net' = net
        /\ \/ state'[n] = "IDLE"
           \/ /\ state'[n] = state[n] /\ matchId'[n] = matchId[n]
              /\ matchMap'[n][id] = matchMap[n][id]
    BY <1>1, <1>4, <2>1, WaitersStep
  <2>3. AckOnItsWay(n, id)' \/ CalledOff(n, id)'
    <3>1. CASE state'[n] = "IDLE"
      BY <3>1 DEF CalledOff
    <3>2. CASE /\ state'[n] = state[n] /\ matchId'[n] = matchId[n]
               /\ matchMap'[n][id] = matchMap[n][id]
      BY <1>1, <2>2, <3>2 DEF AckOnItsWay, Awaits, Listed, Stale
    <3> QED BY <2>2, <3>1, <3>2
  <2> QED BY <1>2, <2>2, <2>3
<1>5. ASSUME NEW m \in Message, Receive(n, m)
      PROVE  IF net'[n][ack] < net[n][ack]
             THEN joined'[Pairing(id, n)] = joined[Pairing(id, n)] + 1
             ELSE AckOnItsWay(n, id)' \/ CalledOff(n, id)'
  <2>1. net[n][m] > 0
    BY <1>5 DEF Receive, ReceiveAdvertise, ReceiveUnadvertise, ReceiveClaim,
                ReceiveAck, Arrived
  <2>2. CASE m = ack
    <3>1. m.matchId = id
      BY <2>2 DEF AckMsg
    <3>2. joined'[Pairing(id, n)] = joined[Pairing(id, n)] + 1
      BY <1>5, <2>2, <3>1, AwaitedMessage
    <3>3. net' = Consume(n, m)
      <4>1. ReceiveAck(n, m)
        <5>1. m.type = "ack"
          BY <2>2 DEF AckMsg
        <5> QED BY <1>5, <5>1 DEF Receive, ReceiveAdvertise,
                   ReceiveUnadvertise, ReceiveClaim, Arrived
      <4>2. joined[Pairing(id, n)] \in Nat
        BY MessageKinds, ClientParts DEF PromptInv, HistoryInv, Counts
      <4>3. joined' # joined
        BY <3>2, <4>2
      <4> QED BY <4>1, <4>3 DEF ReceiveAck, StartMatch, historyVars
    <3>4. net'[n][ack] < net[n][ack]
      BY <1>2, <2>1, <2>2, <3>3, ConsumeMoves
    <3> QED BY <3>2, <3>4
  <2>3. CASE m # ack
    <3>1. /\ state'[n] = state[n] /\ matchId'[n] = matchId[n]
          /\ Listed(matchMap'[n], id)
          /\ ~(matchMap'[n][id].seenAge > ADVERTISE_TIMEOUT)
          /\ net' = Consume(n, m)
      <4>1. CASE m.matchId = id
        BY <1>5, <2>3, <4>1, AwaitedMessage
      <4>2. CASE m.matchId # id
        <5>1. /\ state'[n] = state[n] /\ matchId'[n] = matchId[n]
              /\ matchMap'[n][id] = matchMap[n][id]
              /\ net' = Consume(n, m)
          BY <1>1, <1>5, <4>2, OtherGamesMessage
        <5> QED BY <1>1, <5>1 DEF Listed, Stale
      <4> QED BY <4>1, <4>2
    <3>2. net'[n][ack] = net[n][ack]
      BY <1>2, <2>1, <2>3, <3>1, ConsumeMoves
    <3>3. AckOnItsWay(n, id)'
      BY <1>1, <3>1, <3>2 DEF AckOnItsWay, Awaits, Listed, Stale
    <3> QED BY <1>2, <3>2, <3>3
  <2> QED BY <2>2, <2>3
<1> QED BY <1>3, <1>4, <1>5 DEF ClientStep

(* A punctual claim is answered, and its answer starts the game on the     *)
(* other side too, unless one of the two called the search off or somebody *)
(* else is after the same game (handleClaimMessage, handleMatchStateUpdate,*)
(* poll, checkTimeouts).  The proof uses both relations of the timeouts. By*)
(* the second, a host that comes back to a game it had left finds no claim *)
(* on record that is so old that its claimant may already have given up.   *)
THEOREM PunctualClaimsMatch ==
  ASSUME Renews, Outlasts
  PROVE  PromptSpec => PunctualClaimMatches
<1> DEFINE Punctuality ==
      \A n \in Nodes, id \in MatchIds :
        /\ PunctualClaim(n, id) =>
             PunctualClaim(n, id)' \/ AckOnItsWay(n, id)' \/ CalledOff(n, id)'
        /\ AckOnItsWay(n, id) /\ ~CalledOff(n, id) =>
             IF net'[n][AckMsg(id, n)] < net[n][AckMsg(id, n)]
             THEN joined'[Pairing(id, n)] = joined[Pairing(id, n)] + 1
             ELSE AckOnItsWay(n, id)' \/ CalledOff(n, id)'
<1>1. ASSUME PromptInv, PromptInv', [PromptNext]_vars
      PROVE  [Punctuality]_vars
  <2>1. CASE UNCHANGED vars
    BY <2>1
  <2>2. ASSUME NEW k \in Nodes, ClientStep(k), NEW n \in Nodes, NEW id \in MatchIds
        PROVE  /\ PunctualClaim(n, id) =>
                    \/ PunctualClaim(n, id)' \/ AckOnItsWay(n, id)'
                    \/ CalledOff(n, id)'
               /\ AckOnItsWay(n, id) /\ ~CalledOff(n, id) =>
                    IF net'[n][AckMsg(id, n)] < net[n][AckMsg(id, n)]
                    THEN joined'[Pairing(id, n)] = joined[Pairing(id, n)] + 1
                    ELSE AckOnItsWay(n, id)' \/ CalledOff(n, id)'
    <3>1. PunctualClaim(n, id) =>
            PunctualClaim(n, id)' \/ AckOnItsWay(n, id)' \/ CalledOff(n, id)'
      <4>1. CASE k = n
        BY <1>1, <2>2, <4>1, ClaimantsStep
      <4>2. CASE k = id.advertiser
        BY <1>1, <2>2, <4>2, HostsStep
      <4>3. CASE k # n /\ k # id.advertiser
        BY <1>1, <2>2, <4>3, OthersStep
      <4> QED BY <4>1, <4>2, <4>3
    <3> QED BY <1>1, <2>2, <3>1, AckStep
  <2>3. CASE PromptTick
    <3>1. \A p \in Nodes, m \in Message : ~(net[p][m] > 0)
      BY <2>3 DEF PromptTick, Quiet
    <3>2. ASSUME NEW n \in Nodes, NEW id \in MatchIds
          PROVE  ~PunctualClaim(n, id) /\ ~AckOnItsWay(n, id)
      <4>1. id.advertiser \in Nodes
        BY DEF MatchIds
      <4>2. ClaimMsg(id, n) \in Message /\ AckMsg(id, n) \in Message
        BY MessageKinds
      <4> QED BY <3>1, <4>1, <4>2 DEF PunctualClaim, AckOnItsWay
    <3> QED BY <3>2
  <2> QED BY <1>1, <2>1, <2>2, <2>3 DEF PromptNext
<1>2. PromptSpec => []PromptInv
  BY PromptInvariance
<1>3. PromptInv /\ PromptInv' /\ [PromptNext]_vars => [Punctuality]_vars
  BY <1>1
<1>4. PromptSpec => [][Punctuality]_vars
  BY <1>2, <1>3, PTL DEF PromptSpec
<1> QED BY <1>4 DEF PunctualClaimMatches

=============================================================================
