--------------------------- MODULE MatcherProofs ---------------------------
(***************************************************************************)
(* The safety of the matching protocol for every set of clients, games and *)
(* wishes and for every value of the timeouts.  IInv of Matcher is         *)
(* inductive.  It is proved client by client: a step changes the state of  *)
(* one client, and what the others believe stays true because claimed and  *)
(* filled only grow.                                                       *)
(***************************************************************************)
EXTENDS Matcher, FiniteSetTheorems, WellFoundedInduction, TLAPS

Maps == [MatchIds -> MatchState \cup {None}]
Nets == [Nodes -> [Message -> 0..MaxCopies]]
Counts == [Pairings -> Nat]

(* The claims a map records are among C, and no game in it is acked.       *)
MapInv(mm, C) ==
  /\ mm \in Maps
  /\ \A id \in MatchIds : Listed(mm, id) =>
       /\ mm[id].acksSeen = <<>>
       /\ \A i \in DOMAIN mm[id].claimsSeen :
            Pairing(id, mm[id].claimsSeen[i]) \in C

(* The claims in flight are among C, the acks among the matches F counts.  *)
NetInv(base, C, F) ==
  /\ base \in Nets
  /\ \A n \in Nodes, id \in MatchIds, user \in Nodes :
       /\ base[n][ClaimMsg(id, user)] > 0 => Pairing(id, user) \in C
       /\ base[n][AckMsg(id, user)] > 0 => F[Pairing(id, user)] > 0

(* The agent of client n alone.                                            *)
AgentInv(n, st, mid, target) ==
  /\ st \in AgentStates
  /\ mid \in MatchIds \cup {None}
  /\ target \in Wishes \cup {None}
  /\ st = "IDLE" <=> mid = None
  /\ st = "IDLE" <=> target = None
  /\ st = "SERVING_WAITING_CLAIMS" => mid = getMatchID(n, Head(target))
  /\ st = "JOINING_WAITING_ACK" =>
       mid.advertiser # n /\ In(mid.match, target)

(* A host has answered every claim its map mm records on its game.         *)
HostInv(st, mid, mm) ==
  st = "SERVING_WAITING_CLAIMS" /\ Listed(mm, mid) => mm[mid].claimsSeen = <<>>

HistoryInv(C, F, J) ==
  /\ C \subseteq Pairings /\ F \in Counts /\ J \in Counts
  /\ \A p \in C : p.matchId.advertiser # p.user
  /\ \A p \in Pairings : F[p] > 0 => p \in C
  /\ \A p \in Pairings : J[p] > 0 => F[p] > 0

Functions ==
  /\ matchMap \in [Nodes -> Maps]
  /\ state \in [Nodes -> AgentStates]
  /\ matchId \in [Nodes -> MatchIds \cup {None}]
  /\ targetMatch \in [Nodes -> Wishes \cup {None}]
  /\ actionAge \in [Nodes -> 0..ActionLimit]

ClientInv(n) ==
  /\ MapInv(matchMap[n], claimed)
  /\ AgentInv(n, state[n], matchId[n], targetMatch[n])
  /\ HostInv(state[n], matchId[n], matchMap[n])

(* Searches are counted.                                                   *)
Counting == searches \in [Nodes -> Nat]

(* IInv, but for Counting, arranged by client.                             *)
LocalInv ==
  /\ Functions
  /\ \A n \in Nodes : ClientInv(n)
  /\ NetInv(net, claimed, filled)
  /\ HistoryInv(claimed, filled, joined)

(* The two arrangements of the inductive invariant say the same.           *)
LEMMA SameInvariant == IInv <=> LocalInv /\ Counting
<1>1. IInv => LocalInv /\ Counting
  BY DEF IInv, LocalInv, TypeOK, AgentConsistent, NoAckedGame,
         HostAnswersClaims, MessagesAreReal, AcceptsOnlyClaimants,
         JoinedOnlyIfAccepted, Functions, ClientInv, MapInv, AgentInv,
         HostInv, NetInv, HistoryInv, Maps, Nets, Counts, Counting
<1>2. LocalInv /\ Counting => IInv
  <2> SUFFICES ASSUME LocalInv, Counting PROVE IInv
    OBVIOUS
  <2>1. TypeOK
    BY DEF LocalInv, TypeOK, Functions, NetInv, HistoryInv, Maps, Nets, Counts,
           Counting
  <2>2. AgentConsistent
    BY DEF LocalInv, AgentConsistent, ClientInv, AgentInv
  <2>3. NoAckedGame
    BY DEF LocalInv, NoAckedGame, ClientInv, MapInv
  <2>4. HostAnswersClaims
    BY DEF LocalInv, HostAnswersClaims, ClientInv, HostInv
  <2>5. MessagesAreReal
    BY DEF LocalInv, MessagesAreReal, ClientInv, MapInv, NetInv
  <2>6. AcceptsOnlyClaimants /\ JoinedOnlyIfAccepted
    BY DEF LocalInv, AcceptsOnlyClaimants, JoinedOnlyIfAccepted, HistoryInv
  <2> QED BY <2>1, <2>2, <2>3, <2>4, <2>5, <2>6 DEF IInv
<1> QED BY <1>1, <1>2

-----------------------------------------------------------------------------
(* Operators on one client's map.                                          *)

(* What a map records stays real as more claims are published.             *)
LEMMA MapGrows ==
  ASSUME NEW mm, NEW C, NEW D, MapInv(mm, C), C \subseteq D
  PROVE  MapInv(mm, D)
BY DEF MapInv

(* Removing games from a map keeps it good.                                *)
LEMMA WithoutMap ==
  ASSUME NEW mm, NEW C, MapInv(mm, C), NEW ids
  PROVE  MapInv(Without(mm, ids), C)
BY MatcherAssumption DEF MapInv, Maps, Without, Listed

(* A new entry is well formed.                                             *)
LEMMA NewMatchType == NewMatch \in MatchState
BY MatcherAssumption DEF NewMatch, MatchState, SeenLimit


(* An advert keeps a map well formed.                                      *)
LEMMA AdvertiseType ==
  ASSUME NEW mm \in Maps, NEW id \in MatchIds
  PROVE  HandleAdvertise(mm, id) \in Maps
<1>1. \A match \in MatchState : [match EXCEPT !.seenAge = 0] \in MatchState
  BY MatcherAssumption DEF MatchState, SeenLimit
<1>2. (IF mm[id] = None THEN NewMatch ELSE [mm[id] EXCEPT !.seenAge = 0])
        \in MatchState
  BY <1>1, NewMatchType DEF Maps
<1> QED BY <1>2 DEF HandleAdvertise, Maps

(* An advert lists the game, and touches nothing but its age.              *)
LEMMA AdvertiseMap ==
  ASSUME NEW mm, NEW C, MapInv(mm, C), NEW id \in MatchIds
  PROVE  /\ MapInv(HandleAdvertise(mm, id), C)
         /\ Listed(HandleAdvertise(mm, id), id)
         /\ \A k \in MatchIds \ {id} : HandleAdvertise(mm, id)[k] = mm[k]
         /\ HandleAdvertise(mm, id)[id].claimsSeen =
              IF Listed(mm, id) THEN mm[id].claimsSeen ELSE <<>>
<1> DEFINE new == IF mm[id] = None THEN NewMatch ELSE [mm[id] EXCEPT !.seenAge = 0]
<1>1. /\ new \in MatchState
      /\ new.acksSeen = <<>>
      /\ new.claimsSeen = IF Listed(mm, id) THEN mm[id].claimsSeen ELSE <<>>
  <2>1. CASE mm[id] = None
    BY <2>1, NewMatchType DEF NewMatch, Listed
  <2>2. CASE mm[id] # None
    <3>1. mm[id] \in MatchState /\ mm[id].acksSeen = <<>>
      BY <2>2 DEF MapInv, Maps, Listed
    <3> QED BY <2>2, <3>1, MatcherAssumption DEF MatchState, SeenLimit, Listed
  <2> QED BY <2>1, <2>2
<1>2. HandleAdvertise(mm, id) = [mm EXCEPT ![id] = new]
  BY DEF HandleAdvertise
<1>3. None \notin MatchState
  BY MatcherAssumption
<1>4. /\ HandleAdvertise(mm, id) \in Maps
      /\ HandleAdvertise(mm, id)[id] = new
      /\ \A k \in MatchIds \ {id} : HandleAdvertise(mm, id)[k] = mm[k]
  BY <1>1, <1>2 DEF MapInv, Maps
<1> HIDE DEF new
<1>5. ASSUME NEW k \in MatchIds, Listed(HandleAdvertise(mm, id), k)
      PROVE  /\ HandleAdvertise(mm, id)[k].acksSeen = <<>>
             /\ \A i \in DOMAIN HandleAdvertise(mm, id)[k].claimsSeen :
                  Pairing(k, HandleAdvertise(mm, id)[k].claimsSeen[i]) \in C
  <2>1. CASE k # id
    BY <1>4, <1>5, <2>1 DEF MapInv, Listed
  <2>2. CASE k = id /\ Listed(mm, id)
    BY <1>1, <1>4, <2>2 DEF MapInv
  <2>3. CASE k = id /\ ~Listed(mm, id)
    BY <1>1, <1>4, <2>3
  <2> QED BY <2>1, <2>2, <2>3
<1>6. Listed(HandleAdvertise(mm, id), id)
  BY <1>1, <1>3, <1>4 DEF Listed
<1> QED BY <1>1, <1>4, <1>5, <1>6 DEF MapInv

(* A claim that is among C may be recorded.                                *)
LEMMA ClaimMap ==
  ASSUME NEW mm, NEW C, MapInv(mm, C), NEW id \in MatchIds, NEW user \in Nodes,
         Pairing(id, user) \in C
  PROVE  /\ MapInv(HandleClaim(mm, id, user), C)
         /\ \A k \in MatchIds : Listed(HandleClaim(mm, id, user), k) <=> Listed(mm, k)
         /\ \A k \in MatchIds \ {id} : HandleClaim(mm, id, user)[k] = mm[k]
<1>1. CASE ~NewClaim(mm, id, user)
  BY <1>1 DEF HandleClaim
<1>2. CASE NewClaim(mm, id, user)
  <2> DEFINE old == mm[id]
             new == WithClaim(old, user)
  <2>1. old \in MatchState /\ old.acksSeen = <<>> /\ old.claimsSeen \in Seq(Nodes)
    BY <1>2 DEF NewClaim, MapInv, Maps, Listed, MatchState
  <2> HIDE DEF old
  <2>2. /\ new \in MatchState
        /\ new.acksSeen = <<>>
        /\ new.claimsSeen = Append(old.claimsSeen, user)
    <3>1. Append(old.claimsSeen, user) \in Seq(Nodes)
      BY <2>1
    <3> QED BY <2>1, <3>1 DEF MatchState, WithClaim
  <2>3. HandleClaim(mm, id, user) = [mm EXCEPT ![id] = new]
    BY <1>2 DEF HandleClaim, old
  <2> HIDE DEF new
  <2>4. /\ HandleClaim(mm, id, user) \in Maps
        /\ HandleClaim(mm, id, user)[id] = new
        /\ \A k \in MatchIds \ {id} : HandleClaim(mm, id, user)[k] = mm[k]
    BY <2>2, <2>3 DEF MapInv, Maps
  <2>5. new # None /\ mm[id] # None
    BY <1>2, <2>2, MatcherAssumption DEF NewClaim, Listed
  <2>6. \A i \in DOMAIN new.claimsSeen : Pairing(id, new.claimsSeen[i]) \in C
    <3>1. \A i \in DOMAIN old.claimsSeen : Pairing(id, old.claimsSeen[i]) \in C
      BY <2>5 DEF MapInv, Listed, old
    <3> QED BY <2>1, <2>2, <3>1
  <2>7. \A k \in MatchIds : Listed(HandleClaim(mm, id, user), k) <=> Listed(mm, k)
    BY <2>4, <2>5 DEF Listed
  <2>8. ASSUME NEW k \in MatchIds, Listed(HandleClaim(mm, id, user), k)
        PROVE  /\ HandleClaim(mm, id, user)[k].acksSeen = <<>>
               /\ \A i \in DOMAIN HandleClaim(mm, id, user)[k].claimsSeen :
                    Pairing(k, HandleClaim(mm, id, user)[k].claimsSeen[i]) \in C
    <3>1. CASE k = id
      BY <2>2, <2>4, <2>6, <3>1
    <3>2. CASE k # id
      BY <2>4, <2>7, <2>8, <3>2 DEF MapInv
    <3> QED BY <3>1, <3>2
  <2> QED BY <2>4, <2>7, <2>8 DEF MapInv
<1> QED BY <1>1, <1>2

(* An ack of a listed game is the only one in its entry; without that      *)
(* game the map is as good as before.                                      *)
LEMMA AckMap ==
  ASSUME NEW mm, NEW C, MapInv(mm, C), NEW id \in MatchIds, NEW user \in Nodes,
         Listed(mm, id)
  PROVE  /\ HandleAck(mm, id, user) \in Maps
         /\ HandleAck(mm, id, user)[id].acksSeen = <<user>>
         /\ \A k \in MatchIds \ {id} : HandleAck(mm, id, user)[k] = mm[k]
         /\ MapInv(Closed(mm, id, user), C)
<1> DEFINE old == mm[id]
           new == WithAck(old, user)
<1>1. old \in MatchState /\ old.acksSeen = <<>>
  BY DEF MapInv, Maps, Listed
<1> HIDE DEF old
<1>2. new \in MatchState /\ new.acksSeen = <<user>>
  <2>1. Append(<<>>, user) = <<user>> /\ <<user>> \in Seq(Nodes)
    OBVIOUS
  <2> QED BY <1>1, <2>1 DEF MatchState, WithAck
<1>3. HandleAck(mm, id, user) = [mm EXCEPT ![id] = new]
  BY DEF HandleAck, old
<1> HIDE DEF new
<1>4. /\ HandleAck(mm, id, user) \in Maps
      /\ HandleAck(mm, id, user)[id] = new
      /\ \A k \in MatchIds \ {id} : HandleAck(mm, id, user)[k] = mm[k]
  BY <1>2, <1>3 DEF MapInv, Maps
<1>5. MapInv(Closed(mm, id, user), C)
  BY <1>4 DEF MapInv, Maps, Closed, Without, Listed
<1> QED BY <1>2, <1>4, <1>5

-----------------------------------------------------------------------------
(* Operators on the network.                                               *)

(* What is in flight stays real as more claims and matches happen.         *)
LEMMA NetGrows ==
  ASSUME NEW base, NEW C, NEW F, NEW D, NEW G, NetInv(base, C, F),
         C \subseteq D, F \in Counts, G \in Counts,
         \A p \in Pairings : F[p] > 0 => G[p] > 0
  PROVE  NetInv(base, D, G)
<1>1. \A id \in MatchIds, user \in Nodes : Pairing(id, user) \in Pairings
  BY DEF Pairing, Pairings
<1> QED BY <1>1 DEF NetInv

(* A broadcast raises no count but that of its message.                    *)
LEMMA BroadcastNet ==
  ASSUME NEW base \in Nets, NEW n \in Nodes, NEW m \in Message
  PROVE  /\ Broadcast(n, m, base) \in Nets
         /\ \A p \in Nodes : \A k \in Message \ {m} :
              Broadcast(n, m, base)[p][k] = base[p][k]
<1>1. \A i \in 0..MaxCopies : Older(i, MaxCopies) \in 0..MaxCopies
  BY MatcherAssumption DEF Older
<1>2. ASSUME NEW p \in Nodes
      PROVE  [base[p] EXCEPT ![m] = Older(@, MaxCopies)] \in [Message -> 0..MaxCopies]
  BY <1>1 DEF Nets
<1>3. ASSUME NEW p \in Nodes, NEW k \in Message \ {m}
      PROVE  Broadcast(n, m, base)[p][k] = base[p][k]
  BY DEF Broadcast, Nets
<1> QED BY <1>2, <1>3 DEF Broadcast, Nets

(* The four message constructors build messages.                           *)
LEMMA MessageKinds ==
  ASSUME NEW id \in MatchIds, NEW user \in Nodes
  PROVE  /\ AdvertiseMsg(id) \in Message /\ UnadvertiseMsg(id) \in Message
         /\ ClaimMsg(id, user) \in Message /\ AckMsg(id, user) \in Message
         /\ Pairing(id, user) \in Pairings
BY DEF AdvertiseMsg, UnadvertiseMsg, ClaimMsg, AckMsg, Message, Pairing, Pairings

(* Adverts and their withdrawal say nothing about claims and acks.         *)
LEMMA AdvertNet ==
  ASSUME NEW base, NEW C, NEW F, NetInv(base, C, F),
         NEW n \in Nodes, NEW id \in MatchIds,
         NEW m \in {AdvertiseMsg(id), UnadvertiseMsg(id)}
  PROVE  NetInv(Broadcast(n, m, base), C, F)
<1> DEFINE out == Broadcast(n, m, base)
<1>1. m \in Message
  BY MessageKinds
<1>2. ASSUME NEW k \in MatchIds, NEW user \in Nodes
      PROVE  ClaimMsg(k, user) \in Message \ {m} /\ AckMsg(k, user) \in Message \ {m}
  <2>1. m.type \in {"advertise", "unadvertise"}
    BY DEF AdvertiseMsg, UnadvertiseMsg
  <2>2. ClaimMsg(k, user).type = "claim" /\ AckMsg(k, user).type = "ack"
    BY DEF ClaimMsg, AckMsg
  <2> QED BY <2>1, <2>2, MessageKinds
<1>3. out \in Nets /\ \A p \in Nodes : \A k \in Message \ {m} : out[p][k] = base[p][k]
  BY <1>1, BroadcastNet DEF NetInv
<1> HIDE DEF out
<1>4. NetInv(out, C, F)
  BY <1>2, <1>3 DEF NetInv
<1> QED BY <1>4 DEF out

(* A claim among C may be broadcast, and so may an ack that F counts.      *)
LEMMA ClaimNet ==
  ASSUME NEW base, NEW C, NEW F, NetInv(base, C, F),
         NEW n \in Nodes, NEW id \in MatchIds, NEW user \in Nodes,
         Pairing(id, user) \in C
  PROVE  NetInv(Broadcast(n, ClaimMsg(id, user), base), C, F)
<1> DEFINE out == Broadcast(n, ClaimMsg(id, user), base)
<1>1. /\ out \in Nets
      /\ \A p \in Nodes : \A k \in Message \ {ClaimMsg(id, user)} : out[p][k] = base[p][k]
  BY MessageKinds, BroadcastNet DEF NetInv
<1> HIDE DEF out
<1>2. ASSUME NEW p \in Nodes, NEW k \in MatchIds, NEW u \in Nodes
      PROVE  /\ out[p][ClaimMsg(k, u)] > 0 => Pairing(k, u) \in C
             /\ out[p][AckMsg(k, u)] > 0 => F[Pairing(k, u)] > 0
  <2>1. ClaimMsg(k, u) \in Message /\ AckMsg(k, u) \in Message
    BY MessageKinds
  <2>2. AckMsg(k, u) # ClaimMsg(id, user)
    BY DEF AckMsg, ClaimMsg
  <2>3. CASE ClaimMsg(k, u) = ClaimMsg(id, user)
    <3>1. k = id /\ u = user
      BY <2>3 DEF ClaimMsg
    <3> QED BY <1>1, <2>1, <2>2, <3>1 DEF NetInv
  <2>4. CASE ClaimMsg(k, u) # ClaimMsg(id, user)
    BY <1>1, <2>1, <2>2, <2>4 DEF NetInv
  <2> QED BY <2>3, <2>4
<1>3. NetInv(out, C, F)
  BY <1>1, <1>2 DEF NetInv
<1> QED BY <1>3 DEF out

(* Publishing the ack of a match that was counted keeps the network good.  *)
LEMMA AckNet ==
  ASSUME NEW base, NEW C, NEW F, NetInv(base, C, F),
         NEW n \in Nodes, NEW id \in MatchIds, NEW user \in Nodes,
         F[Pairing(id, user)] > 0
  PROVE  NetInv(Broadcast(n, AckMsg(id, user), base), C, F)
<1> DEFINE out == Broadcast(n, AckMsg(id, user), base)
<1>1. /\ out \in Nets
      /\ \A p \in Nodes : \A k \in Message \ {AckMsg(id, user)} : out[p][k] = base[p][k]
  BY MessageKinds, BroadcastNet DEF NetInv
<1> HIDE DEF out
<1>2. ASSUME NEW p \in Nodes, NEW k \in MatchIds, NEW u \in Nodes
      PROVE  /\ out[p][ClaimMsg(k, u)] > 0 => Pairing(k, u) \in C
             /\ out[p][AckMsg(k, u)] > 0 => F[Pairing(k, u)] > 0
  <2>1. ClaimMsg(k, u) \in Message /\ AckMsg(k, u) \in Message
    BY MessageKinds
  <2>2. ClaimMsg(k, u) # AckMsg(id, user)
    BY DEF AckMsg, ClaimMsg
  <2>3. CASE AckMsg(k, u) = AckMsg(id, user)
    <3>1. k = id /\ u = user
      BY <2>3 DEF AckMsg
    <3> QED BY <1>1, <2>1, <2>2, <3>1 DEF NetInv
  <2>4. CASE AckMsg(k, u) # AckMsg(id, user)
    BY <1>1, <2>1, <2>2, <2>4 DEF NetInv
  <2> QED BY <2>3, <2>4
<1>3. NetInv(out, C, F)
  BY <1>1, <1>2 DEF NetInv
<1> QED BY <1>3 DEF out

(* A copy that arrives or is lost leaves fewer in flight.                  *)
LEMMA ConsumeNet ==
  ASSUME NEW C, NEW F, NetInv(net, C, F), NEW n \in Nodes, NEW m \in Message,
         net[n][m] > 0
  PROVE  NetInv(Consume(n, m), C, F)
<1>1. net[n][m] \in 1..MaxCopies
  BY MatcherAssumption DEF NetInv, Nets
<1>2. Consume(n, m) \in Nets
  BY <1>1, MatcherAssumption DEF NetInv, Nets, Consume
<1>3. \A p \in Nodes, k \in Message : Consume(n, m)[p][k] > 0 => net[p][k] > 0
  BY <1>1, MatcherAssumption DEF NetInv, Nets, Consume
<1> QED BY <1>2, <1>3, MessageKinds DEF NetInv

-----------------------------------------------------------------------------
(* Steps.                                                                  *)

(* A step of client n keeps the invariant if it leaves n, the network and  *)
(* the history sound: the other clients' claims stay claimed.              *)
LEMMA OneClientStep ==
  ASSUME LocalInv, NEW n \in Nodes,
         NEW mm, NEW st, NEW mid, NEW target,
         matchMap' = [matchMap EXCEPT ![n] = mm],
         state' = [state EXCEPT ![n] = st],
         matchId' = [matchId EXCEPT ![n] = mid],
         targetMatch' = [targetMatch EXCEPT ![n] = target],
         actionAge' \in [Nodes -> 0..ActionLimit],
         claimed \subseteq claimed',
         MapInv(mm, claimed'), AgentInv(n, st, mid, target),
         HostInv(st, mid, mm),
         NetInv(net', claimed', filled'),
         HistoryInv(claimed', filled', joined')
  PROVE  LocalInv'
<1>1. mm \in Maps
  BY DEF MapInv
<1>2. Functions'
  BY <1>1 DEF LocalInv, Functions, AgentInv
<1>3. ClientInv(n)'
  BY DEF LocalInv, Functions, ClientInv, MapInv, AgentInv, HostInv
<1>4. ASSUME NEW p \in Nodes \ {n} PROVE ClientInv(p)'
  <2>1. /\ matchMap'[p] = matchMap[p] /\ state'[p] = state[p]
        /\ matchId'[p] = matchId[p] /\ targetMatch'[p] = targetMatch[p]
    BY DEF LocalInv, Functions
  <2>2. ClientInv(p)
    BY DEF LocalInv
  <2>3. MapInv(matchMap[p], claimed')
    BY <2>2, MapGrows DEF ClientInv
  <2> QED BY <2>1, <2>2, <2>3 DEF ClientInv
<1> QED BY <1>2, <1>3, <1>4 DEF LocalInv

(* The cap on the age of an action is a positive number.                   *)
LEMMA ActionLimitType == ActionLimit \in Nat \ {0}
BY MatcherAssumption DEF ActionLimit

(* Accepting a claim that was made.  The ack may go out: it is counted.    *)
LEMMA AcceptStep ==
  ASSUME LocalInv, NEW n \in Nodes, NEW id \in MatchIds,
         NEW mm, NEW base, NEW gone,
         MapInv(Without(mm, gone \cup {id}), claimed),
         NEW first \in Nodes, first = Head(mm[id].claimsSeen),
         Pairing(id, first) \in claimed,
         NetInv(base, claimed, filled),
         AcceptClaim(n, id, mm, base, gone),
         actionAge' \in [Nodes -> 0..ActionLimit],
         UNCHANGED <<claimed, joined>>
  PROVE  LocalInv'
<1> DEFINE p0 == Pairing(id, first)
<1>1. p0 \in Pairings
  BY MessageKinds
<1>2. filled' = [filled EXCEPT ![p0] = @ + 1]
  BY DEF AcceptClaim
<1>3. filled \in Counts /\ filled' \in Counts
  BY <1>1, <1>2 DEF LocalInv, HistoryInv, Counts
<1>4. \A p \in Pairings : filled[p] > 0 => filled'[p] > 0
  BY <1>1, <1>2, <1>3 DEF Counts
<1>5. filled'[p0] > 0
  BY <1>1, <1>2, <1>3 DEF Counts
<1>6. HistoryInv(claimed', filled', joined')
  <2>1. \A p \in Pairings : filled'[p] > 0 => p \in claimed
    BY <1>1, <1>2, <1>3 DEF LocalInv, HistoryInv, Counts
  <2> QED BY <1>3, <1>4, <2>1 DEF LocalInv, HistoryInv
<1>7. NetInv(net', claimed', filled')
  <2>1. NetInv(base, claimed, filled')
    BY <1>3, <1>4, NetGrows
  <2>2. NetInv(Broadcast(n, AckMsg(id, first), base), claimed, filled')
    BY <1>5, <2>1, AckNet
  <2>3. NetInv(Broadcast(n, AckMsg(id, first),
                 Broadcast(n, AckMsg(id, first), base)), claimed, filled')
    BY <1>5, <2>2, AckNet
  <2> QED BY <2>3 DEF AcceptClaim
<1>8. AgentInv(n, "IDLE", None, None)
  BY MatcherAssumption DEF AgentInv, AgentStates
<1>9. HostInv("IDLE", None, Without(mm, gone \cup {id}))
  BY DEF HostInv
<1> QED
  BY <1>6, <1>7, <1>8, <1>9, OneClientStep DEF AcceptClaim, ClearState

(* The map startMatch works on may still hold the games its caller is      *)
(* about to remove.  Their removal commutes with what it does to others.   *)
LEMMA WithoutCommutes ==
  ASSUME NEW mm \in Maps, NEW gone, NEW id \in MatchIds, id \notin gone,
         NEW user \in Nodes
  PROVE  /\ Without(HandleClaim(mm, id, user), gone)
              = HandleClaim(Without(mm, gone), id, user)
         /\ Without(HandleAdvertise(mm, id), gone)
              = HandleAdvertise(Without(mm, gone), id)
         /\ Without(mm, gone)[id] = mm[id]
<1>1. Without(mm, gone)[id] = mm[id]
  BY DEF Without
<1>2. Without(HandleClaim(mm, id, user), gone)
        = HandleClaim(Without(mm, gone), id, user)
  BY <1>1 DEF Without, HandleClaim, NewClaim, Listed, Maps
<1>3. Without(HandleAdvertise(mm, id), gone)
        = HandleAdvertise(Without(mm, gone), id)
  BY <1>1 DEF Without, HandleAdvertise, Maps
<1> QED BY <1>1, <1>2, <1>3

(* startMatch, whoever calls it, on a map that is sound without the games  *)
(* the caller removes; those are other clients' games that were acked.     *)
LEMMA StartStep ==
  ASSUME LocalInv, NEW n \in Nodes, NEW wish \in Wishes,
         NEW mm \in Maps, NEW base, NEW gone \in SUBSET MatchIds,
         MapInv(Without(mm, gone), claimed),
         \A id \in gone : id.advertiser # n /\ mm[id].acksSeen # <<>>,
         NetInv(base, claimed, filled),
         StartMatch(n, wish, mm, base, gone)
  PROVE  LocalInv'
<1> DEFINE own == getMatchID(n, Head(wish))
           clean == Without(mm, gone)
           listed == HandleAdvertise(mm, own)
           sent == Broadcast(n, AdvertiseMsg(own), base)
<1>1. wish \in Seq(Games) /\ wish # <<>> /\ wish # None /\ Head(wish) \in Games
  BY MatcherAssumption
<1>2. own \in MatchIds /\ own.advertiser = n /\ own \notin gone
  BY <1>1 DEF getMatchID, MatchIds
<1>3. actionAge' \in [Nodes -> 0..ActionLimit]
  BY ActionLimitType DEF StartMatch, LocalInv, Functions
<1>4. joined' = joined
  BY DEF StartMatch
<1>5. ASSUME NEW id \in Joinable(n, wish, mm), JoinGame(n, wish, id, mm, base, gone)
      PROVE  LocalInv'
  <2>1. /\ id \in MatchIds \ gone /\ id.advertiser # n
        /\ In(id.match, wish) /\ Listed(mm, id)
    BY DEF Joinable
  <2>2. Pairing(id, n) \in Pairings /\ Pairing(id, n) \in claimed'
    BY <2>1, MessageKinds, <1>5 DEF JoinGame
  <2>3. HistoryInv(claimed', filled', joined')
    BY <1>4, <1>5, <2>1, <2>2 DEF JoinGame, LocalInv, HistoryInv, Pairing
  <2>4. NetInv(net', claimed', filled')
    <3>1. NetInv(base, claimed', filled')
      BY <1>5, NetGrows DEF JoinGame, LocalInv, HistoryInv
    <3> QED BY <1>5, <2>1, <2>2, <3>1, ClaimNet DEF JoinGame
  <2>5. MapInv(HandleClaim(clean, id, n), claimed')
    <3>1. MapInv(clean, claimed')
      BY <1>5, MapGrows DEF JoinGame
    <3> QED BY <2>1, <2>2, <3>1, ClaimMap
  <2>6. matchMap' = [matchMap EXCEPT ![n] = HandleClaim(clean, id, n)]
    <3>1. Without(HandleClaim(mm, id, n), gone) = HandleClaim(clean, id, n)
      BY <2>1, WithoutCommutes
    <3> HIDE DEF clean
    <3> QED BY <1>5, <3>1 DEF JoinGame
  <2>7. AgentInv(n, "JOINING_WAITING_ACK", id, wish)
    BY <1>1, <2>1, MatcherAssumption DEF AgentInv, AgentStates
  <2>8. HostInv("JOINING_WAITING_ACK", id, HandleClaim(clean, id, n))
    BY DEF HostInv
  <2> HIDE DEF clean
  <2> QED BY <1>3, <1>5, <2>3, <2>4, <2>5, <2>6, <2>7, <2>8, OneClientStep
         DEF JoinGame
<1>6. /\ MapInv(HandleAdvertise(clean, own), claimed)
      /\ Without(listed, gone) = HandleAdvertise(clean, own)
      /\ listed[own] = HandleAdvertise(clean, own)[own]
      /\ Listed(listed, own)
  <2>1. clean \in Maps
    BY DEF MapInv
  <2>2. listed \in Maps
    BY <1>2, AdvertiseType
  <2>3. Without(listed, gone)[own] = listed[own]
    BY <1>2, <2>2, WithoutCommutes
  <2>4. Without(listed, gone) = HandleAdvertise(clean, own)
    BY <1>2, WithoutCommutes
  <2>5. MapInv(HandleAdvertise(clean, own), claimed)
        /\ Listed(HandleAdvertise(clean, own), own)
    BY <1>2, AdvertiseMap
  <2> HIDE DEF clean, listed, own
  <2> QED BY <2>3, <2>4, <2>5 DEF Listed
<1>7. NetInv(sent, claimed, filled)
  BY <1>2, AdvertNet
<1>8. ASSUME ~Claimed(listed, own), ServeGame(n, wish, own, listed, sent, gone)
      PROVE  LocalInv'
  <2>1. AgentInv(n, "SERVING_WAITING_CLAIMS", own, wish)
    BY <1>1, <1>2, MatcherAssumption DEF AgentInv, AgentStates
  <2>2. HostInv("SERVING_WAITING_CLAIMS", own, Without(listed, gone))
    BY <1>6, <1>8 DEF HostInv, Claimed
  <2>3. MapInv(Without(listed, gone), claimed')
    BY <1>6, <1>8 DEF ServeGame
  <2>4. NetInv(net', claimed', filled') /\ HistoryInv(claimed', filled', joined')
    BY <1>4, <1>7, <1>8 DEF ServeGame, LocalInv
  <2> HIDE DEF own, listed, sent
  <2> QED BY <1>3, <1>8, <2>1, <2>2, <2>3, <2>4, OneClientStep DEF ServeGame
<1>9. ASSUME Claimed(listed, own), AcceptClaim(n, own, listed, sent, gone),
             UNCHANGED claimed
      PROVE  LocalInv'
  <2> DEFINE first == Head(listed[own].claimsSeen)
  <2>1. listed[own].claimsSeen \in Seq(Nodes) /\ listed[own].claimsSeen # <<>>
    BY <1>2, <1>6, <1>9 DEF Claimed, MapInv, Maps, MatchState, Listed
  <2>2. 1 \in DOMAIN listed[own].claimsSeen /\ first = listed[own].claimsSeen[1]
        /\ first \in Nodes
    BY <2>1
  <2>3. Pairing(own, first) \in claimed
    BY <1>2, <1>6, <2>2 DEF MapInv, Listed
  <2>4. MapInv(Without(listed, gone \cup {own}), claimed)
    <3>1. Without(listed, gone \cup {own}) = Without(Without(listed, gone), {own})
      BY DEF Without
    <3> QED BY <1>6, <3>1, WithoutMap
  <2> HIDE DEF own, listed, sent
  <2> QED BY <1>2, <1>3, <1>4, <1>7, <1>9, <2>2, <2>3, <2>4, AcceptStep
<1> QED BY <1>5, <1>8, <1>9 DEF StartMatch

-----------------------------------------------------------------------------
(* Each action.                                                            *)

(* The invariant holds before anything happens.                            *)
LEMMA InitInv == Init => LocalInv
<1> SUFFICES ASSUME Init PROVE LocalInv
  OBVIOUS
<1>1. EmptyMap \in Maps /\ \A id \in MatchIds : ~Listed(EmptyMap, id)
  BY DEF EmptyMap, Maps, Listed
<1>2. Functions
  BY <1>1, ActionLimitType DEF Init, Functions, AgentStates
<1>3. ASSUME NEW n \in Nodes PROVE ClientInv(n)
  BY <1>1, MatcherAssumption
     DEF Init, ClientInv, MapInv, AgentInv, HostInv, AgentStates
<1>4. NetInv(net, claimed, filled)
  <2>1. net \in Nets
    BY MatcherAssumption DEF Init, Nets
  <2> QED BY <2>1, MessageKinds DEF Init, NetInv
<1>5. HistoryInv(claimed, filled, joined)
  BY DEF Init, HistoryInv, Counts
<1> QED BY <1>2, <1>3, <1>4, <1>5 DEF LocalInv

(* The parts of the invariant that speak of one client.                    *)
LEMMA ClientParts ==
  ASSUME LocalInv, NEW n \in Nodes
  PROVE  /\ MapInv(matchMap[n], claimed)
         /\ matchMap[n] \in Maps
         /\ AgentInv(n, state[n], matchId[n], targetMatch[n])
         /\ HostInv(state[n], matchId[n], matchMap[n])
         /\ NetInv(net, claimed, filled)
         /\ HistoryInv(claimed, filled, joined)
BY DEF LocalInv, ClientInv, MapInv

(* startMatch called by the user or by poll, with nothing to be removed.   *)
LEMMA PlainStart ==
  ASSUME LocalInv, NEW n \in Nodes, NEW wish \in Wishes,
         StartMatch(n, wish, matchMap[n], net, {})
  PROVE  LocalInv'
<1>1. Without(matchMap[n], {}) = matchMap[n]
  BY ClientParts DEF Without, Maps
<1> QED BY <1>1, ClientParts, StartStep

(* findMatch keeps the invariant.                                          *)
LEMMA FindMatchInv ==
  ASSUME LocalInv, NEW n \in Nodes, NEW wish \in Wishes, FindMatch(n, wish)
  PROVE  LocalInv'
BY PlainStart DEF FindMatch

(* A poll that restarts the search keeps the invariant.                    *)
LEMMA PollInv ==
  ASSUME LocalInv, NEW n \in Nodes, Poll(n)
  PROVE  LocalInv'
<1>1. targetMatch[n] \in Wishes
  BY ClientParts DEF Poll, Overdue, AgentInv
<1> QED BY <1>1, PlainStart DEF Poll

(* A step that leaves n's agent alone, or takes the game away it serves.   *)
LEMMA MapStep ==
  ASSUME LocalInv, NEW n \in Nodes, NEW mm,
         matchMap' = [matchMap EXCEPT ![n] = mm],
         MapInv(mm, claimed), HostInv(state[n], matchId[n], mm),
         NetInv(net', claimed, filled),
         UNCHANGED <<agentVars, historyVars>>
  PROVE  LocalInv'
<1>1. /\ state' = [state EXCEPT ![n] = state[n]]
      /\ matchId' = [matchId EXCEPT ![n] = matchId[n]]
      /\ targetMatch' = [targetMatch EXCEPT ![n] = targetMatch[n]]
      /\ actionAge' \in [Nodes -> 0..ActionLimit]
  BY DEF LocalInv, Functions, agentVars
<1>2. claimed' = claimed /\ filled' = filled /\ joined' = joined
  BY DEF historyVars
<1> QED BY <1>1, <1>2, ClientParts, OneClientStep

(* A client that goes idle, its map and the network kept good.             *)
LEMMA IdleStep ==
  ASSUME LocalInv, NEW n \in Nodes, NEW mm,
         matchMap' = [matchMap EXCEPT ![n] = mm],
         MapInv(mm, claimed),
         ClearState(n), actionAge' \in [Nodes -> 0..ActionLimit],
         UNCHANGED claimed,
         NetInv(net', claimed, filled'),
         HistoryInv(claimed, filled', joined')
  PROVE  LocalInv'
<1>1. AgentInv(n, "IDLE", None, None) /\ HostInv("IDLE", None, mm)
  BY MatcherAssumption DEF AgentInv, AgentStates, HostInv
<1> QED BY <1>1, OneClientStep DEF ClearState

(* Removing games keeps a host's map in order, and lists nothing new.      *)
LEMMA RemovalStep ==
  ASSUME LocalInv, NEW n \in Nodes, NEW ids
  PROVE  /\ MapInv(Without(matchMap[n], ids), claimed)
         /\ HostInv(state[n], matchId[n], Without(matchMap[n], ids))
<1>1. MapInv(Without(matchMap[n], ids), claimed)
  BY ClientParts, WithoutMap
<1>2. ASSUME state[n] = "SERVING_WAITING_CLAIMS" PROVE matchId[n] \in MatchIds
  BY <1>2, ClientParts DEF AgentInv
<1> QED BY <1>1, <1>2, ClientParts DEF HostInv, Without, Listed

(* stopMatch keeps the invariant, whatever the callback does.              *)
LEMMA StopMatchInv ==
  ASSUME LocalInv, NEW n \in Nodes, NEW outcome, StopMatch(n, outcome)
  PROVE  LocalInv'
<1> DEFINE mm == matchMap'[n]
<1>1. /\ matchMap' = [matchMap EXCEPT ![n] = mm]
      /\ MapInv(mm, claimed) /\ HostInv(state[n], matchId[n], mm)
      /\ NetInv(net', claimed, filled)
  <2>1. CASE StopServing(n)
    <3>1. matchId[n] \in MatchIds
      BY <2>1, ClientParts DEF StopServing, AgentInv
    <3>2. matchMap' = [matchMap EXCEPT ![n] = Without(matchMap[n], {matchId[n]})]
      BY <2>1 DEF StopServing
    <3>3. mm = Without(matchMap[n], {matchId[n]})
      BY <3>2 DEF LocalInv, Functions
    <3>4. NetInv(net', claimed, filled)
      BY <2>1, <3>1, ClientParts, AdvertNet DEF StopServing
    <3> QED BY <3>2, <3>3, <3>4, RemovalStep
  <2>2. CASE StopJoining(n)
    BY <2>2, ClientParts DEF StopJoining, LocalInv, Functions
  <2> QED BY <2>1, <2>2 DEF StopMatch
<1>2. CASE outcome = "throws"
  BY <1>1, <1>2, MapStep DEF StopMatch, agentVars
<1>3. CASE outcome # "throws"
  <2>1. actionAge' \in [Nodes -> 0..ActionLimit]
    BY DEF StopMatch, LocalInv, Functions
  <2>2. claimed' = claimed /\ filled' = filled /\ joined' = joined
    BY DEF StopMatch, historyVars
  <2> QED BY <1>1, <1>3, <2>1, <2>2, ClientParts, IdleStep DEF StopMatch
<1> QED BY <1>2, <1>3

(* What a message that arrived says of itself.                             *)
LEMMA ArrivedMessage ==
  ASSUME LocalInv, NEW n \in Nodes, NEW m \in Message, NEW type, Arrived(n, m, type)
  PROVE  /\ m.matchId \in MatchIds
         /\ NetInv(Consume(n, m), claimed, filled)
         /\ type = "claim" => m.user \in Nodes /\ Pairing(m.matchId, m.user) \in claimed
         /\ type = "ack" => m.user \in Nodes /\ filled[Pairing(m.matchId, m.user)] > 0
<1>1. m.matchId \in MatchIds /\ NetInv(Consume(n, m), claimed, filled)
  BY ClientParts, ConsumeNet DEF Arrived, Message
<1>2. CASE type \in {"claim", "ack"}
  <2>1. m \in [type : {"claim", "ack"}, matchId : MatchIds, user : Nodes]
    BY <1>2 DEF Arrived, Message
  <2>2. m = [type |-> type, matchId |-> m.matchId, user |-> m.user] /\ m.user \in Nodes
    BY <2>1 DEF Arrived
  <2>3. /\ type = "claim" => m = ClaimMsg(m.matchId, m.user)
        /\ type = "ack" => m = AckMsg(m.matchId, m.user)
    BY <2>2 DEF ClaimMsg, AckMsg
  <2>4. net[n][m] > 0
    BY DEF Arrived
  <2> QED BY <1>1, <2>2, <2>3, <2>4, ClientParts DEF NetInv
<1> QED BY <1>1, <1>2

(* An advert adds a game or refreshes it.                                  *)
LEMMA ReceiveAdvertiseInv ==
  ASSUME LocalInv, NEW n \in Nodes, NEW m \in Message, ReceiveAdvertise(n, m)
  PROVE  LocalInv'
<1> DEFINE mm == HandleAdvertise(matchMap[n], m.matchId)
<1>1. m.matchId \in MatchIds /\ NetInv(net', claimed, filled)
  BY ArrivedMessage DEF ReceiveAdvertise
<1>2. /\ MapInv(mm, claimed)
      /\ \A k \in MatchIds \ {m.matchId} : mm[k] = matchMap[n][k]
      /\ mm[m.matchId].claimsSeen =
           IF Listed(matchMap[n], m.matchId)
           THEN matchMap[n][m.matchId].claimsSeen ELSE <<>>
  BY <1>1, ClientParts, AdvertiseMap
<1>3. matchMap' = [matchMap EXCEPT ![n] = mm]
  BY DEF ReceiveAdvertise
<1> HIDE DEF mm
<1>4. HostInv(state[n], matchId[n], mm)
  <2>1. state[n] = "SERVING_WAITING_CLAIMS" => matchId[n] \in MatchIds
    BY ClientParts DEF AgentInv
  <2> QED BY <1>2, <2>1, ClientParts DEF HostInv, Listed
<1> QED BY <1>1, <1>2, <1>3, <1>4, MapStep DEF ReceiveAdvertise

(* An unadvertise only removes a game.                                     *)
LEMMA ReceiveUnadvertiseInv ==
  ASSUME LocalInv, NEW n \in Nodes, NEW m \in Message, ReceiveUnadvertise(n, m)
  PROVE  LocalInv'
BY ArrivedMessage, RemovalStep, MapStep DEF ReceiveUnadvertise

(* A claim is recorded, or accepted by the host it is meant for.           *)
LEMMA ReceiveClaimInv ==
  ASSUME LocalInv, NEW n \in Nodes, NEW m \in Message, ReceiveClaim(n, m)
  PROVE  LocalInv'
<1> DEFINE id == m.matchId
           mm == HandleClaim(matchMap[n], id, m.user)
<1>1. /\ id \in MatchIds /\ m.user \in Nodes /\ Pairing(id, m.user) \in claimed
      /\ NetInv(Consume(n, m), claimed, filled)
  BY ArrivedMessage DEF ReceiveClaim
<1>2. /\ MapInv(mm, claimed)
      /\ \A k \in MatchIds : Listed(mm, k) <=> Listed(matchMap[n], k)
      /\ \A k \in MatchIds \ {id} : mm[k] = matchMap[n][k]
      /\ NewClaim(matchMap[n], id, m.user) =>
           mm[id].claimsSeen = Append(matchMap[n][id].claimsSeen, m.user)
  <2>1. MapInv(matchMap[n], claimed)
    BY ClientParts
  <2> HIDE DEF id
  <2>2. id \in MatchIds /\ m.user \in Nodes /\ Pairing(id, m.user) \in claimed
    BY <1>1
  <2>3. MapInv(mm, claimed)
    BY <2>1, <2>2, ClaimMap
  <2>4. \A k \in MatchIds : Listed(mm, k) <=> Listed(matchMap[n], k)
    BY <2>1, <2>2, ClaimMap
  <2>5. \A k \in MatchIds \ {id} : mm[k] = matchMap[n][k]
    BY <2>1, <2>2, ClaimMap
  <2>6. NewClaim(matchMap[n], id, m.user) =>
          mm[id].claimsSeen = Append(matchMap[n][id].claimsSeen, m.user)
    <3> SUFFICES ASSUME NewClaim(matchMap[n], id, m.user)
                 PROVE  mm[id].claimsSeen
                          = Append(matchMap[n][id].claimsSeen, m.user)
      OBVIOUS
    <3>1. matchMap[n] \in Maps /\ matchMap[n][id] \in MatchState
      BY <2>1, <2>2 DEF NewClaim, Listed, MapInv, Maps
    <3>2. mm = [matchMap[n] EXCEPT ![id] = WithClaim(matchMap[n][id], m.user)]
      BY DEF HandleClaim
    <3> QED BY <2>2, <3>1, <3>2 DEF Maps, WithClaim, MatchState
  <2> QED BY <2>3, <2>4, <2>5, <2>6
<1>3. CASE /\ NewClaim(matchMap[n], id, m.user)
           /\ Serves(n, id)
           /\ AcceptClaim(n, id, mm, Consume(n, m), {})
           /\ UNCHANGED <<actionAge, claimed, joined>>
  <2>1. matchMap[n][id].claimsSeen = <<>>
    BY <1>3, ClientParts DEF Serves, HostInv, NewClaim
  <2>2. Head(mm[id].claimsSeen) = m.user
    BY <1>2, <1>3, <2>1
  <2>3. MapInv(Without(mm, {} \cup {id}), claimed)
    BY <1>2, WithoutMap
  <2>4. actionAge' \in [Nodes -> 0..ActionLimit]
    BY <1>3 DEF LocalInv, Functions
  <2> HIDE DEF mm, id
  <2> QED BY <1>1, <1>3, <2>2, <2>3, <2>4, AcceptStep
<1>4. CASE /\ ~(NewClaim(matchMap[n], id, m.user) /\ Serves(n, id))
           /\ net' = Consume(n, m)
           /\ matchMap' = [matchMap EXCEPT ![n] = mm]
           /\ UNCHANGED <<agentVars, historyVars>>
  <2>1. ASSUME state[n] = "SERVING_WAITING_CLAIMS", Listed(mm, matchId[n])
        PROVE  mm[matchId[n]].claimsSeen = <<>>
    <3>1. matchId[n] \in MatchIds
      BY <2>1, ClientParts DEF AgentInv
    <3>2. mm[matchId[n]] = matchMap[n][matchId[n]]
      BY <1>2, <1>4, <2>1, <3>1 DEF Serves, HandleClaim
    <3> QED BY <2>1, <3>2, ClientParts DEF HostInv, Listed
  <2>2. HostInv(state[n], matchId[n], mm)
    BY <2>1 DEF HostInv
  <2> HIDE DEF mm
  <2> QED BY <1>1, <1>2, <1>4, <2>2, MapStep
<1> QED BY <1>3, <1>4 DEF ReceiveClaim, agentVars, historyVars

(* An ack ends a search, restarts it, or only removes the game.            *)
LEMMA ReceiveAckInv ==
  ASSUME LocalInv, NEW n \in Nodes, NEW m \in Message, ReceiveAck(n, m)
  PROVE  LocalInv'
<1> DEFINE id == m.matchId
           mm == HandleAck(matchMap[n], id, m.user)
<1>1. /\ id \in MatchIds /\ m.user \in Nodes
      /\ filled[Pairing(id, m.user)] > 0
      /\ NetInv(Consume(n, m), claimed, filled)
  BY ArrivedMessage DEF ReceiveAck
<1>2. ASSUME NewAck(matchMap[n], id, m.user)
      PROVE  /\ mm \in Maps /\ mm[id].acksSeen = <<m.user>>
             /\ \A k \in MatchIds \ {id} : mm[k] = matchMap[n][k]
             /\ MapInv(Closed(matchMap[n], id, m.user), claimed)
             /\ Closed(matchMap[n], id, m.user) = Without(mm, {id})
  <2>1. MapInv(matchMap[n], claimed) /\ Listed(matchMap[n], id)
    BY <1>2, ClientParts DEF NewAck
  <2> HIDE DEF id
  <2>2. /\ mm \in Maps /\ mm[id].acksSeen = <<m.user>>
        /\ \A k \in MatchIds \ {id} : mm[k] = matchMap[n][k]
        /\ MapInv(Closed(matchMap[n], id, m.user), claimed)
    BY <1>1, <2>1, AckMap
  <2> QED BY <2>2 DEF Closed
<1>3. CASE /\ NewAck(matchMap[n], id, m.user) /\ Won(n, mm, id)
           /\ net' = Consume(n, m)
           /\ matchMap' = [matchMap EXCEPT ![n] = Closed(@, id, m.user)]
           /\ joined' = [joined EXCEPT ![Pairing(id, n)] = @ + 1]
           /\ ClearState(n)
           /\ UNCHANGED <<actionAge, claimed, filled>>
  <2>1. m.user = n
    BY <1>2, <1>3 DEF Won
  <2>2. HistoryInv(claimed, filled', joined')
    <3>1. Pairing(id, n) \in Pairings
      BY <1>1, MessageKinds
    <3> QED BY <1>1, <1>3, <2>1, <3>1, ClientParts DEF HistoryInv, Counts
  <2>3. actionAge' \in [Nodes -> 0..ActionLimit]
    BY <1>3 DEF LocalInv, Functions
  <2> QED BY <1>1, <1>2, <1>3, <2>2, <2>3, IdleStep
<1>4. CASE /\ NewAck(matchMap[n], id, m.user) /\ Lost(n, mm, id)
           /\ StartMatch(n, targetMatch[n], mm, Consume(n, m), {id})
  <2>1. targetMatch[n] \in Wishes /\ id.advertiser # n
    BY <1>4, ClientParts DEF Lost, Awaits, AgentInv
  <2>2. MapInv(Without(mm, {id}), claimed) /\ mm \in Maps
        /\ mm[id].acksSeen # <<>>
    <3> HIDE DEF mm, id
    <3>1. mm[id].acksSeen = <<m.user>>
      BY <1>2, <1>4
    <3> QED BY <1>2, <1>4, <3>1
  <2> HIDE DEF mm, id
  <2> QED BY <1>1, <1>4, <2>1, <2>2, StartStep
<1>5. CASE /\ NewAck(matchMap[n], id, m.user) /\ ~Awaits(n, id)
           /\ net' = Consume(n, m)
           /\ matchMap' = [matchMap EXCEPT ![n] = Closed(@, id, m.user)]
           /\ UNCHANGED <<agentVars, historyVars>>
  <2>1. ASSUME state[n] = "SERVING_WAITING_CLAIMS",
               Listed(Without(mm, {id}), matchId[n])
        PROVE  Without(mm, {id})[matchId[n]].claimsSeen = <<>>
    <3>1. matchId[n] \in MatchIds
      BY <2>1, ClientParts DEF AgentInv
    <3>2. Without(mm, {id})[matchId[n]] = matchMap[n][matchId[n]]
      BY <1>2, <1>5, <2>1, <3>1 DEF Without, Listed
    <3> QED BY <2>1, <3>2, ClientParts DEF HostInv, Listed
  <2>2. HostInv(state[n], matchId[n], Closed(matchMap[n], id, m.user))
    BY <1>2, <1>5, <2>1 DEF HostInv
  <2> QED BY <1>1, <1>2, <1>5, <2>2, MapStep
<1>6. CASE /\ net' = Consume(n, m)
           /\ UNCHANGED <<matchMap, agentVars, historyVars>>
  <2>1. matchMap' = [matchMap EXCEPT ![n] = matchMap[n]]
    BY <1>6 DEF LocalInv, Functions
  <2> QED BY <1>1, <1>6, <2>1, ClientParts, MapStep
<1> QED BY <1>3, <1>4, <1>5, <1>6 DEF ReceiveAck

(* Expiry only removes games.                                              *)
LEMMA CheckTimeoutsInv ==
  ASSUME LocalInv, NEW n \in Nodes, CheckTimeouts(n)
  PROVE  LocalInv'
BY RemovalStep, ClientParts, MapStep DEF CheckTimeouts

(* A lost message breaks nothing.                                          *)
LEMMA LoseInv ==
  ASSUME LocalInv, NEW n \in Nodes, NEW m \in Message, Lose(n, m)
  PROVE  LocalInv'
<1>1. matchMap' = [matchMap EXCEPT ![n] = matchMap[n]]
  BY DEF LocalInv, Functions, Lose
<1>2. NetInv(net', claimed, filled)
  BY ClientParts, ConsumeNet DEF Lose
<1> QED BY <1>1, <1>2, ClientParts, MapStep DEF Lose

(* A reloaded client starts from a state that is as good.                  *)
LEMMA ReloadInv ==
  ASSUME LocalInv, NEW n \in Nodes, Reload(n)
  PROVE  LocalInv'
<1>1. MapInv(EmptyMap, claimed)
  BY DEF EmptyMap, MapInv, Maps, Listed
<1>2. actionAge' \in [Nodes -> 0..ActionLimit]
  BY ActionLimitType DEF Reload, LocalInv, Functions
<1> QED BY <1>1, <1>2, ClientParts, IdleStep DEF Reload, historyVars

(* Time changes ages and nothing else.                                     *)
LEMMA TickInv ==
  ASSUME LocalInv, Tick
  PROVE  LocalInv'
<1> DEFINE aged(n, id) == [matchMap[n][id] EXCEPT !.seenAge = Older(@, SeenLimit)]
<1>1. ASSUME NEW n \in Nodes, NEW id \in MatchIds, Listed(matchMap[n], id)
      PROVE  /\ aged(n, id) \in MatchState
             /\ aged(n, id).claimsSeen = matchMap[n][id].claimsSeen
             /\ aged(n, id).acksSeen = matchMap[n][id].acksSeen
  <2>1. matchMap[n][id] \in MatchState
    BY <1>1, ClientParts DEF Maps, Listed
  <2>2. \A i \in 0..SeenLimit : Older(i, SeenLimit) \in 0..SeenLimit
    BY MatcherAssumption DEF Older, SeenLimit
  <2> QED BY <2>1, <2>2 DEF MatchState
<1>2. ASSUME NEW n \in Nodes, NEW id \in MatchIds
      PROVE  matchMap'[n][id] =
               IF Listed(matchMap[n], id) THEN aged(n, id) ELSE None
  BY DEF Tick
<1> HIDE DEF aged
<1>3. ASSUME NEW n \in Nodes, NEW id \in MatchIds
      PROVE  /\ matchMap'[n][id] \in MatchState \cup {None}
             /\ Listed(matchMap'[n], id) <=> Listed(matchMap[n], id)
             /\ Listed(matchMap[n], id) =>
                  /\ matchMap'[n][id].claimsSeen = matchMap[n][id].claimsSeen
                  /\ matchMap'[n][id].acksSeen = matchMap[n][id].acksSeen
  BY <1>1, <1>2, MatcherAssumption DEF Listed
<1>4. matchMap' \in [Nodes -> Maps]
  <2>1. ASSUME NEW n \in Nodes PROVE matchMap'[n] \in Maps
    <3>1. matchMap'[n] = [id \in MatchIds |-> matchMap'[n][id]]
      BY DEF Tick
    <3> QED BY <1>3, <3>1 DEF Maps
  <2>2. matchMap' = [n \in Nodes |-> matchMap'[n]]
    BY DEF Tick
  <2> QED BY <2>1, <2>2
<1>5. actionAge' \in [Nodes -> 0..ActionLimit]
  <2>1. \A i \in 0..ActionLimit : Older(i, ActionLimit) \in 0..ActionLimit
    BY ActionLimitType DEF Older
  <2> QED BY <2>1 DEF Tick, LocalInv, Functions
<1>6. ASSUME NEW n \in Nodes PROVE ClientInv(n)'
  <2>1. MapInv(matchMap'[n], claimed)
    <3>1. \A id \in MatchIds : Listed(matchMap'[n], id) =>
            /\ matchMap'[n][id].acksSeen = <<>>
            /\ matchMap'[n][id].claimsSeen = matchMap[n][id].claimsSeen
            /\ Listed(matchMap[n], id)
      BY <1>3, ClientParts DEF MapInv
    <3> QED BY <1>4, <3>1, ClientParts DEF MapInv
  <2>2. HostInv(state[n], matchId[n], matchMap'[n])
    <3>1. state[n] = "SERVING_WAITING_CLAIMS" => matchId[n] \in MatchIds
      BY ClientParts DEF AgentInv
    <3> QED BY <1>3, <3>1, ClientParts DEF HostInv
  <2> QED BY <2>1, <2>2, ClientParts DEF ClientInv, Tick, historyVars
<1> QED BY <1>4, <1>5, <1>6 DEF LocalInv, Functions, Tick, historyVars

-----------------------------------------------------------------------------
(* The invariant and what follows from it.                                 *)

(* Every step keeps the invariant.                                         *)
LEMMA StepInv == LocalInv /\ [Next]_vars => LocalInv'
<1> SUFFICES ASSUME LocalInv, [Next]_vars PROVE LocalInv'
  OBVIOUS
<1>1. ASSUME NEW n \in Nodes, NEW wish \in Wishes, FindMatch(n, wish)
      PROVE  LocalInv'
  BY <1>1, FindMatchInv
<1>2. ASSUME NEW n \in Nodes, NEW outcome \in CallbackOutcomes, StopMatch(n, outcome)
      PROVE  LocalInv'
  BY <1>2, StopMatchInv
<1>3. ASSUME NEW n \in Nodes, NEW m \in Message, Receive(n, m)
      PROVE  LocalInv'
  BY <1>3, ReceiveAdvertiseInv, ReceiveUnadvertiseInv, ReceiveClaimInv,
     ReceiveAckInv DEF Receive
<1>4. ASSUME NEW n \in Nodes, Poll(n) PROVE LocalInv'
  BY <1>4, PollInv
<1>5. ASSUME NEW n \in Nodes, CheckTimeouts(n) PROVE LocalInv'
  BY <1>5, CheckTimeoutsInv
<1>6. ASSUME NEW n \in Nodes, NEW m \in Message, Lose(n, m) PROVE LocalInv'
  BY <1>6, LoseInv
<1>7. ASSUME NEW n \in Nodes, Reload(n) PROVE LocalInv'
  BY <1>7, ReloadInv
<1>8. CASE Tick
  BY <1>8, TickInv
<1>9. CASE UNCHANGED vars
  BY <1>9 DEF vars, LocalInv, Functions, ClientInv
<1> QED BY <1>1, <1>2, <1>3, <1>4, <1>5, <1>6, <1>7, <1>8, <1>9
        DEF Next, ClientStep, UserStep

(* Only a user that calls findMatch begins a search.                       *)
LEMMA CountsBegun ==
  ASSUME [Next]_vars
  PROVE  UNCHANGED searches
         \/ \E n \in Nodes : searches' = [searches EXCEPT ![n] = @ + 1]
<1>1. ASSUME NEW n \in Nodes, NEW m \in Message, Receive(n, m)
      PROVE  UNCHANGED searches
  BY <1>1 DEF Receive, ReceiveAdvertise, ReceiveUnadvertise, ReceiveClaim,
              ReceiveAck, historyVars
<1>2. ASSUME NEW n \in Nodes, UserStep(n)
      PROVE  UNCHANGED searches
             \/ \E p \in Nodes : searches' = [searches EXCEPT ![p] = @ + 1]
  BY <1>2 DEF UserStep, FindMatch, StopMatch, historyVars
<1> QED BY <1>1, <1>2 DEF Next, ClientStep, Poll, CheckTimeouts, Lose, Reload,
                          Tick, historyVars, vars

(* The count of searches stays a count.                                    *)
LEMMA CountingStep == Counting /\ [Next]_vars => Counting'
<1> SUFFICES ASSUME Counting, [Next]_vars PROVE Counting'
  OBVIOUS
<1> QED BY CountsBegun DEF Counting

(* Every reachable state satisfies the inductive invariant of Matcher.     *)
THEOREM Invariance == Spec => []IInv
<1>1. Init => LocalInv
  BY InitInv
<1>2. LocalInv /\ [Next]_vars => LocalInv'
  BY StepInv
<1>3. Init => Counting
  BY DEF Init, Counting
<1>4. Counting /\ [Next]_vars => Counting'
  BY CountingStep
<1>5. LocalInv /\ Counting => IInv
  BY SameInvariant
<1> QED BY <1>1, <1>2, <1>3, <1>4, <1>5, PTL DEF Spec

(* What a client holds is always well formed.                              *)
THEOREM TypeCorrect == Spec => []TypeOK
BY Invariance, PTL DEF IInv

(* An agent's state, game and target fit together in every step of every   *)
(* handler (startMatch, restartMatch, clearState).                         *)
THEOREM AgentsConsistent == Spec => []AgentConsistent
BY Invariance, PTL DEF IInv

(* The ack that fills a game removes it from the map it arrives at.        *)
THEOREM AckedGamesForgotten == Spec => []NoAckedGame
BY Invariance, PTL DEF IInv

(* A host leaves no claim on the game it serves unanswered, however claims *)
(* and adverts crossed.                                                    *)
THEOREM ClaimsAnswered == Spec => []HostAnswersClaims
BY Invariance, PTL DEF IInv

(* A host matches only with another client that claimed its game.          *)
THEOREM HostsAcceptClaimants == Spec => []AcceptsOnlyClaimants
BY Invariance, PTL DEF IInv

(* A claimant is told of a match only if its host was told too, whatever   *)
(* was lost, repeated or reordered on the way.                             *)
THEOREM JoinersWereAccepted == Spec => []JoinedOnlyIfAccepted
BY Invariance, PTL DEF IInv

-----------------------------------------------------------------------------
(* The matching protocol implements Pairing: each step of a handler, with  *)
(* all it calls, is one step of Pairing or none.                           *)

(* The clients with a search under way.                                    *)
Busy == {n \in Nodes : state[n] # "IDLE"}

PairingStep == Matches!Next \/ UNCHANGED Matches!vars

(* What client n does belongs to its search, or begins one.                *)
InSearch(n) ==
  searches' = IF n \in Busy THEN searches ELSE [searches EXCEPT ![n] = @ + 1]

(* Pairing and the protocol mean the same pairs.                           *)
LEMMA SamePairings == Matches!Pairings = Pairings
BY DEF Matches!Pairings, Matches!MatchIds, Pairings, MatchIds

(* A client's search ends, or goes on.                                     *)
LEMMA BusyChange ==
  ASSUME LocalInv, NEW n \in Nodes, NEW st, state' = [state EXCEPT ![n] = st]
  PROVE  Busy' = IF st = "IDLE" THEN Busy \ {n} ELSE Busy \cup {n}
<1>1. state \in [Nodes -> AgentStates]
  BY DEF LocalInv, Functions
<1> QED BY <1>1 DEF Busy

(* A client that serves or joins is busy.                                  *)
LEMMA BusyBegins ==
  ASSUME LocalInv, NEW n \in Nodes,
         NEW st \in {"SERVING_WAITING_CLAIMS", "JOINING_WAITING_ACK"},
         state' = [state EXCEPT ![n] = st]
  PROVE  Busy' = Busy \cup {n}
<1>1. st # "IDLE"
  OBVIOUS
<1> QED BY <1>1, BusyChange

(* The steps of Pairing, in terms of the protocol's variables.             *)
LEMMA ClaimRefines ==
  ASSUME LocalInv', NEW p \in Pairings, claimed' = claimed \cup {p},
         InSearch(p.user),
         Busy' = Busy \cup {p.user}, UNCHANGED <<filled, joined>>
  PROVE  PairingStep
<1>1. p.user # p.matchId.advertiser
  BY DEF LocalInv, HistoryInv
<1>2. Matches!Claim(p)
  BY <1>1 DEF Matches!Claim, Matches!InSearch, InSearch, Busy
<1> QED BY <1>2, SamePairings DEF PairingStep, Matches!Next

(* A host fills a game for a claimant.                                     *)
LEMMA FillRefines ==
  ASSUME LocalInv, LocalInv', NEW p \in Pairings,
         filled' = [filled EXCEPT ![p] = @ + 1], InSearch(p.matchId.advertiser),
         Busy' = Busy \ {p.matchId.advertiser}, UNCHANGED <<claimed, joined>>
  PROVE  PairingStep
<1>1. filled'[p] > 0
  BY DEF LocalInv, HistoryInv, Counts
<1>2. p \in claimed
  BY <1>1 DEF LocalInv, HistoryInv
<1>3. Matches!Fill(p)
  BY <1>2 DEF Matches!Fill, Matches!InSearch, InSearch, Busy
<1> QED BY <1>3, SamePairings DEF PairingStep, Matches!Next

(* A claimant joins the game it claimed.                                   *)
LEMMA JoinRefines ==
  ASSUME LocalInv, LocalInv', NEW p \in Pairings, p.user \in Busy,
         joined' = [joined EXCEPT ![p] = @ + 1],
         Busy' = Busy \ {p.user}, UNCHANGED <<claimed, filled, searches>>
  PROVE  PairingStep
<1>1. joined'[p] > 0
  BY DEF LocalInv, HistoryInv, Counts
<1>2. filled[p] > 0
  BY <1>1 DEF LocalInv, HistoryInv
<1>3. Matches!Join(p)
  BY <1>2 DEF Matches!Join, Busy
<1> QED BY <1>3, SamePairings DEF PairingStep, Matches!Next

(* A search that begins without a claim, or merely restarts.               *)
LEMMA SearchRefines ==
  ASSUME NEW n \in Nodes, Busy' = Busy \cup {n}, InSearch(n),
         UNCHANGED <<claimed, filled, joined>>
  PROVE  PairingStep
<1>1. CASE n \in Busy
  BY <1>1 DEF PairingStep, Matches!vars, InSearch, Busy
<1>2. CASE n \notin Busy
  <2>1. Matches!Search(n)
    BY <1>2 DEF Matches!Search, Matches!InSearch, InSearch, Busy
  <2> QED BY <2>1 DEF PairingStep, Matches!Next
<1> QED BY <1>1, <1>2

(* A search that is given up, or was not under way.                        *)
LEMMA QuitRefines ==
  ASSUME NEW n \in Nodes, Busy' = Busy \ {n},
         UNCHANGED <<claimed, filled, joined, searches>>
  PROVE  PairingStep
<1>1. CASE n \notin Busy
  BY <1>1 DEF PairingStep, Matches!vars, Busy
<1>2. CASE n \in Busy
  <2>1. Matches!Quit(n)
    BY <1>2 DEF Matches!Quit, Busy
  <2> QED BY <2>1 DEF PairingStep, Matches!Next
<1> QED BY <1>1, <1>2

(* A step that touches neither searches nor matches.                       *)
LEMMA QuietRefines ==
  ASSUME UNCHANGED <<state, claimed, filled, joined, searches>>
  PROVE  PairingStep
BY DEF PairingStep, Matches!vars

(* Before anything happens nobody searches and nothing was claimed.        *)
LEMMA InitRefines == Init => Matches!Init
<1>1. Init => Busy = {}
  BY DEF Init, Busy
<1> QED BY <1>1, SamePairings DEF Init, Matches!Init, Busy

-----------------------------------------------------------------------------
(* What the handlers share.                                                *)

(* A host that accepts a claim fills its game and is done.                 *)
LEMMA AcceptRefines ==
  ASSUME LocalInv, LocalInv', NEW n \in Nodes, NEW id \in MatchIds,
         id.advertiser = n, NEW mm, NEW base, NEW gone,
         Head(mm[id].claimsSeen) \in Nodes,
         AcceptClaim(n, id, mm, base, gone), UNCHANGED <<claimed, joined>>,
         InSearch(n)
  PROVE  PairingStep
<1> DEFINE p == Pairing(id, Head(mm[id].claimsSeen))
<1>1. p \in Pairings /\ p.matchId.advertiser = n
  BY DEF p, Pairing, Pairings
<1>2. filled' = [filled EXCEPT ![p] = @ + 1] /\ state' = [state EXCEPT ![n] = "IDLE"]
  BY DEF AcceptClaim, ClearState
<1>3. Busy' = Busy \ {n}
  BY <1>2, BusyChange
<1> HIDE DEF p
<1> QED BY <1>1, <1>2, <1>3, FillRefines

(* A client that goes idle of its own accord gives its search up.          *)
LEMMA ClearRefines ==
  ASSUME LocalInv, NEW n \in Nodes, ClearState(n), UNCHANGED historyVars
  PROVE  PairingStep
<1>1. Busy' = Busy \ {n}
  BY BusyChange DEF ClearState
<1> QED BY <1>1, QuitRefines DEF historyVars

(* An advert of a listed game leaves a well-formed entry.                  *)
LEMMA RefreshedMatch ==
  ASSUME NEW match \in MatchState
  PROVE  [match EXCEPT !.seenAge = 0] \in MatchState
BY MatcherAssumption DEF MatchState, SeenLimit

(* startMatch, whoever calls it, claims a game, fills the client's own, or *)
(* only begins a search.                                                   *)
LEMMA StartRefines ==
  ASSUME LocalInv, LocalInv', NEW n \in Nodes, NEW wish \in Wishes,
         NEW mm \in Maps, NEW base, NEW gone, StartMatch(n, wish, mm, base, gone),
         InSearch(n)
  PROVE  PairingStep
<1> DEFINE own == getMatchID(n, Head(wish))
           listed == HandleAdvertise(mm, own)
           sent == Broadcast(n, AdvertiseMsg(own), base)
<1>1. joined' = joined
  BY DEF StartMatch
<1>2. ASSUME NEW id \in Joinable(n, wish, mm), JoinGame(n, wish, id, mm, base, gone)
      PROVE  PairingStep
  <2>1. Pairing(id, n) \in Pairings /\ Pairing(id, n).user = n
    BY DEF Joinable, Pairing, Pairings
  <2>2. /\ state' = [state EXCEPT ![n] = "JOINING_WAITING_ACK"]
        /\ claimed' = claimed \cup {Pairing(id, n)} /\ filled' = filled
    BY <1>2 DEF JoinGame
  <2>3. Busy' = Busy \cup {n}
    BY <2>2, BusyBegins
  <2> QED BY <1>1, <2>1, <2>2, <2>3, ClaimRefines
<1>3. ASSUME ServeGame(n, wish, own, listed, sent, gone)
      PROVE  PairingStep
  <2>1. /\ state' = [state EXCEPT ![n] = "SERVING_WAITING_CLAIMS"]
        /\ claimed' = claimed /\ filled' = filled
    BY <1>3 DEF ServeGame
  <2>2. Busy' = Busy \cup {n}
    BY <2>1, BusyBegins
  <2> QED BY <1>1, <2>1, <2>2, SearchRefines
<1>4. ASSUME Claimed(listed, own), AcceptClaim(n, own, listed, sent, gone),
             UNCHANGED claimed
      PROVE  PairingStep
  <2>1. own \in MatchIds /\ own.advertiser = n
    <3>1. Head(wish) \in Games
      BY MatcherAssumption
    <3> QED BY <3>1 DEF getMatchID, MatchIds
  <2>2. listed \in Maps /\ mm[own] \in MatchState \cup {None}
    BY <2>1, AdvertiseType DEF Maps
  <2>3. listed[own] \in MatchState
    <3>1. listed[own] = IF mm[own] = None THEN NewMatch
                                          ELSE [mm[own] EXCEPT !.seenAge = 0]
      BY <2>1 DEF HandleAdvertise, Maps
    <3>2. CASE mm[own] = None
      BY <3>1, <3>2, NewMatchType
    <3>3. CASE mm[own] # None
      <4>1. mm[own] \in MatchState
        BY <2>2, <3>3
      <4> QED BY <3>1, <3>3, <4>1, RefreshedMatch
    <3> QED BY <3>2, <3>3
  <2>4. Head(listed[own].claimsSeen) \in Nodes
    <3>1. listed[own].claimsSeen \in Seq(Nodes) /\ listed[own].claimsSeen # <<>>
      BY <1>4, <2>3 DEF Claimed, MatchState
    <3> QED BY <3>1
  <2> HIDE DEF own, listed, sent
  <2> QED BY <1>1, <1>4, <2>1, <2>4, AcceptRefines
<1> QED BY <1>2, <1>3, <1>4 DEF StartMatch

-----------------------------------------------------------------------------
(* Each action.                                                            *)

(* A search that begins.                                                   *)
LEMMA FindMatchRefines ==
  ASSUME LocalInv, LocalInv', NEW n \in Nodes, NEW wish \in Wishes,
         FindMatch(n, wish)
  PROVE  PairingStep
BY ClientParts, StartRefines DEF FindMatch, InSearch, Busy

(* A poll that starts the search over.                                     *)
LEMMA PollRefines ==
  ASSUME LocalInv, LocalInv', NEW n \in Nodes, Poll(n)
  PROVE  PairingStep
<1>1. targetMatch[n] \in Wishes
  BY ClientParts DEF Poll, Overdue, AgentInv
<1>2. InSearch(n)
  BY DEF Poll, Overdue, InSearch, Busy
<1> QED BY <1>1, <1>2, ClientParts, StartRefines DEF Poll

(* stopMatch ends the search unless the callback throws.                   *)
LEMMA StopMatchRefines ==
  ASSUME LocalInv, NEW n \in Nodes, NEW outcome, StopMatch(n, outcome)
  PROVE  PairingStep
<1>1. CASE outcome = "throws"
  BY <1>1, QuietRefines DEF StopMatch, historyVars
<1>2. CASE outcome # "throws"
  BY <1>2, ClearRefines DEF StopMatch
<1> QED BY <1>1, <1>2

(* A claim is filled by the host that serves the game, and by nobody else. *)
LEMMA ReceiveClaimRefines ==
  ASSUME LocalInv, LocalInv', NEW n \in Nodes, NEW m \in Message,
         ReceiveClaim(n, m)
  PROVE  PairingStep
<1> DEFINE id == m.matchId
           mm == HandleClaim(matchMap[n], id, m.user)
<1>1. id \in MatchIds /\ m.user \in Nodes
  BY ArrivedMessage DEF ReceiveClaim
<1>2. CASE /\ NewClaim(matchMap[n], id, m.user)
           /\ Serves(n, id)
           /\ AcceptClaim(n, id, mm, Consume(n, m), {})
           /\ UNCHANGED <<claimed, joined, searches>>
  <2>1. id.advertiser = n
    <3> HIDE DEF id
    <3>1. state[n] = "SERVING_WAITING_CLAIMS" /\ matchId[n] = id
      BY <1>2 DEF Serves
    <3>2. id = getMatchID(n, Head(targetMatch[n]))
      BY <3>1, ClientParts DEF AgentInv
    <3> QED BY <3>2 DEF getMatchID
  <2>2. Head(mm[id].claimsSeen) \in Nodes
    <3>1. /\ matchMap[n] \in Maps /\ matchMap[n][id] \in MatchState
      BY <1>1, <1>2, ClientParts DEF NewClaim, Listed, Maps
    <3>2. mm[id] = WithClaim(matchMap[n][id], m.user)
      BY <1>1, <1>2, <3>1 DEF HandleClaim, Maps
    <3>3. mm[id].claimsSeen = Append(matchMap[n][id].claimsSeen, m.user)
      BY <3>1, <3>2 DEF WithClaim, MatchState
    <3>4. matchMap[n][id].claimsSeen \in Seq(Nodes)
      BY <3>1 DEF MatchState
    <3>5. \A s \in Seq(Nodes), u \in Nodes : Head(Append(s, u)) \in Nodes
      OBVIOUS
    <3> HIDE DEF mm, id
    <3> QED BY <1>1, <3>3, <3>4, <3>5
  <2>3. InSearch(n)
    BY <1>2 DEF Serves, InSearch, Busy
  <2> HIDE DEF mm
  <2> QED BY <1>1, <1>2, <2>1, <2>2, <2>3, AcceptRefines
<1>3. CASE UNCHANGED <<state, claimed, filled, joined, searches>>
  BY <1>3, QuietRefines
<1> QED BY <1>2, <1>3 DEF ReceiveClaim

(* An ack ends the search of the claimant it names, which was busy with    *)
(* that game; another claimant's search goes on.                           *)
LEMMA ReceiveAckRefines ==
  ASSUME LocalInv, LocalInv', NEW n \in Nodes, NEW m \in Message,
         ReceiveAck(n, m)
  PROVE  PairingStep
<1> DEFINE id == m.matchId
           mm == HandleAck(matchMap[n], id, m.user)
<1>1. id \in MatchIds /\ m.user \in Nodes
  BY ArrivedMessage DEF ReceiveAck
<1>2. CASE /\ Won(n, mm, id)
           /\ joined' = [joined EXCEPT ![Pairing(id, n)] = @ + 1]
           /\ ClearState(n)
           /\ UNCHANGED <<claimed, filled, searches>>
  <2>1. Pairing(id, n) \in Pairings /\ Pairing(id, n).user = n
    BY <1>1 DEF Pairing, Pairings
  <2>2. n \in Busy
    BY <1>2 DEF Won, Awaits, Busy
  <2>3. Busy' = Busy \ {n}
    BY <1>2, BusyChange DEF ClearState
  <2> QED BY <1>2, <2>1, <2>2, <2>3, JoinRefines
<1>3. CASE /\ NewAck(matchMap[n], id, m.user) /\ Lost(n, mm, id)
           /\ StartMatch(n, targetMatch[n], mm, Consume(n, m), {id})
           /\ UNCHANGED searches
  <2>1. targetMatch[n] \in Wishes
    BY <1>3, ClientParts DEF Lost, Awaits, AgentInv
  <2>2. mm \in Maps
    <3>1. MapInv(matchMap[n], claimed) /\ Listed(matchMap[n], id)
      BY <1>3, ClientParts DEF NewAck
    <3> HIDE DEF id
    <3> QED BY <1>1, <3>1, AckMap
  <2>3. InSearch(n)
    BY <1>3 DEF Lost, Awaits, InSearch, Busy
  <2> HIDE DEF mm, id
  <2> QED BY <1>3, <2>1, <2>2, <2>3, StartRefines
<1>4. CASE UNCHANGED <<agentVars, historyVars>>
  BY <1>4, QuietRefines DEF agentVars, historyVars
<1> QED BY <1>2, <1>3, <1>4 DEF ReceiveAck

-----------------------------------------------------------------------------

(* Every step of the protocol is a step of Pairing or invisible to it.     *)
LEMMA StepRefines ==
  LocalInv /\ LocalInv' /\ [Next]_vars => [Matches!Next]_(Matches!vars)
<1> SUFFICES ASSUME LocalInv, LocalInv', [Next]_vars PROVE PairingStep
  BY DEF PairingStep
<1>1. ASSUME NEW n \in Nodes, UserStep(n) PROVE PairingStep
  BY <1>1, FindMatchRefines, StopMatchRefines DEF UserStep
<1>2. ASSUME NEW n \in Nodes, NEW m \in Message, Receive(n, m)
      PROVE  PairingStep
  <2>1. CASE ReceiveAdvertise(n, m) \/ ReceiveUnadvertise(n, m)
    BY <2>1, QuietRefines
       DEF ReceiveAdvertise, ReceiveUnadvertise, agentVars, historyVars
  <2> QED BY <1>2, <2>1, ReceiveClaimRefines, ReceiveAckRefines DEF Receive
<1>3. ASSUME NEW n \in Nodes, Poll(n) PROVE PairingStep
  BY <1>3, PollRefines
<1>4. ASSUME NEW n \in Nodes, CheckTimeouts(n) PROVE PairingStep
  BY <1>4, QuietRefines DEF CheckTimeouts, agentVars, historyVars
<1>5. ASSUME NEW n \in Nodes, NEW m \in Message, Lose(n, m) PROVE PairingStep
  BY <1>5, QuietRefines DEF Lose, agentVars, historyVars
<1>6. ASSUME NEW n \in Nodes, Reload(n) PROVE PairingStep
  BY <1>6, ClearRefines DEF Reload
<1>7. CASE Tick
  BY <1>7, QuietRefines DEF Tick, historyVars
<1>8. CASE UNCHANGED vars
  BY <1>8, QuietRefines DEF vars
<1> QED BY <1>1, <1>2, <1>3, <1>4, <1>5, <1>6, <1>7, <1>8 DEF Next, ClientStep

(* findMatch keeps what Pairing promises its users, whatever is lost,      *)
(* repeated, reordered, reloaded or timed out: a host fills a game only    *)
(* for a claimant, a claimant joins only what was filled and only while it *)
(* searches, and each ends its search with it (Matcher.ts).                *)
THEOREM PairingImplemented == Spec => ImplementsPairing
<1>1. Init => LocalInv /\ Matches!Init
  BY InitInv, InitRefines
<1>2. LocalInv /\ [Next]_vars => LocalInv'
  BY StepInv
<1>3. LocalInv /\ LocalInv' /\ [Next]_vars => [Matches!Next]_(Matches!vars)
  BY StepRefines
<1> QED BY <1>1, <1>2, <1>3, PTL DEF Spec, ImplementsPairing, Matches!Spec

-----------------------------------------------------------------------------
(* Sums.                                                                   *)

(* Induction over the numbers with a set in the place of a predicate.      *)
LEMMA NumberInduction ==
  ASSUME NEW T, T \subseteq Nat, 0 \in T, \A n \in T : n + 1 \in T
  PROVE  T = Nat
<1> DEFINE rest == Nat \ T
<1>1. SUFFICES ASSUME rest # {} PROVE FALSE
  OBVIOUS
<1>2. PICK x \in rest : \A y \in rest : ~ (<<y, x>> \in OpToRel(<, Nat))
  <2>1. rest \subseteq Nat
    OBVIOUS
  <2> HIDE DEF rest
  <2> QED BY <1>1, <2>1, NatLessThanWellFounded, WFMin
<1>3. \A y \in rest : ~ (y < x)
  BY <1>2, Zenon DEF OpToRel
<1>4. x \in Nat /\ x # 0 /\ x \notin T
  OBVIOUS
<1>5. x - 1 \in Nat /\ x - 1 < x
  BY <1>4
<1>6. x - 1 \in T
  BY <1>3, <1>5
<1> QED BY <1>4, <1>6

(* Induction over the parts of a finite set, P being those it holds of.    *)
LEMMA PartInduction ==
  ASSUME NEW S, IsFiniteSet(S), NEW P, {} \in P,
         \A A \in SUBSET S : A # {} /\ (\A x \in A : A \ {x} \in P) => A \in P
  PROVE  \A A \in SUBSET S : A \in P
<1> DEFINE T == {n \in Nat : \A A \in SUBSET S : Cardinality(A) = n => A \in P}
<1>1. \A A \in SUBSET S : IsFiniteSet(A) /\ Cardinality(A) \in Nat
  BY FS_Subset, FS_CardinalityType
<1>2. 0 \in T
  BY <1>1, FS_EmptySet
<1>3. ASSUME NEW n \in T PROVE n + 1 \in T
  <2>1. SUFFICES ASSUME NEW A \in SUBSET S, Cardinality(A) = n + 1 PROVE A \in P
    OBVIOUS
  <2>2. A # {}
    BY <1>1, <2>1, FS_EmptySet
  <2>3. ASSUME NEW x \in A PROVE A \ {x} \in P
    <3>1. Cardinality(A \ {x}) = Cardinality(A) - 1
      BY <1>1, FS_RemoveElement
    <3>2. Cardinality(A \ {x}) = n
      BY <2>1, <3>1
    <3>3. A \ {x} \in SUBSET S
      OBVIOUS
    <3> QED BY <3>2, <3>3
  <2> QED BY <2>2, <2>3
<1>4. T = Nat
  <2>1. T \subseteq Nat
    OBVIOUS
  <2> HIDE DEF T
  <2> QED BY <1>2, <1>3, <2>1, NumberInduction
<1> QED BY <1>1, <1>4

(* The sum of the f[x], for x in S.                                        *)
Total(f, S) == Matches!SumFunctionOnSet(f, S)

(* Function s gives the sum over A, in the order of the choices.           *)
SumAt(s, f, A) ==
  IF A = {} THEN 0
  ELSE LET x == CHOOSE x \in A : TRUE IN f[x] + s[A \ {x}]

Sums(s, f, S) == s = [A \in SUBSET S |-> SumAt(s, f, A)]

(* There is such a function.                                               *)
LEMMA SumsExist ==
  ASSUME NEW f, NEW S, IsFiniteSet(S)
  PROVE  \E s : Sums(s, f, S)
<1> DEFINE Upto(g, n) == \A A \in SUBSET S : Cardinality(A) <= n => g[A] = SumAt(g, f, A)
           T == {n \in Nat : \E g : Upto(g, n)}
<1>1. \A A \in SUBSET S : IsFiniteSet(A) /\ Cardinality(A) \in Nat
  BY FS_Subset, FS_CardinalityType
<1>2. ASSUME NEW A \in SUBSET S, A # {}
      PROVE  LET x == CHOOSE x \in A : TRUE
             IN  /\ A \ {x} \in SUBSET S
                 /\ Cardinality(A \ {x}) = Cardinality(A) - 1
  <2> DEFINE x == CHOOSE x \in A : TRUE
  <2>1. x \in A
    BY <1>2
  <2> HIDE DEF x
  <2>2. Cardinality(A \ {x}) = Cardinality(A) - 1
    BY <1>1, <2>1, FS_RemoveElement
  <2> QED BY <2>2 DEF x
<1>3. 0 \in T
  <2> DEFINE g == [A \in SUBSET S |-> 0]
  <2>1. ASSUME NEW A \in SUBSET S, Cardinality(A) <= 0 PROVE g[A] = SumAt(g, f, A)
    <3>1. A = {}
      BY <1>1, <2>1, FS_EmptySet
    <3> QED BY <3>1 DEF SumAt
  <2> HIDE DEF g
  <2> QED BY <2>1
<1>4. ASSUME NEW n \in T PROVE n + 1 \in T
  <2>1. PICK g : Upto(g, n)
    OBVIOUS
  <2> DEFINE h == [A \in SUBSET S |-> SumAt(g, f, A)]
  <2>2. ASSUME NEW A \in SUBSET S, Cardinality(A) <= n + 1
        PROVE  h[A] = SumAt(h, f, A)
    <3>1. h[A] = SumAt(g, f, A)
      OBVIOUS
    <3>2. CASE A = {}
      BY <3>1, <3>2 DEF SumAt
    <3>3. CASE A # {}
      <4> DEFINE x == CHOOSE x \in A : TRUE
      <4>1. A \ {x} \in SUBSET S /\ Cardinality(A \ {x}) <= n
        BY <1>1, <1>2, <2>2, <3>3
      <4> HIDE DEF x
      <4>2. g[A \ {x}] = h[A \ {x}]
        BY <2>1, <4>1
      <4> HIDE DEF h
      <4>3. SumAt(g, f, A) = f[x] + g[A \ {x}] /\ SumAt(h, f, A) = f[x] + h[A \ {x}]
        BY <3>3 DEF SumAt, x
      <4> QED BY <3>1, <4>2, <4>3
    <3> QED BY <3>2, <3>3
  <2> HIDE DEF h
  <2>3. Upto(h, n + 1)
    BY <2>2
  <2> QED BY <2>3
<1>5. T = Nat
  <2>1. T \subseteq Nat
    OBVIOUS
  <2> HIDE DEF T
  <2> QED BY <1>3, <1>4, <2>1, NumberInduction
<1>6. PICK g : Upto(g, Cardinality(S))
  <2>1. Cardinality(S) \in T
    BY <1>1, <1>5
  <2> QED BY <2>1
<1> DEFINE s == [A \in SUBSET S |-> SumAt(g, f, A)]
<1>7. ASSUME NEW A \in SUBSET S PROVE s[A] = g[A]
  <2>1. Cardinality(A) <= Cardinality(S)
    BY FS_Subset
  <2> QED BY <1>6, <2>1
<1>8. ASSUME NEW A \in SUBSET S PROVE SumAt(g, f, A) = SumAt(s, f, A)
  <2>1. CASE A = {}
    BY <2>1 DEF SumAt
  <2>2. CASE A # {}
    <3> DEFINE x == CHOOSE x \in A : TRUE
    <3>1. g[A \ {x}] = s[A \ {x}]
      BY <1>2, <1>7, <2>2
    <3> HIDE DEF s
    <3> QED BY <2>2, <3>1 DEF SumAt
  <2> QED BY <2>1, <2>2
<1>9. Sums(s, f, S)
  BY <1>8 DEF Sums
<1> QED BY <1>9

Adds(s, f, S) ==
  /\ Total(f, S) = s[S]
  /\ \A A \in SUBSET S : s[A] = SumAt(s, f, A)

(* The sum is what that function gives for the whole set.                  *)
LEMMA TotalIsSum ==
  ASSUME NEW f, NEW S, IsFiniteSet(S)
  PROVE  \E s : Adds(s, f, S)
<1> DEFINE s == CHOOSE s : Sums(s, f, S)
<1>1. Total(f, S) = s[S]
  BY DEF Total, Sums, SumAt, Matches!SumFunctionOnSet,
         Matches!FoldFunctionOnSet, Matches!MapThenFoldSet
<1>2. Sums(s, f, S)
  BY SumsExist
<1> HIDE DEF s
<1>3. \A A \in SUBSET S : s[A] = SumAt(s, f, A)
  BY <1>2 DEF Sums
<1> QED BY <1>1, <1>3 DEF Adds

(* On S, g counts one more than f at p, and the same elsewhere.            *)
OneMore(f, g, S, p) ==
  \A x \in S : f[x] \in Nat /\ g[x] = f[x] + (IF x = p THEN 1 ELSE 0)

(* So does the sum, if p is summed over.                                   *)
SumMore(f, g, S, p) ==
  /\ Total(f, S) \in Nat
  /\ Total(g, S) = Total(f, S) + (IF p \in S THEN 1 ELSE 0)

(* One more at p is one more in the sum.                                   *)
LEMMA TotalGrows ==
  ASSUME NEW f, NEW g, NEW S, IsFiniteSet(S), NEW p, OneMore(f, g, S, p)
  PROVE  SumMore(f, g, S, p)
<1>1. PICK s : Adds(s, f, S)
  BY TotalIsSum
<1>2. PICK t : Adds(t, g, S)
  BY TotalIsSum
<1> DEFINE P == {A \in SUBSET S :
                   s[A] \in Nat /\ t[A] = s[A] + (IF p \in A THEN 1 ELSE 0)}
<1>3. {} \in P
  <2>1. {} \in SUBSET S
    OBVIOUS
  <2>2. s[{}] = 0 /\ t[{}] = 0
    BY <1>1, <1>2, <2>1 DEF SumAt, Adds
  <2> QED BY <2>1, <2>2
<1>4. ASSUME NEW A \in SUBSET S, A # {}, \A x \in A : A \ {x} \in P
      PROVE  A \in P
  <2> DEFINE x == CHOOSE x \in A : TRUE
  <2>1. s[A] = f[x] + s[A \ {x}] /\ t[A] = g[x] + t[A \ {x}]
    BY <1>1, <1>2, <1>4 DEF SumAt, Adds
  <2>2. x \in A
    BY <1>4
  <2> HIDE DEF x
  <2>3. s[A \ {x}] \in Nat /\ t[A \ {x}] = s[A \ {x}] + (IF p \in A \ {x} THEN 1 ELSE 0)
    BY <1>4, <2>2
  <2>4. f[x] \in Nat /\ g[x] = f[x] + (IF x = p THEN 1 ELSE 0)
    BY <2>2 DEF OneMore
  <2> DEFINE fx == f[x]
             gx == g[x]
             sx == s[A \ {x}]
             tx == t[A \ {x}]
             i == IF p \in A \ {x} THEN 1 ELSE 0
             j == IF x = p THEN 1 ELSE 0
             k == IF p \in A THEN 1 ELSE 0
  <2>5. i \in Nat /\ j \in Nat /\ k \in Nat /\ i + j = k
    BY <2>2
  <2>6. sx \in Nat /\ tx = sx + i /\ fx \in Nat /\ gx = fx + j
        /\ s[A] = fx + sx /\ t[A] = gx + tx
    BY <2>1, <2>3, <2>4
  <2> HIDE DEF fx, gx, sx, tx, i, j, k
  <2>7. s[A] \in Nat /\ t[A] = s[A] + k
    BY <2>5, <2>6
  <2> QED BY <2>7 DEF k
<1>5. S \in P
  <2> HIDE DEF P
  <2> QED BY <1>3, <1>4, PartInduction
<1> QED BY <1>1, <1>2, <1>5 DEF Adds, SumMore

(* Nothing adds up to nothing.                                             *)
LEMMA TotalNothing ==
  ASSUME NEW f, NEW S, IsFiniteSet(S), \A x \in S : f[x] = 0
  PROVE  Total(f, S) = 0
<1>1. PICK s : Adds(s, f, S)
  BY TotalIsSum
<1> DEFINE P == {A \in SUBSET S : s[A] = 0}
<1>2. {} \in P
  BY <1>1 DEF SumAt, Adds
<1>3. ASSUME NEW A \in SUBSET S, A # {}, \A x \in A : A \ {x} \in P
      PROVE  A \in P
  <2> DEFINE x == CHOOSE x \in A : TRUE
  <2>1. s[A] = f[x] + s[A \ {x}]
    BY <1>1, <1>3 DEF SumAt, Adds
  <2>2. x \in A
    BY <1>3
  <2> HIDE DEF x
  <2>3. s[A \ {x}] = 0 /\ f[x] = 0
    BY <1>3, <2>2
  <2> QED BY <2>1, <2>3
<1>4. S \in P
  <2> HIDE DEF P
  <2>1. \A A \in SUBSET S : A \in P
    BY <1>2, <1>3, PartInduction
  <2> QED BY <2>1
<1> QED BY <1>1, <1>4 DEF Adds
-----------------------------------------------------------------------------
(* One match for each search: Pairing cannot do otherwise.                 *)

(* What client n can be told of as a host and as a joiner.                 *)
Hosted(n) == {p \in Pairings : p.matchId.advertiser = n}
Visited(n) == {p \in Pairings : p.user = n}

(* The searches of n, but for the one under way, are at least its matches. *)
Answered(n) ==
  Total(filled, Hosted(n)) + Total(joined, Visited(n))
    + (IF n \in Busy THEN 1 ELSE 0) <= searches[n]

(* The property, in these terms.                                           *)
LEMMA SameCount == OneMatchPerSearch <=> \A n \in Nodes : Answered(n)
BY SamePairings DEF OneMatchPerSearch, Matches!OneMatchPerSearch, Matches!Told,
                    Answered, Hosted, Visited, Total, Busy

(* Finitely many clients and games make finitely many pairs.               *)
LEMMA FinitePairings ==
  ASSUME IsFiniteSet(Nodes), IsFiniteSet(Games), NEW n
  PROVE  IsFiniteSet(Hosted(n)) /\ IsFiniteSet(Visited(n))
<1> DEFINE T == (Nodes \X Games) \X Nodes
           f == [t \in T |-> Pairing(getMatchID(t[1][1], t[1][2]), t[2])]
<1>1. IsFiniteSet(T)
  BY FS_Product
<1>2. f \in [T -> Pairings]
  BY DEF Pairing, getMatchID, Pairings, MatchIds
<1>3. ASSUME NEW p \in Pairings PROVE \E t \in T : f[t] = p
  <2> DEFINE t == <<<<p.matchId.advertiser, p.matchId.match>>, p.user>>
  <2>1. t \in T /\ f[t] = p
    BY DEF Pairing, getMatchID, Pairings, MatchIds
  <2> QED BY <2>1
<1>4. IsFiniteSet(Pairings)
  <2> HIDE DEF T, f
  <2>1. f \in Surjection(T, Pairings)
    BY <1>2, <1>3 DEF Surjection
  <2> QED BY <1>1, <2>1, FS_Surjection
<1> QED BY <1>4, FS_Subset DEF Hosted, Visited

(* At first nobody searches and nobody was told of a match.                *)
LEMMA InitAnswered ==
  ASSUME IsFiniteSet(Nodes), IsFiniteSet(Games), Init
  PROVE  \A n \in Nodes : Answered(n)
<1>1. SUFFICES ASSUME NEW n \in Nodes PROVE Answered(n)
  OBVIOUS
<1>2. Total(filled, Hosted(n)) = 0 /\ Total(joined, Visited(n)) = 0
  <2>1. \A p \in Hosted(n) : filled[p] = 0
    BY DEF Init, Hosted
  <2>2. \A p \in Visited(n) : joined[p] = 0
    BY DEF Init, Visited
  <2> QED BY <2>1, <2>2, FinitePairings, TotalNothing
<1>3. searches[n] = 0 /\ n \notin Busy
  BY DEF Init, Busy
<1> QED BY <1>2, <1>3 DEF Answered

(* One count goes up by one, at p.                                         *)
LEMMA CountMore ==
  ASSUME NEW f \in Counts, NEW g, NEW p, g = [f EXCEPT ![p] = @ + 1],
         NEW S, S \subseteq Pairings, IsFiniteSet(S)
  PROVE  SumMore(f, g, S, p)
<1>1. OneMore(f, g, S, p)
  BY DEF Counts, OneMore
<1> QED BY <1>1, TotalGrows

(* A sum of counts is a number.                                            *)
LEMMA CountType ==
  ASSUME NEW f \in Counts, NEW S, S \subseteq Pairings, IsFiniteSet(S)
  PROVE  Total(f, S) \in Nat
<1> DEFINE g == [x \in S |-> f[x] + (IF x = {} THEN 1 ELSE 0)]
<1>1. OneMore(f, g, S, {})
  BY DEF Counts, OneMore
<1> HIDE DEF g
<1>2. SumMore(f, g, S, {})
  BY <1>1, TotalGrows
<1> QED BY <1>2 DEF SumMore

(* A step of Pairing tells a client at most what its search is for.        *)
LEMMA AnsweredStep ==
  ASSUME IsFiniteSet(Nodes), IsFiniteSet(Games), LocalInv, Counting,
         Matches!Next, NEW n \in Nodes, Answered(n)
  PROVE  Answered(n)'
<1> DEFINE F == Total(filled, Hosted(n))
           J == Total(joined, Visited(n))
           B == IF n \in Busy THEN 1 ELSE 0
           s == searches[n]
<1>1. filled \in Counts /\ joined \in Counts
  BY DEF LocalInv, HistoryInv
<1>2. /\ Hosted(n) \subseteq Pairings /\ IsFiniteSet(Hosted(n))
      /\ Visited(n) \subseteq Pairings /\ IsFiniteSet(Visited(n))
  BY FinitePairings DEF Hosted, Visited
<1>3. F \in Nat /\ J \in Nat /\ B \in {0, 1} /\ s \in Nat /\ F + J + B <= s
  <2>1. F \in Nat /\ J \in Nat
    BY <1>1, <1>2, CountType
  <2> QED BY <2>1 DEF Answered, Counting
<1>4. SUFFICES Total(filled', Hosted(n)) + Total(joined', Visited(n))
                 + (IF n \in Busy' THEN 1 ELSE 0) <= searches'[n]
  BY DEF Answered, Hosted, Visited
<1>5. ASSUME NEW q \in Nodes, Matches!InSearch(q)
      PROVE  searches'[n] = IF q = n THEN s + 1 - B ELSE s
  BY <1>5 DEF Matches!InSearch, Counting, Busy
<1>6. ASSUME NEW q \in Nodes, Matches!Search(q) PROVE <1>4!1
  <2>1. filled' = filled /\ joined' = joined /\ Busy' = Busy \cup {q}
    BY <1>6 DEF Matches!Search, Busy
  <2>2. searches'[n] = IF q = n THEN s + 1 - B ELSE s
    BY <1>5, <1>6 DEF Matches!Search
  <2> QED BY <1>3, <2>1, <2>2
<1>7. ASSUME NEW q \in Nodes, Matches!Quit(q) PROVE <1>4!1
  <2>1. filled' = filled /\ joined' = joined /\ Busy' = Busy \ {q} /\ searches' = searches
    BY <1>7 DEF Matches!Quit, Busy
  <2> QED BY <1>3, <2>1
<1>8. ASSUME NEW p \in Pairings, Matches!Claim(p) PROVE <1>4!1
  <2>1. filled' = filled /\ joined' = joined /\ Busy' = Busy \cup {p.user} /\ p.user \in Nodes
    BY <1>8 DEF Matches!Claim, Busy, Pairings
  <2>2. searches'[n] = IF p.user = n THEN s + 1 - B ELSE s
    BY <1>5, <1>8, <2>1 DEF Matches!Claim
  <2> QED BY <1>3, <2>1, <2>2
<1>9. ASSUME NEW p \in Pairings, Matches!Fill(p) PROVE <1>4!1
  <2> DEFINE h == p.matchId.advertiser
  <2>1. /\ filled' = [filled EXCEPT ![p] = @ + 1] /\ joined' = joined
        /\ Busy' = Busy \ {h} /\ h \in Nodes
    BY <1>9 DEF Matches!Fill, Busy, Pairings, MatchIds
  <2>2. searches'[n] = IF h = n THEN s + 1 - B ELSE s
    BY <1>5, <1>9, <2>1 DEF Matches!Fill
  <2>3. Total(filled', Hosted(n)) = F + (IF h = n THEN 1 ELSE 0)
    <3>1. p \in Hosted(n) <=> h = n
      BY DEF Hosted
    <3>2. SumMore(filled, filled', Hosted(n), p)
      BY <1>1, <1>2, <2>1, CountMore
    <3> QED BY <3>1, <3>2 DEF SumMore
  <2> HIDE DEF h
  <2> QED BY <1>3, <2>1, <2>2, <2>3
<1>10. ASSUME NEW p \in Pairings, Matches!Join(p) PROVE <1>4!1
  <2> DEFINE u == p.user
  <2>1. /\ joined' = [joined EXCEPT ![p] = @ + 1] /\ filled' = filled
        /\ Busy' = Busy \ {u} /\ searches' = searches /\ u \in Busy
    BY <1>10 DEF Matches!Join, Busy
  <2>2. Total(joined', Visited(n)) = J + (IF u = n THEN 1 ELSE 0)
    <3>1. p \in Visited(n) <=> u = n
      BY DEF Visited
    <3>2. SumMore(joined, joined', Visited(n), p)
      BY <1>1, <1>2, <2>1, CountMore
    <3> QED BY <3>1, <3>2 DEF SumMore
  <2> HIDE DEF u
  <2> QED BY <1>3, <2>1, <2>2
<1> QED BY <1>6, <1>7, <1>8, <1>9, <1>10, SamePairings DEF Matches!Next

(* The invariant that keeps the count.                                     *)
CountInv == LocalInv /\ Counting /\ \A n \in Nodes : Answered(n)

(* It is kept by every step.                                               *)
LEMMA CountStep ==
  ASSUME IsFiniteSet(Nodes), IsFiniteSet(Games), CountInv, [Next]_vars
  PROVE  CountInv'
<1>1. LocalInv' /\ Counting'
  BY StepInv, CountingStep DEF CountInv
<1>2. [Matches!Next]_(Matches!vars)
  BY <1>1, StepRefines DEF CountInv
<1>3. ASSUME NEW n \in Nodes PROVE Answered(n)'
  <2>1. LocalInv /\ Counting /\ Answered(n)
    BY DEF CountInv
  <2>2. CASE Matches!Next
    BY <2>1, <2>2, AnsweredStep
  <2>3. CASE UNCHANGED Matches!vars
    BY <2>1, <2>3 DEF Matches!vars, Answered, Busy, Hosted, Visited
  <2> QED BY <1>2, <2>2, <2>3
<1> QED BY <1>1, <1>3 DEF CountInv

(* No client is ever told of more matches than its user began searches,    *)
(* whatever is lost, repeated, reloaded or timed out (matchCallback,       *)
(* clearState).                                                            *)
THEOREM SearchesMatchOnce ==
  ASSUME IsFiniteSet(Nodes), IsFiniteSet(Games)
  PROVE  Spec => []OneMatchPerSearch
<1>1. Init => CountInv
  BY InitInv, InitAnswered DEF Init, Counting, CountInv
<1>2. CountInv /\ [Next]_vars => CountInv'
  BY CountStep
<1>3. CountInv => OneMatchPerSearch
  BY SameCount DEF CountInv
<1> QED BY <1>1, <1>2, <1>3, PTL DEF Spec

=============================================================================
