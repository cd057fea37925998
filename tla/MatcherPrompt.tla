--------------------------- MODULE MatcherPrompt ---------------------------
(***************************************************************************)
(* The matching protocol of src/src/Matcher.ts on its good days: nothing   *)
(* is lost, no page is reloaded, and messages and intervals are fast       *)
(* compared with the timeouts of seconds.  A unit of time passes only when *)
(* nothing is in flight and no interval has work to do.                    *)
(***************************************************************************)
EXTENDS Matcher

Quiet ==
  /\ \A n \in Nodes, m \in Message : net[n][m] = 0
  /\ \A n \in Nodes : ~Overdue(n) /\ Stale(matchMap[n]) = {}

PromptTick == Quiet /\ Tick

PromptNext ==
  \/ \E n \in Nodes : ClientStep(n)
  \/ PromptTick

PromptSpec == Init /\ [][PromptNext]_vars

PromptFairness ==
  /\ \A n \in Nodes : WF_vars(Poll(n)) /\ WF_vars(CheckTimeouts(n))
  /\ \A n \in Nodes, m \in Message : WF_vars(Receive(n, m))
  /\ WF_vars(PromptTick)

-----------------------------------------------------------------------------
(* A host's own game is in its own map for as long as it serves: it        *)
(* refreshes the advert, its own copy included, before that can expire     *)
(* (poll against checkTimeouts).  Without it every claim is ignored.       *)
HostKeepsItsGame ==
  \A n \in Nodes :
    state[n] = "SERVING_WAITING_CLAIMS" => Listed(matchMap[n], matchId[n])

(* A claim on its way to a host whose advert is current, from a client     *)
(* whose own entry of the game has not expired, with nothing else about    *)
(* this game on its way to either of them.                                 *)
PunctualClaim(n, id) ==
  LET host == id.advertiser
      claim == ClaimMsg(id, n)
  IN /\ Awaits(n, id)
     /\ Listed(matchMap[n], id) /\ id \notin Stale(matchMap[n])
     /\ Serves(host, id) /\ ~AdvertLapsed(host)
     /\ net[host][claim] > 0
     /\ \A p \in {n, host}, m \in Message :
          m.matchId = id /\ net[p][m] > 0 => p = host /\ m = claim

(* The host's answer to it, on its way to a client that still expects it.  *)
AckOnItsWay(n, id) ==
  /\ Awaits(n, id)
  /\ Listed(matchMap[n], id) /\ id \notin Stale(matchMap[n])
  /\ net[n][AckMsg(id, n)] > 0

(* Why a claim or its ack may still come to nothing: the host or the       *)
(* client calls the search off, or another client is after the game too.   *)
CalledOff(n, id) ==
  \/ state[n] = "IDLE"
  \/ net[n][UnadvertiseMsg(id)] > 0
  \/ \E p, other \in Nodes :
       other # n /\ net[p][ClaimMsg(id, other)] + net[p][AckMsg(id, other)] > 0

(* A punctual claim is answered, and the answer starts the game on the     *)
(* other side: the host acks the claim and nothing in between makes it     *)
(* leave its game, and the claimant still lists the game and waits for it  *)
(* when the ack arrives (handleClaimMessage, handleMatchStateUpdate, poll, *)
(* checkTimeouts).                                                         *)
PunctualClaimMatches ==
  [][\A n \in Nodes, id \in MatchIds :
       /\ PunctualClaim(n, id) =>
            PunctualClaim(n, id)' \/ AckOnItsWay(n, id)' \/ CalledOff(n, id)'
       /\ AckOnItsWay(n, id) /\ ~CalledOff(n, id) =>
            IF net'[n][AckMsg(id, n)] < net[n][AckMsg(id, n)]
            THEN joined'[Pairing(id, n)] = joined[Pairing(id, n)] + 1
            ELSE AckOnItsWay(n, id)' \/ CalledOff(n, id)']_vars

(* Both sides of a match agree on it once all is quiet: a client whose     *)
(* claim a host accepted has started the game too.                         *)
PairsAgree ==
  Quiet => \A p \in Pairings : filled[p] > 0 => joined[p] > 0

(* A host's ack starts one game of the client it accepted: no client       *)
(* starts a game more often than its host filled it with that client.      *)
StartsFilledGame == \A p \in Pairings : joined[p] <= filled[p]

(* Two users who look for the same game, and go on looking, are matched.   *)
SearchersMeet ==
  (\A n \in Nodes : state[n] # "IDLE") ~> (\E p \in Pairings : filled[p] > 0)

=============================================================================
