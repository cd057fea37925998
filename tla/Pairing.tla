------------------------------ MODULE Pairing ------------------------------
(***************************************************************************)
(* What src/src/Matcher.ts promises the users of findMatch, without        *)
(* messages, maps or timeouts: a host is told of a match only with a user  *)
(* that claimed its game, that user only of a match its host was told of,  *)
(* and each is told while it searches and ends its search with it.         *)
(***************************************************************************)
EXTENDS Naturals, Functions

CONSTANTS Nodes, Games

VARIABLES
  searching,  \* the clients with a findMatch under way
  searches,   \* how many searches each client began
  claimed,    \* the claims made
  filled,     \* how often a host was told of each match
  joined      \* how often a claimant was

vars == <<searching, searches, claimed, filled, joined>>

MatchIds == [advertiser : Nodes, match : Games]
Pairings == [matchId : MatchIds, user : Nodes]

Init ==
  /\ searching = {}
  /\ searches = [n \in Nodes |-> 0]
  /\ claimed = {}
  /\ filled = [p \in Pairings |-> 0]
  /\ joined = [p \in Pairings |-> 0]

(* What n does belongs to the search it has under way, or begins one.      *)
InSearch(n) ==
  searches' = IF n \in searching THEN searches
                                 ELSE [searches EXCEPT ![n] = @ + 1]

Search(n) ==
  /\ n \notin searching
  /\ InSearch(n)
  /\ searching' = searching \cup {n}
  /\ UNCHANGED <<claimed, filled, joined>>

(* A search may claim a game in the step that starts it, and claim again.  *)
Claim(p) ==
  /\ p.user # p.matchId.advertiser
  /\ InSearch(p.user)
  /\ searching' = searching \cup {p.user}
  /\ claimed' = claimed \cup {p}
  /\ UNCHANGED <<filled, joined>>

(* The host's search may end in the very step that would start it.         *)
Fill(p) ==
  /\ p \in claimed
  /\ InSearch(p.matchId.advertiser)
  /\ searching' = searching \ {p.matchId.advertiser}
  /\ filled' = [filled EXCEPT ![p] = @ + 1]
  /\ UNCHANGED <<claimed, joined>>

Join(p) ==
  /\ p.user \in searching
  /\ filled[p] > 0
  /\ searching' = searching \ {p.user}
  /\ joined' = [joined EXCEPT ![p] = @ + 1]
  /\ UNCHANGED <<searches, claimed, filled>>

Quit(n) ==
  /\ n \in searching
  /\ searching' = searching \ {n}
  /\ UNCHANGED <<searches, claimed, filled, joined>>

Next ==
  \/ \E n \in Nodes : Search(n) \/ Quit(n)
  \/ \E p \in Pairings : Claim(p) \/ Fill(p) \/ Join(p)

Spec == Init /\ [][Next]_vars

-----------------------------------------------------------------------------
(* What client n was told of: games it hosts and games it joined.          *)
Told(n) ==
  SumFunctionOnSet(filled, {p \in Pairings : p.matchId.advertiser = n})
    + SumFunctionOnSet(joined, {p \in Pairings : p.user = n})

(* A call of findMatch is answered by at most one match, whatever mix of   *)
(* claims, acks and restarts it went through (matchCallback, clearState):  *)
(* no client was told of more matches than it began searches, and the      *)
(* search under way is still to be answered.                               *)
OneMatchPerSearch ==
  \A n \in Nodes :
    Told(n) + (IF n \in searching THEN 1 ELSE 0) <= searches[n]

=============================================================================
