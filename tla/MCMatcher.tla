----------------------------- MODULE MCMatcher -----------------------------
(***************************************************************************)
(* Small instances of Matcher and MatcherPrompt.  Budget bounds how often  *)
(* each kind of step is taken; a kind it does not name is not bounded.     *)
(***************************************************************************)
EXTENDS MatcherPrompt, TLC, FiniteSets

CONSTANTS a, b, c, g, h,
  Budget   \* a function from some kinds of step to how many may be taken

(* Sums over all clients and games are of finitely many numbers.           *)
ASSUME FiniteInstance == IsFiniteSet(Nodes) /\ IsFiniteSet(Games)

VARIABLE budget   \* what is left of Budget

mcVars == <<vars, budget>>

OneGame == {<<g>>}
TwoGames == {<<g>>, <<g, h>>, <<h>>}

Clients == Permutations(Nodes)

LossyBudget ==
  [find |-> 3, stop |-> 1, reload |-> 1, lose |-> 1, poll |-> 2, tick |-> 2]
CrowdBudget ==
  [find |-> 3, stop |-> 0, reload |-> 0, lose |-> 0, poll |-> 1, tick |-> 1]
EternalBudget == [find |-> 2, stop |-> 1, reload |-> 1]
PromptBudget == [find |-> 4, stop |-> 1]
FourSearchesBudget == [find |-> 4, stop |-> 0]
TwoSearchesBudget == [find |-> 2, stop |-> 0]

Spend(kind) ==
  IF kind \in DOMAIN budget
  THEN budget[kind] > 0 /\ budget' = [budget EXCEPT ![kind] = @ - 1]
  ELSE UNCHANGED budget

ClientNext ==
  \/ Spend("find") /\ \E n \in Nodes, wish \in Wishes : FindMatch(n, wish)
  \/ /\ Spend("stop")
     /\ \E n \in Nodes, outcome \in CallbackOutcomes : StopMatch(n, outcome)
  \/ Spend("poll") /\ \E n \in Nodes : Poll(n)
  \/ /\ UNCHANGED budget
     /\ \/ \E n \in Nodes : CheckTimeouts(n)
        \/ \E n \in Nodes, m \in Message : Receive(n, m)

MCInit == Init /\ budget = Budget

MCNext ==
  \/ ClientNext
  \/ Spend("lose") /\ \E n \in Nodes, m \in Message : Lose(n, m)
  \/ Spend("reload") /\ \E n \in Nodes : Reload(n)
  \/ Spend("tick") /\ Tick

MCSpec == MCInit /\ [][MCNext]_mcVars
MCFairSpec == MCSpec /\ Fairness

MCPromptNext ==
  \/ ClientNext
  \/ PromptTick /\ UNCHANGED budget

MCPromptSpec == MCInit /\ [][MCPromptNext]_mcVars
MCPromptFairSpec == MCPromptSpec /\ PromptFairness

=============================================================================
