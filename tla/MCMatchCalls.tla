--------------------------- MODULE MCMatchCalls ---------------------------
(* Instances of MatchCalls for TLC.                                        *)
EXTENDS MatchCalls, TLC

CONSTANTS me, peer, g, h,
  Budget   \* how often each kind of step may be taken

VARIABLE budget

TwoGames == {<<g>>, <<h>>}
GameSymmetry == Permutations({g, h})

CallsBudget == [all |-> 3, call |-> 2, arrive |-> 2, poll |-> 1, tick |-> 1]

Spend(kind) ==
  /\ budget["all"] > 0 /\ budget[kind] > 0
  /\ budget' = [budget EXCEPT ![kind] = @ - 1, !["all"] = @ - 1]

MCInit == Init /\ budget = Budget

MCNext ==
  /\ \/ Step /\ UNCHANGED budget
     \/ /\ stack = <<>> /\ outbox = Nothing
        /\ \/ incoming # None /\ Receive(incoming) /\ UNCHANGED budget
           \/ Spend("call") /\ UserCalls
           \/ Spend("poll") /\ Poll
           \/ CheckTimeouts /\ UNCHANGED budget
     \/ /\ Environment
        /\ IF outbox # Nothing THEN UNCHANGED budget
           ELSE Spend(IF incoming' = incoming THEN "tick" ELSE "arrive")
  /\ Remember

MCSpec == MCInit /\ [][MCNext]_<<vars, budget>>

=============================================================================
