------------------------------ MODULE MCTable ------------------------------
(* Instances of Commands, and with it of Table, for TLC.                   *)
EXTENDS Commands

CONSTANTS owner, user, MaxInstructions

VARIABLE length  \* bound: instructions carried out in the open transaction

MCUsers == {owner, user}
MCOwners == {owner}

(* One name fits the field once; the other is cut in the middle of a       *)
(* character, which leaves a field that no longer decodes.                 *)
MCNames == {<<"a">>, <<"b", Lead, Trail>>}
MCFieldSize == 3

(* They are names that the proofs are about.                               *)
ASSUME NamesKeptApart == KeptApart(Names)

MCInit == CommandsInit /\ length = 0

MCNext ==
  /\ CommandsNext
  /\ length' = IF Open /\ Open' THEN length + 1 ELSE 0
  /\ length' <= MaxInstructions

MCSpec == MCInit /\ [][MCNext]_<<commandVars, length>>

=============================================================================
