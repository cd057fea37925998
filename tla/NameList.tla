----------------------------- MODULE NameList -----------------------------
(***************************************************************************)
(* What the owner of a table and the readers of its lists rely on: a list  *)
(* of names without duplicates that grows at the end, and from which a     *)
(* name is taken without disturbing the others.                            *)
(***************************************************************************)
EXTENDS Naturals, Sequences

CONSTANT Names

VARIABLE list

Holds(name) == \E i \in DOMAIN list : list[i] = name

Add(name) == ~Holds(name) /\ list' = Append(list, name)

Remove(name) ==
  \E i \in DOMAIN list :
    /\ list[i] = name
    /\ list' = [j \in 1..(Len(list) - 1) |-> list[IF j < i THEN j ELSE j + 1]]

Init == list = <<>>

Next == \E name \in Names : Add(name) \/ Remove(name)

Spec == Init /\ [][Next]_list

=============================================================================
