---------------------------- MODULE TableField ----------------------------
(***************************************************************************)
(* One list field of a table and the two instructions that edit it:        *)
(* add_bootstrap and remove_bootstrap on the first 512 bytes, add_channel  *)
(* and remove_channel on the next 512.  The two fields never overlap, so   *)
(* one of them stands for both.                                            *)
(***************************************************************************)
EXTENDS FieldBytes

CONSTANTS
  Names,     \* the names passed to the instructions, as bytes
  FieldSize  \* the bytes of the field: 512 in the code

ASSUME FieldAssumption ==
  /\ \A s \in Names : s \in Seq(STRING) /\ IsUtf8(s)
  /\ FieldSize \in Nat \ {0}

VARIABLE field  \* the bytes before the padding

Add(s) ==
  /\ Decodes(field, s)
  /\ ~Mentions(field, s)
  /\ field' = StrBufAdd(field, s, FieldSize)

Remove(s) ==
  /\ Decodes(field, s)
  /\ Mentions(field, s)
  /\ field' = StrBufRm(field, s)

(* init_table writes zeros.                                                *)
Init == field = <<>>

(* An instruction that fails is rolled back, so it is not a step.          *)
Next == \E s \in Names : Add(s) \/ Remove(s)

Spec == Init /\ [][Next]_field

-----------------------------------------------------------------------------
(* The field serves as the list of names that getTableData returns: each   *)
(* instruction adds its name at the end, or takes exactly its name away,   *)
(* and both sides agree on where a name starts and ends.                   *)
Listing == INSTANCE NameList WITH list <- Entries(field)
ImplementsNameList == Listing!Spec

(* No add is cut off: the name fits behind what the field holds.           *)
AlwaysRoom ==
  [][\A s \in Names : Add(s) => Len(field) + 1 + Len(s) <= FieldSize]_field

=============================================================================
