--------------------------- MODULE MCTableField ---------------------------
(* Instances of TableField for TLC.                                        *)
EXTENDS TableField

(* Names none of which occurs in another, one with a two-byte character,   *)
(* and a field that holds all of them and not a byte more.                 *)
DistinctNames ==
  {<<"a", "b">>, <<"b", "c">>, <<"c", "a">>, <<"b", "a">>, <<"a", Lead, Trail>>}
RoomForAll == 16

(* They are names that the proofs are about.                               *)
ASSUME NamesKeptApart == KeptApart(Names)

=============================================================================
