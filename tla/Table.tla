------------------------------- MODULE Table -------------------------------
(***************************************************************************)
(* The Solana program of src/contract: tables, the seats at them, and the  *)
(* instructions that change them, carried out in transactions.             *)
(*                                                                         *)
(* A table's address is derived from its owner and a seat's from the table *)
(* and the user, so accounts are indexed by those.  The program checks     *)
(* that derivation, so a wrong address is one more way to fail.  The       *)
(* runtime (external) runs the instructions of a transaction in order and  *)
(* undoes them all if one fails; an account without lamports keeps its     *)
(* data until the transaction ends, and is then gone.                      *)
(*                                                                         *)
(* Lamports are modelled only by who has none: drained.                    *)
(***************************************************************************)
EXTENDS FieldBytes

CONSTANTS
  Users,       \* the public keys that sign transactions
  Owners,      \* the users that keep a table
  Names,       \* the bootstraps and channels passed, as bytes
  ChannelKeys, \* the channel keys users put on their seats
  FieldSize,   \* the bytes of a list field: 512 in the code
  None         \* no account

(* What a list field may hold: the bytes of names, and what separates them.*)
Bytes == {Separator} \cup UNION {{s[i] : i \in DOMAIN s} : s \in Names}

TableData ==
  [servers : Seq(Bytes), channels : Seq(Bytes), closed : BOOLEAN]

ASSUME TableAssumption ==
  /\ Owners \subseteq Users
  /\ None \notin TableData \cup ChannelKeys
  /\ \A s \in Names : s \in Seq(Bytes)
  /\ FieldSize \in Nat \ {0}

VARIABLES
  table,    \* table[o]: the data of owner o's table, or None
  seat,     \* seat[o][u]: the channel key of u's seat at o's table, or None
  drained,  \* the accounts whose lamports the open transaction took
  signers,  \* who signed the open transaction; {} when none is open
  saved,    \* the accounts as the open transaction found them
  admitted  \* history: <<o, u>> if o signed for u's seat, or for the table
            \* that was made around it

vars == <<table, seat, drained, signers, saved, admitted>>

-----------------------------------------------------------------------------

Accounts == [table |-> table, seat |-> seat, admitted |-> admitted]

TableAcc(o) == <<o>>
SeatAcc(o, u) == <<o, u>>

Open == signers # {}

Begin(who) ==
  /\ ~Open
  /\ signers' = who
  /\ saved' = Accounts
  /\ UNCHANGED <<table, seat, drained, admitted>>

RollBack ==
  /\ table' = saved.table
  /\ seat' = saved.seat
  /\ admitted' = saved.admitted
  /\ drained' = {}
  /\ signers' = {}
  /\ UNCHANGED saved

(* What is left of the accounts once the drained ones are collected.       *)
Commit ==
  /\ Open
  /\ table' = [o \in Owners |->
                 IF TableAcc(o) \in drained THEN None ELSE table[o]]
  /\ seat' = [o \in Owners |-> [u \in Users |->
                 IF SeatAcc(o, u) \in drained THEN None ELSE seat[o][u]]]
  /\ drained' = {}
  /\ signers' = {}
  /\ saved' = [table |-> table', seat |-> seat', admitted |-> admitted]
  /\ UNCHANGED admitted

-----------------------------------------------------------------------------
(* Instructions.  Each is sent by a user u, and fails, which ends the      *)
(* transaction, unless u signed it (process_instruction).                  *)

(* (slip: the first account need not be a signer)                          *)
Signed_Anyone(u) == TRUE

Signed(u) == u \in signers

(* The data of a table that was never made, or was made and collected, is  *)
(* empty: it neither deserialises nor holds a list field.                  *)
Exists(o) == table[o] # None

InitTable(o, closed) ==
  /\ Open
  /\ IF Signed(o) /\ ~Exists(o)
     THEN /\ table' = [table EXCEPT ![o] =
                [servers |-> <<>>, channels |-> <<>>, closed |-> closed]]
          /\ admitted' = admitted \cup
                {<<o, u>> : u \in {u \in Users : seat[o][u] # None}}
          /\ UNCHANGED <<seat, drained, signers, saved>>
     ELSE RollBack

DeleteTable(o) ==
  /\ Open
  /\ IF Signed(o) /\ Exists(o)
     THEN /\ drained' = drained \cup {TableAcc(o)}
          /\ UNCHANGED <<table, seat, signers, saved, admitted>>
     ELSE RollBack

(* AddBootstrap and AddChannel                                             *)
AddEntry(o, list, s) ==
  /\ Open
  /\ IF /\ Signed(o) /\ Exists(o)
        /\ Decodes(table[o][list], s)
        /\ ~Mentions(table[o][list], s)
     THEN /\ table' =
               [table EXCEPT ![o][list] = StrBufAdd(@, s, FieldSize)]
          /\ UNCHANGED <<seat, drained, signers, saved, admitted>>
     ELSE RollBack

(* RemoveBootstrap and RemoveChannel                                       *)
RemoveEntry(o, list, s) ==
  /\ Open
  /\ IF /\ Signed(o) /\ Exists(o)
        /\ Decodes(table[o][list], s)
        /\ Mentions(table[o][list], s)
     THEN /\ table' = [table EXCEPT ![o][list] = StrBufRm(@, s)]
          /\ UNCHANGED <<seat, drained, signers, saved, admitted>>
     ELSE RollBack

(* (slip: a closed table is not asked for its owner's signature)           *)
MaySit_AnyTable(o, u) == Signed(u) /\ Exists(o)

(* A seat at a closed table comes and goes with its owner's signature.     *)
MaySit(o, u) ==
  /\ Signed(u)
  /\ Exists(o)
  /\ table[o].closed => Signed(o)

(* The result of making the account is ignored: the seat of a user who has *)
(* one already gets the new key, and one drained before stays drained.     *)
AddSeat(o, u, key) ==
  /\ Open
  /\ IF MaySit(o, u)
     THEN /\ seat' = [seat EXCEPT ![o][u] = key]
          /\ admitted' = IF Signed(o) THEN admitted \cup {<<o, u>>}
                                      ELSE admitted \ {<<o, u>>}
          /\ UNCHANGED <<table, drained, signers, saved>>
     ELSE RollBack

(* Nothing asks whether there is a seat.                                   *)
RemoveSeat(o, u) ==
  /\ Open
  /\ IF MaySit(o, u)
     THEN /\ drained' = IF seat[o][u] = None THEN drained
                        ELSE drained \cup {SeatAcc(o, u)}
          /\ UNCHANGED <<table, seat, signers, saved, admitted>>
     ELSE RollBack

-----------------------------------------------------------------------------

Init ==
  /\ table = [o \in Owners |-> None]
  /\ seat = [o \in Owners |-> [u \in Users |-> None]]
  /\ drained = {}
  /\ signers = {}
  /\ admitted = {}
  /\ saved = Accounts

Instruction ==
  \/ \E o \in Owners, closed \in BOOLEAN : InitTable(o, closed)
  \/ \E o \in Owners : DeleteTable(o)
  \/ \E o \in Owners, list \in {"servers", "channels"}, s \in Names :
       AddEntry(o, list, s) \/ RemoveEntry(o, list, s)
  \/ \E o \in Owners, u \in Users :
       \/ \E key \in ChannelKeys : AddSeat(o, u, key)
       \/ RemoveSeat(o, u)

Next ==
  \/ \E who \in (SUBSET Users) \ {{}} : Begin(who)
  \/ Instruction
  \/ Commit

Spec == Init /\ [][Next]_vars

-----------------------------------------------------------------------------
(* Properties *)

(* Type invariant.  Only what exists is ever drained.                      *)
TypeOK ==
  /\ table \in [Owners -> TableData \cup {None}]
  /\ \A o \in Owners : Exists(o) =>
       /\ Len(table[o].servers) <= FieldSize
       /\ Len(table[o].channels) <= FieldSize
  /\ seat \in [Owners -> [Users -> ChannelKeys \cup {None}]]
  /\ \A a \in drained :
       \/ \E o \in Owners : a = TableAcc(o) /\ Exists(o)
       \/ \E o \in Owners, u \in Users : a = SeatAcc(o, u) /\ seat[o][u] # None
  /\ signers \subseteq Users

(* The transaction that is open ends: with its effect or without.          *)
Ends == Open /\ signers' = {}

(* Whatever a transaction does, it changes no table without the signature  *)
(* of its owner and no seat without the signature of its user: not even an *)
(* owner can take a seat away (process_instruction, check_seat_account).   *)
ChangesAreSigned ==
  [][Ends =>
       /\ \A o \in Owners : table'[o] # saved.table[o] => o \in signers
       /\ \A o \in Owners, u \in Users :
            seat'[o][u] # saved.seat[o][u] => u \in signers]_vars

(* Seats at a closed table, and at no table at all, stay as they are until *)
(* the owner signs: a transaction that reopens the question, by deleting   *)
(* or making the table on the way, needs that signature too (add_seat,     *)
(* remove_seat).                                                           *)
GateKept ==
  [][Ends =>
       \A o \in Owners, u \in Users :
         /\ seat'[o][u] # saved.seat[o][u]
         /\ saved.table[o] = None \/ saved.table[o].closed
         => o \in signers]_vars

(* Who sits at a closed table has its owner's signature: on the seat as it *)
(* is now, or on the table if the seat outlived an earlier one, which it   *)
(* may (delete_table leaves the seats, add_seat overwrites them).          *)
ClosedTablesAdmit ==
  ~Open => \A o \in Owners, u \in Users :
             Exists(o) /\ table[o].closed /\ seat[o][u] # None
               => <<o, u>> \in admitted

=============================================================================
