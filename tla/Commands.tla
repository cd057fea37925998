------------------------------ MODULE Commands ------------------------------
(***************************************************************************)
(* The command line tool src/util/contract_api.ts and the instruction      *)
(* builders of src/src/Contract.ts, next to other clients of the program:  *)
(* from the words that are typed to what getTableData and getSeatData then *)
(* read.                                                                   *)
(*                                                                         *)
(* A command is sent as one transaction with one instruction, signed by    *)
(* the one key the tool was given.  The builders demand the signature of   *)
(* their user and never mark the owner of somebody's seat as a signer.     *)
(***************************************************************************)
EXTENDS Table

CONSTANT ArgSize  \* the bytes of a name in an instruction: 128 in the code

ASSUME CommandsAssumption == ArgSize \in Nat /\ None \notin Owners

VARIABLES
  sent,    \* the command whose transaction is open, or None
  carried  \* whether its instruction was carried out

commandVars == <<vars, sent, carried>>

NoFlag == ""   \* createTable without a last word
Flags == {NoFlag, "true", "false"}

(* txOperations: the table is the user's own but for the seats.            *)
Command ==
  [op : {"createTable"}, user : Owners, owner : {None}, arg : Flags]
    \cup [op : {"deleteTable"}, user : Owners, owner : {None}, arg : {None}]
    \cup [op : {"addBootstrap", "deleteBootstrap", "addChannel",
                "deleteChannel"}, user : Owners, owner : {None}, arg : Names]
    \cup [op : {"addSeat"}, user : Users, owner : Owners, arg : ChannelKeys]
    \cup [op : {"deleteSeat"}, user : Users, owner : Owners, arg : {None}]

(* The flag is read with new Boolean(word): only a missing word is false.  *)
Closes(flag) == flag # NoFlag

ListOf(op) ==
  IF op \in {"addBootstrap", "deleteBootstrap"} THEN "servers" ELSE "channels"

Adds == {"addBootstrap", "addChannel"}
Deletes == {"deleteBootstrap", "deleteChannel"}

(* make*Ix: a name that is too long for the buffer throws.                 *)
Builds(c) == c.op \in Adds \cup Deletes => Len(c.arg) <= ArgSize

(* run: nothing is sent if the key id is not the one that has to sign.     *)
Send(id, c) ==
  /\ Builds(c)
  /\ c.user = id
  /\ Begin({id})
  /\ sent' = c
  /\ carried' = FALSE

Carry(c) ==
  \/ c.op = "createTable" /\ InitTable(c.user, Closes(c.arg))
  \/ c.op = "deleteTable" /\ DeleteTable(c.user)
  \/ c.op \in Adds /\ AddEntry(c.user, ListOf(c.op), c.arg)
  \/ c.op \in Deletes /\ RemoveEntry(c.user, ListOf(c.op), c.arg)
  \/ c.op = "addSeat" /\ AddSeat(c.owner, c.user, c.arg)
  \/ c.op = "deleteSeat" /\ RemoveSeat(c.owner, c.user)

(* Its one instruction; if that fails, the transaction is over.            *)
Execute ==
  /\ sent # None /\ ~carried
  /\ Carry(sent)
  /\ carried' = (signers' # {})
  /\ sent' = IF carried' THEN sent ELSE None

Confirm ==
  /\ carried
  /\ Commit
  /\ sent' = None
  /\ carried' = FALSE

(* What other programs send: any transaction of the program.               *)
Other ==
  /\ sent = None
  /\ Next
  /\ UNCHANGED <<sent, carried>>

CommandsInit == Init /\ sent = None /\ carried = FALSE

CommandsNext ==
  \/ \E id \in Users, c \in Command : Send(id, c)
  \/ Execute
  \/ Confirm
  \/ Other

CommandsSpec == CommandsInit /\ [][CommandsNext]_commandVars

-----------------------------------------------------------------------------
(* Properties *)

GetTableData(data) ==
  IF data = None THEN None
  ELSE [servers |-> Entries(data.servers), channels |-> Entries(data.channels),
        closed |-> data.closed]

(* List l without its entry x.                                             *)
Less(l, x) ==
  LET i == CHOOSE i \in DOMAIN l : l[i] = x
  IN [j \in 1..(Len(l) - 1) |-> l[IF j < i THEN j ELSE j + 1]]

(* What getTableData returns after command c on a table that held data.    *)
Told(c, data) ==
  LET shown == GetTableData(data)
      list == ListOf(c.op)
  IN CASE c.op = "createTable" ->
            [servers |-> <<>>, channels |-> <<>>, closed |-> c.arg # NoFlag]
       [] c.op = "deleteTable" -> None
       [] c.op \in Adds -> [shown EXCEPT ![list] = Append(@, c.arg)]
       [] c.op \in Deletes ->
            [shown EXCEPT ![list] = Less(@, c.arg)]
       [] OTHER -> shown

Room(c, data) ==
  c.op \in Adds => Len(data[ListOf(c.op)]) + 1 + Len(c.arg) <= FieldSize

SparesOthers(shown, read, list) ==
  /\ \E n \in 0..Len(read[list]) : shown[list] = SubSeq(read[list], 1, n)
  /\ [read EXCEPT ![list] = <<>>] = [shown EXCEPT ![list] = <<>>]

(* What the readers see, and what is there, once command c on owner o's    *)
(* table is confirmed.  An add without room spares the entries before its  *)
(* own.                                                                    *)
AsTold(c, o) ==
  LET was == saved.table[o]
      read == GetTableData(table'[o])
  IN /\ IF Room(c, was) THEN read = Told(c, was)
        ELSE SparesOthers(GetTableData(was), read, ListOf(c.op))
     /\ table' = [saved.table EXCEPT ![o] = table'[o]]
     /\ seat' = [saved.seat EXCEPT ![o][c.user] =
                   CASE c.op = "addSeat" -> c.arg
                     [] c.op = "deleteSeat" -> None
                     [] OTHER -> @]

TableOf(c) == IF c.owner = None THEN c.user ELSE c.owner

(* A command that is confirmed did what was typed and nothing else, as the *)
(* readers see it: through builder, transaction and bytes to getTableData  *)
(* and getSeatData.  The exceptions are part of what it says: any word     *)
(* after createTable closes the table, and an add without room is          *)
(* confirmed too, but spares the entries before its own.                   *)
CommandsDoAsTold == [][Confirm => AsTold(sent, TableOf(sent))]_commandVars

=============================================================================
