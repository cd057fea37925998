----------------------------- MODULE TableProofs -----------------------------
(***************************************************************************)
(* Whose signature a change of the accounts needs, proved of Table for     *)
(* every set of users, owners, names and channel keys, every size of the   *)
(* fields and transactions of any length; what the accounts hold: fields   *)
(* that fit and that list names; and of Commands, that what is typed is    *)
(* what is done.                                                           *)
(***************************************************************************)
EXTENDS Commands, FieldLemmas

Fields == {"servers", "channels", "closed"}

HasAccounts(acc) ==
  /\ DOMAIN acc.table = Owners
  /\ \A o \in Owners : acc.table[o] # None => DOMAIN acc.table[o] = Fields
  /\ DOMAIN acc.seat = Owners
  /\ \A o \in Owners : DOMAIN acc.seat[o] = Users

Shape ==
  HasAccounts(Accounts) /\ HasAccounts(saved)

(* Who sits at a closed table, of the accounts as they are now or were.    *)
Admits(acc) ==
  \A o \in Owners, u \in Users :
    acc.table[o] # None /\ acc.table[o].closed /\ acc.seat[o][u] # None
      => <<o, u>> \in acc.admitted

TouchesTable(o) == table[o] # saved.table[o] \/ TableAcc(o) \in drained

TouchesSeat(o, u) == seat[o][u] # saved.seat[o][u] \/ SeatAcc(o, u) \in drained

(* A table that takes its owner to get a seat at, or that is not there.    *)
Gated(o) == saved.table[o] = None \/ saved.table[o].closed

(* What the open transaction has done so far is covered by its signatures. *)
Covered ==
  /\ ~Open => drained = {}
  /\ Open =>
       /\ \A o \in Owners : TouchesTable(o) => o \in signers
       /\ \A o \in Owners, u \in Users :
            TouchesSeat(o, u) => u \in signers /\ (Gated(o) => o \in signers)

TableInv == Shape /\ Admits(Accounts) /\ Admits(saved) /\ Covered

(* There is no account at first.                                           *)
LEMMA InitInv == Init => TableInv
BY DEF Init, TableInv, Shape, HasAccounts, Accounts, Admits, Covered, Open

(* A transaction that is undone leaves the accounts it found.              *)
LEMMA RollBackInv ==
  ASSUME TableInv, RollBack
  PROVE  TableInv'
BY DEF RollBack, TableInv, Shape, HasAccounts, Accounts, Admits, Covered, Open

(* A transaction begins with what was saved.                               *)
LEMMA BeginInv ==
  ASSUME TableInv, NEW who \in SUBSET Users, Begin(who)
  PROVE  TableInv'
<1>1. Shape' /\ Admits(Accounts)' /\ Admits(saved)'
  BY DEF Begin, TableInv, Shape, HasAccounts, Accounts, Admits
<1>2. Covered'
  BY DEF Begin, TableInv, Accounts, Covered, Open, TouchesTable, TouchesSeat
<1> QED BY <1>1, <1>2 DEF TableInv

(* What a transaction did is saved, and drained accounts go.               *)
LEMMA CommitInv ==
  ASSUME TableInv, Commit
  PROVE  TableInv'
<1>1. /\ \A o \in Owners :
           table'[o] = IF TableAcc(o) \in drained THEN None ELSE table[o]
      /\ \A o \in Owners, u \in Users :
           seat'[o][u] = IF SeatAcc(o, u) \in drained THEN None ELSE seat[o][u]
      /\ DOMAIN table' = Owners /\ DOMAIN seat' = Owners
      /\ \A o \in Owners : DOMAIN seat'[o] = Users
      /\ saved' = Accounts' /\ UNCHANGED admitted
      /\ drained' = {} /\ signers' = {}
  BY DEF Commit, Accounts
<1>2. HasAccounts(Accounts)'
  BY <1>1 DEF TableInv, Shape, HasAccounts, Accounts
<1>3. Admits(Accounts)'
  BY <1>1 DEF TableInv, Admits, Accounts
<1>4. HasAccounts(saved)' /\ Admits(saved)'
  BY <1>1, <1>2, <1>3 DEF HasAccounts, Admits
<1>5. Covered'
  BY <1>1 DEF Covered, Open
<1> QED BY <1>2, <1>3, <1>4, <1>5 DEF TableInv, Shape

(* An owner who signs may do to the table what the instructions on it do:  *)
(* nobody is at a closed table who was not there, or is admitted.          *)
LEMMA TableChangeInv ==
  ASSUME TableInv, NEW o \in Owners, o \in signers,
         DOMAIN table' = Owners,
         \A q \in Owners \ {o} : table'[q] = table[q],
         table'[o] # None => DOMAIN table'[o] = Fields,
         drained' \subseteq drained \cup {TableAcc(o)},
         admitted \subseteq admitted',
         table'[o] # None /\ table'[o].closed =>
           \/ table[o] # None /\ table[o].closed
           \/ \A u \in Users : seat[o][u] # None => <<o, u>> \in admitted',
         UNCHANGED <<seat, signers, saved>>
  PROVE  TableInv'
<1>1. Shape' /\ Admits(saved)'
  BY DEF TableInv, Shape, HasAccounts, Accounts, Admits
<1>2. Admits(Accounts)'
  BY DEF TableInv, Admits, Accounts
<1>3. Covered'
  <2>1. Open /\ Open'
    BY DEF Open
  <2>2. \A q \in Owners : TouchesTable(q)' => q \in signers'
    BY <2>1 DEF TableInv, Covered, TouchesTable, TableAcc
  <2>3. \A q \in Owners, u \in Users : TouchesSeat(q, u)' => TouchesSeat(q, u)
    BY DEF TouchesSeat, SeatAcc, TableAcc
  <2> QED BY <2>1, <2>2, <2>3 DEF TableInv, Covered, Gated
<1> QED BY <1>1, <1>2, <1>3 DEF TableInv

(* A table is made with its owner's signature.                             *)
LEMMA InitTableInv ==
  ASSUME TableInv, NEW o \in Owners, NEW closed \in BOOLEAN,
         InitTable(o, closed)
  PROVE  TableInv'
<1>1. CASE Signed(o) /\ ~Exists(o)
  <2>1. /\ o \in signers
        /\ table' = [table EXCEPT ![o] =
             [servers |-> <<>>, channels |-> <<>>, closed |-> closed]]
        /\ admitted' = admitted \cup
             {<<o, u>> : u \in {u \in Users : seat[o][u] # None}}
        /\ UNCHANGED <<seat, drained, signers, saved>>
    BY <1>1 DEF InitTable, Signed
  <2>2. DOMAIN table = Owners
    BY DEF TableInv, Shape, HasAccounts, Accounts
  <2>3. DOMAIN table'[o] = Fields
    BY <2>1, <2>2 DEF Fields
  <2>4. \A u \in Users : seat[o][u] # None => <<o, u>> \in admitted'
    BY <2>1
  <2> QED BY <2>1, <2>2, <2>3, <2>4, TableChangeInv
<1>2. CASE ~(Signed(o) /\ ~Exists(o))
  BY <1>2, RollBackInv DEF InitTable
<1> QED BY <1>1, <1>2

(* A table is drained with its owner's signature.                          *)
LEMMA DeleteTableInv ==
  ASSUME TableInv, NEW o \in Owners, DeleteTable(o)
  PROVE  TableInv'
<1>1. CASE Signed(o) /\ Exists(o)
  <2>1. /\ o \in signers
        /\ drained' = drained \cup {TableAcc(o)}
        /\ UNCHANGED <<table, seat, signers, saved, admitted>>
    BY <1>1 DEF DeleteTable, Signed
  <2>2. DOMAIN table = Owners /\ (table[o] # None => DOMAIN table[o] = Fields)
    BY DEF TableInv, Shape, HasAccounts, Accounts
  <2> QED BY <2>1, <2>2, TableChangeInv
<1>2. CASE ~(Signed(o) /\ Exists(o))
  BY <1>2, RollBackInv DEF DeleteTable
<1> QED BY <1>1, <1>2

(* An entry added or removed leaves the flag of its table alone.           *)
LEMMA ListChangeInv ==
  ASSUME TableInv, NEW o \in Owners, NEW list \in {"servers", "channels"},
         NEW bytes,
         o \in signers, Exists(o),
         table' = [table EXCEPT ![o] = [table[o] EXCEPT ![list] = bytes]],
         UNCHANGED <<seat, drained, signers, saved, admitted>>
  PROVE  TableInv'
<1>1. DOMAIN table = Owners /\ DOMAIN table[o] = Fields
  BY DEF TableInv, Shape, HasAccounts, Accounts, Exists
<1>2. table'[o] = [table[o] EXCEPT ![list] = bytes]
  BY <1>1
<1>3. DOMAIN table'[o] = Fields
  BY <1>1, <1>2
<1>4. table'[o].closed = table[o].closed
  BY <1>1, <1>2 DEF Fields
<1>5. DOMAIN table' = Owners /\ \A q \in Owners \ {o} : table'[q] = table[q]
  BY <1>1
<1> QED BY <1>3, <1>4, <1>5, TableChangeInv DEF Exists

(* The lists of a table are edited with its owner's signature.             *)
LEMMA EntryInv ==
  ASSUME TableInv, NEW o \in Owners, NEW list \in {"servers", "channels"},
         NEW s \in Names, AddEntry(o, list, s) \/ RemoveEntry(o, list, s)
  PROVE  TableInv'
<1>1. CASE RollBack
  BY <1>1, RollBackInv
<1>2. CASE ~RollBack
  <2>1. PICK bytes :
          /\ o \in signers /\ Exists(o)
          /\ table' = [table EXCEPT ![o] = [table[o] EXCEPT ![list] = bytes]]
          /\ UNCHANGED <<seat, drained, signers, saved, admitted>>
    BY <1>2 DEF AddEntry, RemoveEntry, Signed
  <2> QED BY <2>1, ListChangeInv
<1> QED BY <1>1, <1>2

(* Who may sit at a table may have a seat there changed: if the table      *)
(* became open during the transaction, its owner has signed for that.      *)
LEMMA SeatCovered ==
  ASSUME TableInv, NEW o \in Owners, NEW u \in Users, MaySit(o, u)
  PROVE  Open /\ u \in signers /\ (Gated(o) => o \in signers)
<1>1. Open /\ u \in signers /\ table[o] # None
      /\ (table[o].closed => o \in signers)
  BY DEF MaySit, Signed, Exists, Open
<1>2. CASE table[o] = saved.table[o]
  BY <1>1, <1>2 DEF Gated
<1>3. CASE table[o] # saved.table[o]
  BY <1>1, <1>3 DEF TableInv, Covered, TouchesTable
<1> QED BY <1>1, <1>2, <1>3

(* A seat that may change is covered by the signatures.                    *)
LEMMA SeatChangeInv ==
  ASSUME TableInv, NEW o \in Owners, NEW u \in Users, MaySit(o, u),
         DOMAIN seat' = Owners,
         \A q \in Owners : DOMAIN seat'[q] = Users,
         \A q \in Owners, v \in Users :
           <<q, v>> # <<o, u>> => /\ seat'[q][v] = seat[q][v]
                                  /\ <<q, v>> \in admitted =>
                                       <<q, v>> \in admitted',
         drained' \subseteq drained \cup {SeatAcc(o, u)},
         \/ seat'[o][u] = seat[o][u] /\ admitted' = admitted
         \/ o \in signers => <<o, u>> \in admitted',
         UNCHANGED <<table, signers, saved>>
  PROVE  TableInv'
<1>1. Open /\ u \in signers /\ (Gated(o) => o \in signers)
  BY SeatCovered
<1>2. Shape' /\ Admits(saved)'
  BY DEF TableInv, Shape, HasAccounts, Accounts, Admits
<1>3. Admits(Accounts)'
  <2> SUFFICES ASSUME NEW q \in Owners, NEW v \in Users,
                      table'[q] # None, table'[q].closed, seat'[q][v] # None
               PROVE  <<q, v>> \in admitted'
    BY DEF Admits, Accounts
  <2>1. CASE <<q, v>> # <<o, u>>
    BY <2>1 DEF TableInv, Admits, Accounts
  <2>2. CASE q = o /\ v = u
    <3>1. o \in signers
      BY <2>2 DEF MaySit, Signed
    <3> QED BY <2>2, <3>1 DEF TableInv, Admits, Accounts
  <2> QED BY <2>1, <2>2
<1>4. Covered'
  <2>1. Open'
    BY <1>1 DEF Open
  <2>2. \A q \in Owners : TouchesTable(q)' => TouchesTable(q)
    BY DEF TouchesTable, TableAcc, SeatAcc
  <2>3. \A q \in Owners, v \in Users :
          TouchesSeat(q, v)' => TouchesSeat(q, v) \/ (q = o /\ v = u)
    BY DEF TouchesSeat, SeatAcc
  <2>4. \A q \in Owners : Gated(q)' <=> Gated(q)
    BY DEF Gated
  <2> QED BY <1>1, <2>1, <2>2, <2>3, <2>4 DEF TableInv, Covered
<1> QED BY <1>2, <1>3, <1>4 DEF TableInv

(* Seats are made and drained by those who may.                            *)
LEMMA SeatInv ==
  ASSUME TableInv, NEW o \in Owners, NEW u \in Users,
         \/ \E key \in ChannelKeys : AddSeat(o, u, key)
         \/ RemoveSeat(o, u)
  PROVE  TableInv'
<1>0. DOMAIN seat = Owners /\ \A q \in Owners : DOMAIN seat[q] = Users
  BY DEF TableInv, Shape, HasAccounts, Accounts
<1>1. CASE RollBack
  BY <1>1, RollBackInv
<1>2. ASSUME ~RollBack, NEW key \in ChannelKeys, AddSeat(o, u, key)
      PROVE  TableInv'
  <2>1. /\ MaySit(o, u)
        /\ seat' = [seat EXCEPT ![o][u] = key]
        /\ admitted' = IF o \in signers THEN admitted \cup {<<o, u>>}
                                        ELSE admitted \ {<<o, u>>}
        /\ UNCHANGED <<table, drained, signers, saved>>
    BY <1>2 DEF AddSeat, Signed
  <2>2. /\ DOMAIN seat' = Owners
        /\ \A q \in Owners : DOMAIN seat'[q] = Users
        /\ \A q \in Owners, v \in Users :
             <<q, v>> # <<o, u>> => seat'[q][v] = seat[q][v]
    BY <1>0, <2>1
  <2>3. /\ \A q \in Owners, v \in Users :
             <<q, v>> # <<o, u>> /\ <<q, v>> \in admitted =>
               <<q, v>> \in admitted'
        /\ o \in signers => <<o, u>> \in admitted'
    BY <2>1
  <2>4. drained' \subseteq drained \cup {SeatAcc(o, u)}
    BY <2>1
  <2> QED BY <2>1, <2>2, <2>3, <2>4, SeatChangeInv
<1>3. CASE ~RollBack /\ RemoveSeat(o, u)
  <2>1. /\ MaySit(o, u)
        /\ drained' \subseteq drained \cup {SeatAcc(o, u)}
        /\ UNCHANGED <<table, seat, signers, saved, admitted>>
    BY <1>3 DEF RemoveSeat
  <2> QED BY <1>0, <2>1, SeatChangeInv
<1> QED BY <1>1, <1>2, <1>3

(* Every step keeps what was done covered by the signatures.               *)
LEMMA StepInv ==
  ASSUME TableInv, [Next]_vars
  PROVE  TableInv'
<1>1. CASE Instruction
  BY <1>1, InitTableInv, DeleteTableInv, EntryInv, SeatInv DEF Instruction
<1>2. CASE UNCHANGED vars
  BY <1>2 DEF vars, TableInv, Shape, HasAccounts, Accounts, Admits, Covered,
              Open, TouchesTable, TouchesSeat, Gated
<1> QED BY <1>1, <1>2, BeginInv, CommitInv DEF Next

(* Accounts, and what the open transaction has done to them, are covered   *)
(* by signatures after every step.                                         *)
THEOREM TableInvariance == Spec => []TableInv
BY InitInv, StepInv, PTL DEF Spec

(* A transaction ends by being undone or by its commit; either way what it *)
(* leaves was saved or is what its steps were covered for.                 *)
LEMMA EndsCovered ==
  ASSUME TableInv, Next, Ends, NEW o \in Owners
  PROVE  /\ table'[o] # saved.table[o] => TouchesTable(o)
         /\ \A u \in Users :
              seat'[o][u] # saved.seat[o][u] => TouchesSeat(o, u)
<1>1. Commit \/ RollBack
  BY DEF Next, Ends, Begin, Open, Instruction, InitTable, DeleteTable,
         AddEntry, RemoveEntry, AddSeat, RemoveSeat
<1>2. CASE Commit
  BY <1>2 DEF Commit, TouchesTable, TouchesSeat
<1>3. CASE RollBack
  BY <1>3 DEF RollBack
<1> QED BY <1>1, <1>2, <1>3

(* No transaction changes a table without its owner's signature, or a seat *)
(* without its user's (process_instruction).                               *)
THEOREM ChangesSigned == Spec => ChangesAreSigned
<1>1. TableInv /\ [Next]_vars =>
        [Ends =>
           /\ \A o \in Owners : table'[o] # saved.table[o] => o \in signers
           /\ \A o \in Owners, u \in Users :
                seat'[o][u] # saved.seat[o][u] => u \in signers]_vars
  BY EndsCovered DEF TableInv, Covered, Ends
<1> QED BY <1>1, TableInvariance, PTL DEF Spec, ChangesAreSigned

(* Seats at a closed table, and at no table, change only with the owner's  *)
(* signature, whatever the transaction does to the table on the way        *)
(* (add_seat, remove_seat).                                                *)
THEOREM GateHolds == Spec => GateKept
<1>1. TableInv /\ [Next]_vars =>
        [Ends =>
           \A o \in Owners, u \in Users :
             /\ seat'[o][u] # saved.seat[o][u]
             /\ saved.table[o] = None \/ saved.table[o].closed
             => o \in signers]_vars
  BY EndsCovered DEF TableInv, Covered, Ends, Gated
<1> QED BY <1>1, TableInvariance, PTL DEF Spec, GateKept

(* Who sits at a closed table was admitted by its owner.                   *)
THEOREM ClosedTablesAreGuarded == Spec => []ClosedTablesAdmit
<1>1. TableInv => ClosedTablesAdmit
  BY DEF TableInv, Admits, Accounts, ClosedTablesAdmit, Exists
<1> QED BY <1>1, TableInvariance, PTL

-----------------------------------------------------------------------------
(* Types.                                                                  *)

(* The accounts are well formed, and no list outgrows its field.           *)
Typed(acc) ==
  /\ acc.table \in [Owners -> TableData \cup {None}]
  /\ \A o \in Owners : acc.table[o] # None =>
       /\ Len(acc.table[o].servers) <= FieldSize
       /\ Len(acc.table[o].channels) <= FieldSize
  /\ acc.seat \in [Owners -> [Users -> ChannelKeys \cup {None}]]

(* The open transaction drains what exists.                                *)
DrainsExisting ==
  \A a \in drained :
    \/ \E o \in Owners : a = TableAcc(o) /\ Exists(o)
    \/ \E o \in Owners, u \in Users : a = SeatAcc(o, u) /\ seat[o][u] # None

(* The type invariant, and the same of the accounts a transaction that     *)
(* fails returns to.                                                       *)
TypeInv ==
  Typed(Accounts) /\ Typed(saved) /\ DrainsExisting /\ signers \subseteq Users

(* A list field after an instruction on it.                                *)
LEMMA ListBytes ==
  ASSUME NEW d \in Seq(Bytes), Len(d) <= FieldSize, NEW s \in Names
  PROVE  /\ StrBufAdd(d, s, FieldSize) \in Seq(Bytes)
         /\ Len(StrBufAdd(d, s, FieldSize)) <= FieldSize
         /\ StrBufRm(d, s) \in Seq(Bytes)
         /\ Len(StrBufRm(d, s)) <= FieldSize
<1>1. s \in Seq(Bytes) /\ FieldSize \in Nat
  BY TableAssumption
<1>2. <<Separator>> \in Seq(Bytes) /\ Len(<<Separator>>) = 1
  <2>1. Separator \in Bytes
    BY DEF Bytes
  <2> QED BY <2>1
<1>3. /\ <<Separator>> \o s \in Seq(Bytes)
      /\ d \o <<Separator>> \o s \in Seq(Bytes)
      /\ Len(<<Separator>> \o s) = 1 + Len(s)
  BY <1>1, <1>2, ConcatProperties
<1>4. <<Separator>> \o s # <<>> /\ Len(s) \in Nat
  BY <1>1, <1>3
<1>5. /\ StrBufAdd(d, s, FieldSize) \in Seq(Bytes)
      /\ Len(StrBufAdd(d, s, FieldSize)) <= FieldSize
  BY <1>1, <1>3, FittingType DEF StrBufAdd
<1>6. /\ StrBufRm(d, s) \in Seq(Bytes)
      /\ Len(StrBufRm(d, s)) <= Len(d)
  BY <1>3, <1>4, DroppedType DEF StrBufRm
<1>7. Len(StrBufRm(d, s)) \in Nat /\ Len(d) \in Nat
  BY <1>6
<1> QED BY <1>1, <1>5, <1>6, <1>7

(* Undone: the accounts are those of saved, and nothing is drained.        *)
LEMMA RollBackTypes ==
  ASSUME TypeInv, RollBack
  PROVE  TypeInv'
<1>1. /\ table' = saved.table /\ seat' = saved.seat /\ saved' = saved
      /\ drained' = {} /\ signers' = {}
  BY DEF RollBack
<1> QED BY <1>1 DEF TypeInv, Typed, Accounts, DrainsExisting

(* A step within a transaction that takes no account away.                 *)
LEMMA ChangeTypes ==
  ASSUME TypeInv, Typed(Accounts)', UNCHANGED <<signers, saved>>,
         \A o \in Owners : table[o] # None => table'[o] # None,
         \A o \in Owners, u \in Users : seat[o][u] # None => seat'[o][u] # None,
         \A a \in drained' \ drained :
           \/ \E o \in Owners : a = TableAcc(o) /\ table'[o] # None
           \/ \E o \in Owners, u \in Users : a = SeatAcc(o, u) /\ seat'[o][u] # None
  PROVE  TypeInv'
<1>1. DrainsExisting'
  BY DEF TypeInv, DrainsExisting, Exists, TableAcc, SeatAcc
<1>2. Typed(saved)'
  BY DEF TypeInv, Typed
<1> QED BY <1>1, <1>2 DEF TypeInv

(* One table gets new data.                                                *)
LEMMA TableTypes ==
  ASSUME TypeInv, NEW o \in Owners, NEW data \in TableData,
         Len(data.servers) <= FieldSize, Len(data.channels) <= FieldSize,
         table' = [table EXCEPT ![o] = data],
         UNCHANGED <<seat, drained, signers, saved>>
  PROVE  TypeInv'
<1>1. table \in [Owners -> TableData \cup {None}]
  BY DEF TypeInv, Typed, Accounts
<1>2. data # None
  BY TableAssumption
<1>3. /\ table' \in [Owners -> TableData \cup {None}] /\ table'[o] = data
      /\ \A q \in Owners \ {o} : table'[q] = table[q]
  BY <1>1
<1>4. Typed(Accounts)'
  BY <1>3 DEF TypeInv, Typed, Accounts
<1>5. \A q \in Owners : table[q] # None => table'[q] # None
  BY <1>2, <1>3
<1> QED BY <1>4, <1>5, ChangeTypes

(* The instructions that edit a list.                                      *)
LEMMA EntryTypes ==
  ASSUME TypeInv, NEW o \in Owners, NEW list \in {"servers", "channels"},
         NEW s \in Names, AddEntry(o, list, s) \/ RemoveEntry(o, list, s)
  PROVE  TypeInv'
<1>1. CASE RollBack
  BY <1>1, RollBackTypes
<1>2. CASE ~RollBack
  <2>1. PICK bytes \in {StrBufAdd(table[o][list], s, FieldSize),
                        StrBufRm(table[o][list], s)} :
          /\ table[o] # None
          /\ table' = [table EXCEPT ![o] = [table[o] EXCEPT ![list] = bytes]]
          /\ UNCHANGED <<seat, drained, signers, saved>>
    BY <1>2 DEF AddEntry, RemoveEntry, Exists
  <2>2. /\ table[o] \in TableData
        /\ Len(table[o].servers) <= FieldSize
        /\ Len(table[o].channels) <= FieldSize
    BY <2>1 DEF TypeInv, Typed, Accounts
  <2>3. table[o][list] \in Seq(Bytes) /\ Len(table[o][list]) <= FieldSize
    BY <2>2 DEF TableData
  <2>4. bytes \in Seq(Bytes) /\ Len(bytes) <= FieldSize
    BY <2>1, <2>3, ListBytes
  <2> DEFINE data == [table[o] EXCEPT ![list] = bytes]
  <2>5. /\ data \in TableData
        /\ Len(data.servers) <= FieldSize /\ Len(data.channels) <= FieldSize
    BY <2>2, <2>4 DEF TableData
  <2> HIDE DEF data
  <2> QED BY <2>1, <2>5, TableTypes DEF data
<1> QED BY <1>1, <1>2

(* The instructions on seats.                                              *)
LEMMA SeatTypes ==
  ASSUME TypeInv, NEW o \in Owners, NEW u \in Users,
         \/ \E key \in ChannelKeys : AddSeat(o, u, key)
         \/ RemoveSeat(o, u)
  PROVE  TypeInv'
<1>1. CASE RollBack
  BY <1>1, RollBackTypes
<1>2. ASSUME ~RollBack, NEW key \in ChannelKeys, AddSeat(o, u, key)
      PROVE  TypeInv'
  <2>1. seat' = [seat EXCEPT ![o][u] = key] /\ UNCHANGED <<table, drained, signers, saved>>
    BY <1>2 DEF AddSeat
  <2>2. seat \in [Owners -> [Users -> ChannelKeys \cup {None}]] /\ key # None
    BY TableAssumption DEF TypeInv, Typed, Accounts
  <2>3. /\ seat' \in [Owners -> [Users -> ChannelKeys \cup {None}]]
        /\ \A q \in Owners, v \in Users : seat'[q][v] \in {seat[q][v], key}
    BY <2>1, <2>2
  <2>4. Typed(Accounts)'
    BY <2>1, <2>3 DEF TypeInv, Typed, Accounts
  <2>5. \A q \in Owners, v \in Users : seat[q][v] # None => seat'[q][v] # None
    BY <2>2, <2>3
  <2> QED BY <2>1, <2>4, <2>5, ChangeTypes
<1>3. CASE ~RollBack /\ RemoveSeat(o, u)
  <2>1. /\ drained' = IF seat[o][u] = None THEN drained
                      ELSE drained \cup {SeatAcc(o, u)}
        /\ UNCHANGED <<table, seat, signers, saved>>
    BY <1>3 DEF RemoveSeat
  <2>2. Typed(Accounts)'
    BY <2>1 DEF TypeInv, Typed, Accounts
  <2> QED BY <2>1, <2>2, ChangeTypes
<1> QED BY <1>1, <1>2, <1>3

(* The instructions on tables.                                             *)
LEMMA TableInstructionTypes ==
  ASSUME TypeInv, NEW o \in Owners,
         \/ \E closed \in BOOLEAN : InitTable(o, closed)
         \/ DeleteTable(o)
  PROVE  TypeInv'
<1>1. CASE RollBack
  BY <1>1, RollBackTypes
<1>2. ASSUME ~RollBack, NEW closed \in BOOLEAN, InitTable(o, closed)
      PROVE  TypeInv'
  <2> DEFINE data == [servers |-> <<>>, channels |-> <<>>, closed |-> closed]
  <2>1. /\ table' = [table EXCEPT ![o] = data]
        /\ UNCHANGED <<seat, drained, signers, saved>>
    BY <1>2 DEF InitTable
  <2>2. /\ data \in TableData /\ Len(data.servers) <= FieldSize
        /\ Len(data.channels) <= FieldSize
    BY TableAssumption DEF TableData
  <2> HIDE DEF data
  <2> QED BY <2>1, <2>2, TableTypes
<1>3. CASE ~RollBack /\ DeleteTable(o)
  <2>1. /\ drained' = drained \cup {TableAcc(o)} /\ table[o] # None
        /\ UNCHANGED <<table, seat, signers, saved>>
    BY <1>3 DEF DeleteTable, Exists
  <2>2. Typed(Accounts)'
    BY <2>1 DEF TypeInv, Typed, Accounts
  <2> QED BY <2>1, <2>2, ChangeTypes
<1> QED BY <1>1, <1>2, <1>3

(* Every step keeps the types.                                             *)
LEMMA TypeStep ==
  ASSUME TypeInv, [Next]_vars
  PROVE  TypeInv'
<1>1. ASSUME NEW who \in SUBSET Users, Begin(who) PROVE TypeInv'
  BY <1>1 DEF Begin, TypeInv, Typed, Accounts, DrainsExisting, Exists
<1>2. CASE Commit
  <2>1. /\ table' = [o \in Owners |->
                       IF TableAcc(o) \in drained THEN None ELSE table[o]]
        /\ seat' = [o \in Owners |-> [u \in Users |->
                      IF SeatAcc(o, u) \in drained THEN None ELSE seat[o][u]]]
        /\ saved'.table = table' /\ saved'.seat = seat'
        /\ drained' = {} /\ signers' = {}
    BY <1>2 DEF Commit
  <2>2. /\ table' \in [Owners -> TableData \cup {None}]
        /\ seat' \in [Owners -> [Users -> ChannelKeys \cup {None}]]
        /\ \A o \in Owners : table'[o] # None => table'[o] = table[o] /\ table[o] # None
    BY <2>1 DEF TypeInv, Typed, Accounts
  <2>3. \A o \in Owners : table'[o] # None =>
          /\ Len(table'[o].servers) <= FieldSize
          /\ Len(table'[o].channels) <= FieldSize
    BY <2>2 DEF TypeInv, Typed, Accounts
  <2>4. Typed(Accounts)' /\ Typed(saved)'
    BY <2>1, <2>2, <2>3 DEF Typed, Accounts
  <2> QED BY <2>1, <2>4 DEF TypeInv, DrainsExisting
<1>3. CASE Instruction
  BY <1>3, EntryTypes, SeatTypes, TableInstructionTypes DEF Instruction
<1>4. CASE UNCHANGED vars
  BY <1>4 DEF vars, TypeInv, Typed, Accounts, DrainsExisting, Exists
<1> QED BY <1>1, <1>2, <1>3, <1>4 DEF Next

(* Accounts stay well formed, and no list outgrows its field, whatever     *)
(* names are added and removed (str_buf_add, str_buf_rm); what is drained  *)
(* existed.                                                                *)
THEOREM TypeCorrect == Spec => []TypeOK
<1>1. Init => TypeInv
  BY DEF Init, TypeInv, Typed, Accounts, DrainsExisting
<1>2. TypeInv => TypeOK
  BY DEF TypeInv, Typed, Accounts, DrainsExisting, TypeOK, Exists
<1> QED BY <1>1, <1>2, TypeStep, PTL DEF Spec

-----------------------------------------------------------------------------
(* The tool is one more client of the program: whatever is typed, the      *)
(* accounts see transactions of Table, so what is proved of those holds of *)
(* every use of the tool, next to any other client.                        *)

SentIsCommand == sent \in Command \cup {None}

(* The instruction that is carried out is one the program knows, about an  *)
(* owner's table and with arguments it may be called with.                 *)
LEMMA CarryIsInstruction ==
  ASSUME NEW c \in Command, Carry(c)
  PROVE  Instruction
<1>1. CASE c.op = "createTable"
  <2>1. c.user \in Owners /\ Closes(c.arg) \in BOOLEAN
    BY <1>1 DEF Command, Closes
  <2> QED BY <1>1, <2>1 DEF Carry, Instruction, Adds, Deletes
<1>2. CASE c.op = "deleteTable"
  <2>1. c.user \in Owners
    BY <1>2 DEF Command
  <2> QED BY <1>2, <2>1 DEF Carry, Instruction, Adds, Deletes
<1>3. CASE c.op \in Adds \cup Deletes
  <2>1. c.user \in Owners /\ c.arg \in Names
    BY <1>3 DEF Command, Adds, Deletes
  <2>2. ListOf(c.op) \in {"servers", "channels"}
    BY DEF ListOf
  <2>3. \/ AddEntry(c.user, ListOf(c.op), c.arg)
        \/ RemoveEntry(c.user, ListOf(c.op), c.arg)
    BY <1>3 DEF Carry, Adds, Deletes
  <2> QED BY <2>1, <2>2, <2>3 DEF Instruction
<1>4. CASE c.op \in {"addSeat", "deleteSeat"}
  <2>1. c.owner \in Owners /\ c.user \in Users
    BY <1>4 DEF Command
  <2>2. c.op = "addSeat" => c.arg \in ChannelKeys
    BY DEF Command
  <2> QED BY <1>4, <2>1, <2>2 DEF Carry, Instruction, Adds, Deletes
<1> QED BY <1>1, <1>2, <1>3, <1>4 DEF Command, Adds, Deletes

(* A step of the tool, or of anybody else, is a step of the program.       *)
LEMMA StepIsNext ==
  ASSUME SentIsCommand, [CommandsNext]_commandVars
  PROVE  [Next]_vars /\ SentIsCommand'
<1>1. ASSUME NEW id \in Users, NEW c \in Command, Send(id, c)
      PROVE  Next /\ SentIsCommand'
  <2>1. Begin({id}) /\ sent' = c
    BY <1>1 DEF Send
  <2>2. {id} \in (SUBSET Users) \ {{}}
    OBVIOUS
  <2> QED BY <2>1, <2>2 DEF Next, SentIsCommand
<1>2. CASE Execute
  <2>1. Carry(sent) /\ sent \in Command
    BY <1>2 DEF Execute, SentIsCommand
  <2>2. Instruction
    BY <2>1, CarryIsInstruction
  <2> QED BY <1>2, <2>2 DEF Next, Execute, SentIsCommand
<1>3. CASE Confirm
  BY <1>3 DEF Confirm, Next, SentIsCommand
<1>4. CASE Other
  BY <1>4 DEF Other, SentIsCommand
<1>5. CASE UNCHANGED commandVars
  BY <1>5 DEF commandVars, vars, SentIsCommand
<1> QED BY <1>1, <1>2, <1>3, <1>4, <1>5 DEF CommandsNext

(* The commands implement the program: every behaviour of the tool and the *)
(* other clients is one of Table (contract_api.ts, make*Ix).               *)
THEOREM CommandsAreTransactions == CommandsSpec => Spec
<1>1. CommandsInit => Init /\ SentIsCommand
  BY DEF CommandsInit, SentIsCommand
<1> QED BY <1>1, StepIsNext, PTL DEF CommandsSpec, Spec

-----------------------------------------------------------------------------
(* A confirmed command did as it was told.                                 *)

(* The field lists names, and what is left of names that were cut off.     *)
Listing(d) == \E l : Lists(d, l, Names)

(* The tables, as the open transaction found them, hold lists of names.    *)
Listed ==
  \A o \in Owners, list \in {"servers", "channels"} :
    saved.table[o] # None => Listing(saved.table[o][list])

(* What the instruction of command c on owner o's table has done.          *)
Done(c, o) ==
  LET was == saved.table[o]
      list == ListOf(c.op)
  IN /\ c.op = "createTable" =>
          /\ was = None
          /\ table = [saved.table EXCEPT ![o] =
               [servers |-> <<>>, channels |-> <<>>, closed |-> Closes(c.arg)]]
     /\ c.op # "createTable" => was # None
     /\ c.op \in Adds =>
          /\ ~Mentions(was[list], c.arg)
          /\ table = [saved.table EXCEPT ![o] =
               [was EXCEPT ![list] = StrBufAdd(was[list], c.arg, FieldSize)]]
     /\ c.op \in Deletes =>
          /\ Mentions(was[list], c.arg)
          /\ table = [saved.table EXCEPT ![o] =
               [was EXCEPT ![list] = StrBufRm(was[list], c.arg)]]
     /\ c.op \in {"deleteTable", "addSeat", "deleteSeat"} => table = saved.table
     /\ seat = IF c.op = "addSeat"
               THEN [saved.seat EXCEPT ![o] = [saved.seat[o] EXCEPT ![c.user] = c.arg]]
               ELSE saved.seat
     /\ drained = IF c.op = "deleteTable" THEN {TableAcc(o)}
                  ELSE IF c.op = "deleteSeat" /\ saved.seat[o][c.user] # None
                       THEN {SeatAcc(o, c.user)} ELSE {}

(* Where the command is that was sent.                                     *)
SentInv ==
  IF sent = None THEN ~carried
  ELSE /\ sent \in Command
       /\ IF carried THEN Done(sent, TableOf(sent))
          ELSE table = saved.table /\ seat = saved.seat /\ drained = {}

(* A command is about the table of an owner and the seat of a user.        *)
LEMMA CommandTypes ==
  ASSUME NEW c \in Command
  PROVE  /\ TableOf(c) \in Owners /\ c.user \in Users
         /\ TableOf(c) = IF c.op \in {"addSeat", "deleteSeat"} THEN c.owner ELSE c.user
         /\ c.op \in {"createTable", "deleteTable", "addSeat", "deleteSeat"} \cup Adds \cup Deletes
         /\ c.op \in Adds \cup Deletes => c.arg \in Names
         /\ c.op = "addSeat" => c.arg \in ChannelKeys
         /\ ListOf(c.op) \in {"servers", "channels"}
<1>1. CASE c.op \in {"addSeat", "deleteSeat"}
  BY <1>1, CommandsAssumption DEF Command, TableOf, Adds, Deletes, ListOf
<1>2. CASE c.op \notin {"addSeat", "deleteSeat"}
  <2>1. c.owner = None /\ c.user \in Owners
    BY <1>2 DEF Command
  <2>2. c.op \in {"createTable", "deleteTable", "addBootstrap", "deleteBootstrap",
                  "addChannel", "deleteChannel"}
    BY <1>2 DEF Command
  <2>3. c.op \in Adds \cup Deletes => c.arg \in Names
    BY DEF Command, Adds, Deletes
  <2> QED BY <1>2, <2>1, <2>2, <2>3, TableAssumption DEF TableOf, Adds, Deletes, ListOf
<1> QED BY <1>1, <1>2

(* The instruction does to the accounts what Done says, or is undone.      *)
LEMMA CarryDone ==
  ASSUME TypeInv, NEW c \in Command, Carry(c), signers' # {},
         table = saved.table, seat = saved.seat, drained = {}
  PROVE  Done(c, TableOf(c))'
<1> DEFINE o == TableOf(c)
           list == ListOf(c.op)
<1>1. /\ o \in Owners /\ c.user \in Users
      /\ o = IF c.op \in {"addSeat", "deleteSeat"} THEN c.owner ELSE c.user
      /\ list \in {"servers", "channels"}
  BY CommandTypes
<1>2. ~RollBack
  BY DEF RollBack
<1>3. /\ table \in [Owners -> TableData \cup {None}]
      /\ seat \in [Owners -> [Users -> ChannelKeys \cup {None}]]
  BY DEF TypeInv, Typed, Accounts
<1> HIDE DEF o, list
<1>4. CASE c.op = "createTable"
  <2>1. InitTable(o, Closes(c.arg))
    BY <1>1, <1>4 DEF Carry, Adds, Deletes
  <2>2. /\ table[o] = None
        /\ table' = [table EXCEPT ![o] =
             [servers |-> <<>>, channels |-> <<>>, closed |-> Closes(c.arg)]]
        /\ UNCHANGED <<seat, drained, saved>>
    BY <1>2, <2>1 DEF InitTable, Exists
  <2> QED BY <1>4, <2>2 DEF Done, Adds, Deletes, o
<1>5. CASE c.op = "deleteTable"
  <2>1. DeleteTable(o)
    BY <1>1, <1>5 DEF Carry, Adds, Deletes
  <2>2. /\ table[o] # None /\ drained' = {TableAcc(o)}
        /\ UNCHANGED <<table, seat, saved>>
    BY <1>2, <2>1 DEF DeleteTable, Exists
  <2> QED BY <1>5, <2>2 DEF Done, Adds, Deletes, o
<1>6. CASE c.op \in Adds
  <2>1. AddEntry(o, list, c.arg)
    BY <1>1, <1>6 DEF Carry, Adds, Deletes, list
  <2>2. /\ table[o] # None /\ ~Mentions(table[o][list], c.arg)
        /\ table' = [table EXCEPT ![o] = [table[o] EXCEPT ![list] =
                       StrBufAdd(table[o][list], c.arg, FieldSize)]]
        /\ UNCHANGED <<seat, drained, saved>>
    BY <1>1, <1>2, <1>3, <2>1 DEF AddEntry, Exists
  <2> QED BY <1>6, <2>2 DEF Done, Adds, Deletes, o, list
<1>7. CASE c.op \in Deletes
  <2>1. RemoveEntry(o, list, c.arg)
    BY <1>1, <1>7 DEF Carry, Adds, Deletes, list
  <2>2. /\ table[o] # None /\ Mentions(table[o][list], c.arg)
        /\ table' = [table EXCEPT ![o] = [table[o] EXCEPT ![list] =
                       StrBufRm(table[o][list], c.arg)]]
        /\ UNCHANGED <<seat, drained, saved>>
    BY <1>1, <1>2, <1>3, <2>1 DEF RemoveEntry, Exists
  <2> QED BY <1>7, <2>2 DEF Done, Adds, Deletes, o, list
<1>8. CASE c.op = "addSeat"
  <2>1. AddSeat(o, c.user, c.arg)
    BY <1>1, <1>8 DEF Carry, Adds, Deletes
  <2>2. /\ table[o] # None
        /\ seat' = [seat EXCEPT ![o] = [seat[o] EXCEPT ![c.user] = c.arg]]
        /\ UNCHANGED <<table, drained, saved>>
    BY <1>1, <1>2, <1>3, <2>1 DEF AddSeat, MaySit, Exists
  <2> QED BY <1>8, <2>2 DEF Done, Adds, Deletes, o
<1>9. CASE c.op = "deleteSeat"
  <2>1. RemoveSeat(o, c.user)
    BY <1>1, <1>9 DEF Carry, Adds, Deletes
  <2>2. /\ table[o] # None
        /\ drained' = IF seat[o][c.user] = None THEN {} ELSE {SeatAcc(o, c.user)}
        /\ UNCHANGED <<table, seat, saved>>
    BY <1>2, <2>1 DEF RemoveSeat, MaySit, Exists
  <2> QED BY <1>9, <2>2 DEF Done, Adds, Deletes, o
<1> QED BY <1>4, <1>5, <1>6, <1>7, <1>8, <1>9, CommandTypes

(* Every step of the tool, or of others, keeps track of the command.       *)
LEMMA SentStep ==
  ASSUME TypeInv, SentInv, drained = {} \/ Open, [CommandsNext]_commandVars
  PROVE  SentInv'
<1>1. ASSUME NEW id \in Users, NEW c \in Command, Send(id, c) PROVE SentInv'
  <2>1. /\ sent' = c /\ carried' = FALSE /\ ~Open /\ saved' = Accounts
        /\ UNCHANGED <<table, seat, drained>>
    BY <1>1 DEF Send, Begin
  <2>2. table' = saved'.table /\ seat' = saved'.seat /\ drained' = {}
    BY <2>1 DEF Accounts
  <2> QED BY <2>1, <2>2 DEF SentInv
<1>2. CASE Execute
  <2>1. /\ sent \in Command /\ Carry(sent)
        /\ table = saved.table /\ seat = saved.seat /\ drained = {}
        /\ carried' = (signers' # {})
        /\ sent' = IF carried' THEN sent ELSE None
    BY <1>2 DEF Execute, SentInv
  <2>2. CASE signers' = {}
    BY <2>1, <2>2 DEF SentInv
  <2>3. CASE signers' # {}
    <3>1. PICK c \in Command : c = sent
      BY <2>1
    <3>2. Done(c, TableOf(c))'
      BY <2>1, <2>3, <3>1, CarryDone
    <3>3. sent' = c /\ carried' /\ c # None
      BY <1>2, <2>1, <2>3, <3>1 DEF Execute
    <3> QED BY <3>2, <3>3 DEF SentInv, Done, TableOf
  <2> QED BY <2>2, <2>3
<1>3. CASE Confirm
  BY <1>3 DEF Confirm, SentInv
<1>4. CASE Other
  BY <1>4 DEF Other, SentInv
<1>5. CASE UNCHANGED commandVars
  BY <1>5 DEF commandVars, vars, SentInv, Done
<1> QED BY <1>1, <1>2, <1>3, <1>4, <1>5 DEF CommandsNext

(* Names are over the bytes of a field.                                    *)
LEMMA NamesOverBytes ==
  Names \subseteq Seq(Bytes) /\ Separator \in Bytes /\ FieldSize \in Nat
BY TableAssumption DEF Bytes

(* A table, or what the readers see of it, with one list changed.          *)
With(data, list, bytes) == [data EXCEPT ![list] = bytes]

(* What the readers see of a table with one list changed.                  *)
LEMMA ReadChanged ==
  ASSUME NEW data \in TableData, NEW list \in {"servers", "channels"},
         NEW bytes \in Seq(Bytes)
  PROVE  /\ With(data, list, bytes) # None
         /\ GetTableData(With(data, list, bytes)) =
              With(GetTableData(data), list, Entries(bytes))
         /\ GetTableData(data)[list] = Entries(data[list])
         /\ DOMAIN GetTableData(data) = Fields
<1> DEFINE new == With(data, list, bytes)
<1>1. new \in TableData
  BY DEF TableData, With
<1>2. data # None /\ new # None
  BY <1>1, TableAssumption
<1>3. /\ GetTableData(data) =
           [servers |-> Entries(data.servers), channels |-> Entries(data.channels),
            closed |-> data.closed]
      /\ GetTableData(new) =
           [servers |-> Entries(new.servers), channels |-> Entries(new.channels),
            closed |-> new.closed]
  BY <1>2 DEF GetTableData
<1>4. CASE list = "servers"
  <2>1. new.servers = bytes /\ new.channels = data.channels /\ new.closed = data.closed
    BY <1>4 DEF TableData, With
  <2> HIDE DEF new
  <2>2. GetTableData(new) = With(GetTableData(data), "servers", Entries(bytes))
    BY <1>3, <2>1 DEF With
  <2> QED BY <1>2, <1>3, <1>4, <2>2 DEF new, Fields
<1>5. CASE list = "channels"
  <2>1. new.channels = bytes /\ new.servers = data.servers /\ new.closed = data.closed
    BY <1>5 DEF TableData, With
  <2> HIDE DEF new
  <2>2. GetTableData(new) = With(GetTableData(data), "channels", Entries(bytes))
    BY <1>3, <2>1 DEF With
  <2> QED BY <1>2, <1>3, <1>5, <2>2 DEF new, Fields
<1> QED BY <1>4, <1>5

(* An empty field reads as no names.                                       *)
LEMMA EmptyRead ==
  ASSUME KeptApart(Names)
  PROVE  Entries(<<>>) = <<>>
<1>1. <<>> \in Seq(Bytes) /\ Lists(<<>>, <<>>, Names)
  BY NoLists
<1> QED BY <1>1, NamesOverBytes, ListsRead

(* An add, read back: its name at the end, if it fits.                     *)
LEMMA AddRead ==
  ASSUME KeptApart(Names), NEW was \in TableData,
         NEW list \in {"servers", "channels"}, NEW s \in Names,
         \E l : Lists(was[list], l, Names), ~Mentions(was[list], s),
         Len(was[list]) <= FieldSize
  PROVE  LET new == [was EXCEPT ![list] = StrBufAdd(was[list], s, FieldSize)]
             shown == GetTableData(was)
         IN /\ new # None
            /\ IF Len(was[list]) + 1 + Len(s) <= FieldSize
               THEN GetTableData(new) = [shown EXCEPT ![list] = Append(@, s)]
               ELSE SparesOthers(shown, GetTableData(new), list)
<1> DEFINE d == was[list]
           g == StrBufAdd(d, s, FieldSize)
           new == [was EXCEPT ![list] = g]
           shown == GetTableData(was)
<1>1. d \in Seq(Bytes)
  BY DEF TableData
<1>2. PICK l : Lists(d, l, Names)
  OBVIOUS
<1>3. g \in Seq(Bytes)
  BY <1>1, ListBytes
<1>4. Entries(d) = l
  BY <1>1, <1>2, NamesOverBytes, ListsRead
<1>5. /\ new # None /\ shown[list] = l /\ DOMAIN shown = Fields
      /\ GetTableData(new) = [shown EXCEPT ![list] = Entries(g)]
  <2> HIDE DEF g
  <2>1. /\ With(was, list, g) # None
        /\ GetTableData(With(was, list, g)) = With(shown, list, Entries(g))
        /\ shown[list] = Entries(d) /\ DOMAIN shown = Fields
    BY <1>3, ReadChanged
  <2> QED BY <1>4, <2>1 DEF With
<1> HIDE DEF new, shown
<1>6. CASE Len(d) + 1 + Len(s) <= FieldSize
  <2>1. Lists(g, Append(l, s), Names)
    <3> HIDE DEF d
    <3>1. ~Mentions(d, s)
      BY DEF d
    <3> QED BY <1>1, <1>2, <1>6, <3>1, NamesOverBytes, AddLists
  <2>2. Entries(g) = Append(l, s)
    <3> HIDE DEF g
    <3> QED BY <1>3, <2>1, NamesOverBytes, ListsRead
  <2>3. GetTableData(new) = [shown EXCEPT ![list] = Append(@, s)]
    <3> HIDE DEF g, d
    <3> QED BY <1>5, <2>2
  <2> QED BY <1>5, <1>6, <2>3 DEF new, shown
<1>7. CASE ~(Len(d) + 1 + Len(s) <= FieldSize)
  <2>1. \E n \in 0..Len(Entries(g)) : l = SubSeq(Entries(g), 1, n)
    <3> HIDE DEF d
    <3>1. Len(d) <= FieldSize
      BY DEF d
    <3>2. /\ d \in Seq(Bytes) /\ Lists(d, l, Names)
          /\ Names \subseteq Seq(Bytes) /\ Separator \in Bytes /\ FieldSize \in Nat
      BY <1>1, <1>2, NamesOverBytes
    <3>3. ~Mentions(d, s)
      BY DEF d
    <3>4. Spares(StrBufAdd(d, s, FieldSize), l, Names)
      BY <3>1, <3>2, <3>3, AddSpares
    <3>5. PICK r : Lists(g, r, Names) /\ Opens(l, r)
      BY <3>4 DEF Spares
    <3>6. Entries(g) = r
      <4> HIDE DEF g
      <4> QED BY <1>3, <3>2, <3>5, ListsRead
    <3> HIDE DEF g
    <3> QED BY <3>5, <3>6 DEF Opens
  <2> DEFINE read == GetTableData(new)
  <2>2. /\ list \in DOMAIN shown /\ read = [shown EXCEPT ![list] = Entries(g)]
    BY <1>5 DEF Fields
  <2> HIDE DEF read, g, d
  <2>3. read[list] = Entries(g)
    BY <2>2
  <2>4. [read EXCEPT ![list] = <<>>] = [shown EXCEPT ![list] = <<>>]
    BY <2>2
  <2>5. SparesOthers(shown, read, list)
    BY <1>5, <2>1, <2>3, <2>4 DEF SparesOthers
  <2> QED BY <1>5, <1>7, <2>5 DEF new, shown, read, g, d
<1> QED BY <1>6, <1>7

(* A removal, read back: its name is gone.                                 *)
LEMMA RemoveRead ==
  ASSUME KeptApart(Names), NEW was \in TableData,
         NEW list \in {"servers", "channels"}, NEW s \in Names,
         \E l : Lists(was[list], l, Names), Mentions(was[list], s),
         Len(was[list]) <= FieldSize
  PROVE  LET new == [was EXCEPT ![list] = StrBufRm(was[list], s)]
             shown == GetTableData(was)
         IN new # None /\ GetTableData(new) = [shown EXCEPT ![list] = Less(@, s)]
<1> DEFINE d == was[list]
           g == StrBufRm(d, s)
           new == [was EXCEPT ![list] = g]
           shown == GetTableData(was)
<1>1. d \in Seq(Bytes)
  BY DEF TableData
<1>2. PICK l : Lists(d, l, Names)
  OBVIOUS
<1>3. g \in Seq(Bytes)
  BY <1>1, ListBytes
<1>4. Entries(d) = l
  BY <1>1, <1>2, NamesOverBytes, ListsRead
<1>5. /\ new # None /\ shown[list] = l /\ DOMAIN shown = Fields
      /\ GetTableData(new) = [shown EXCEPT ![list] = Entries(g)]
  <2> HIDE DEF g
  <2>1. /\ With(was, list, g) # None
        /\ GetTableData(With(was, list, g)) = With(shown, list, Entries(g))
        /\ shown[list] = Entries(d) /\ DOMAIN shown = Fields
    BY <1>3, ReadChanged
  <2> QED BY <1>4, <2>1 DEF With
<1>6. PICK e \in 1..Len(l) : l[e] = s /\ Lists(g, Without(l, e), Names)
  <2> HIDE DEF d
  <2>1. Mentions(d, s)
    BY DEF d
  <2> QED BY <1>1, <1>2, <2>1, NamesOverBytes, RemoveLists
<1> HIDE DEF new, shown
<1>7. Entries(g) = Without(l, e)
  <2> HIDE DEF g
  <2> QED BY <1>3, <1>6, NamesOverBytes, ListsRead
<1>8. Less(l, s) = Without(l, e)
  <2> DEFINE i == CHOOSE i \in DOMAIN l : l[i] = s
  <2>1. /\ DOMAIN l = 1..Len(l)
        /\ \A x, y \in 1..Len(l) : l[x] = l[y] /\ l[x] \in Names => x = y
    BY <1>2 DEF Lists
  <2>2. i \in 1..Len(l) /\ l[i] = s
    BY <1>6, <2>1
  <2>3. Less(l, s) = [j \in 1..(Len(l) - 1) |-> l[IF j < i THEN j ELSE j + 1]]
    BY DEF Less
  <2> HIDE DEF i
  <2>4. i = e
    BY <1>6, <2>1, <2>2
  <2> QED BY <2>3, <2>4 DEF Without
<1>9. GetTableData(new) = [shown EXCEPT ![list] = Less(@, s)]
  <2> HIDE DEF g, d
  <2> QED BY <1>5, <1>7, <1>8
<1> QED BY <1>5, <1>9 DEF new, shown

(* What the accounts are once the command is confirmed.                    *)
LEMMA ConfirmAccounts ==
  ASSUME TypeInv, NEW c \in Command, Done(c, TableOf(c)), Commit
  PROVE  /\ table' = [saved.table EXCEPT ![TableOf(c)] = table'[TableOf(c)]]
         /\ table'[TableOf(c)] = IF c.op = "deleteTable" THEN None ELSE table[TableOf(c)]
         /\ seat' = [saved.seat EXCEPT ![TableOf(c)][c.user] =
                       CASE c.op = "addSeat" -> c.arg
                         [] c.op = "deleteSeat" -> None
                         [] OTHER -> @]
<1> DEFINE o == TableOf(c)
           u == c.user
<1>1. /\ o \in Owners /\ u \in Users
      /\ c.op \in {"createTable", "deleteTable", "addSeat", "deleteSeat"} \cup Adds \cup Deletes
      /\ c.op = "addSeat" => c.arg # None
  BY CommandTypes, TableAssumption
<1>2. /\ saved.table \in [Owners -> TableData \cup {None}]
      /\ saved.seat \in [Owners -> [Users -> ChannelKeys \cup {None}]]
      /\ table \in [Owners -> TableData \cup {None}]
      /\ seat \in [Owners -> [Users -> ChannelKeys \cup {None}]]
  BY DEF TypeInv, Typed, Accounts
<1>3. /\ table' = [q \in Owners |-> IF TableAcc(q) \in drained THEN None ELSE table[q]]
      /\ seat' = [q \in Owners |-> [v \in Users |->
                    IF SeatAcc(q, v) \in drained THEN None ELSE seat[q][v]]]
  BY DEF Commit
<1> HIDE DEF o
<1>4. /\ \A q \in Owners \ {o} : table[q] = saved.table[q]
      /\ seat = IF c.op = "addSeat"
                THEN [saved.seat EXCEPT ![o] = [saved.seat[o] EXCEPT ![u] = c.arg]]
                ELSE saved.seat
      /\ drained = IF c.op = "deleteTable" THEN {TableAcc(o)}
                   ELSE IF c.op = "deleteSeat" /\ saved.seat[o][u] # None
                        THEN {SeatAcc(o, u)} ELSE {}
  <2>1. \A q \in Owners \ {o} : table[q] = saved.table[q]
    BY <1>1, <1>2 DEF Done, o
  <2> QED BY <2>1 DEF Done, o
<1>5. \A q \in Owners, v \in Users, p \in Owners :
        /\ TableAcc(q) = TableAcc(p) <=> q = p
        /\ TableAcc(q) # SeatAcc(p, v)
        /\ \A w \in Users : SeatAcc(q, v) = SeatAcc(p, w) <=> q = p /\ v = w
  BY DEF TableAcc, SeatAcc
<1>6. \A q \in Owners :
        TableAcc(q) \in drained <=> c.op = "deleteTable" /\ q = o
  BY <1>1, <1>4, <1>5
<1>7. \A q \in Owners, v \in Users :
        SeatAcc(q, v) \in drained <=>
          c.op = "deleteSeat" /\ saved.seat[o][u] # None /\ q = o /\ v = u
  BY <1>1, <1>4, <1>5
<1>8. table'[o] = IF c.op = "deleteTable" THEN None ELSE table[o]
  BY <1>1, <1>3, <1>6
<1>9. table' = [saved.table EXCEPT ![o] = table'[o]]
  <2>1. \A q \in Owners \ {o} : table'[q] = saved.table[q]
    BY <1>3, <1>4, <1>6
  <2>2. DOMAIN table' = Owners /\ table' = [q \in Owners |-> table'[q]]
    BY <1>3
  <2> DEFINE t == table'
  <2> HIDE DEF t
  <2>3. t = [q \in Owners |-> t[q]] /\ \A q \in Owners \ {o} : t[q] = saved.table[q]
    BY <2>1, <2>2 DEF t
  <2>4. t = [saved.table EXCEPT ![o] = t[o]]
    BY <1>1, <1>2, <2>3
  <2> QED BY <2>4 DEF t
<1>10. seat' = [saved.seat EXCEPT ![o][u] =
                  CASE c.op = "addSeat" -> c.arg
                    [] c.op = "deleteSeat" -> None
                    [] OTHER -> @]
  <2> DEFINE key == CASE c.op = "addSeat" -> c.arg
                      [] c.op = "deleteSeat" -> None
                      [] OTHER -> saved.seat[o][u]
  <2>1. \A q \in Owners, v \in Users :
          (IF SeatAcc(q, v) \in drained THEN None ELSE seat[q][v]) =
             IF q = o /\ v = u THEN key ELSE saved.seat[q][v]
    <3> SUFFICES ASSUME NEW q \in Owners, NEW v \in Users
                 PROVE  (IF SeatAcc(q, v) \in drained THEN None ELSE seat[q][v]) =
                           IF q = o /\ v = u THEN key ELSE saved.seat[q][v]
      OBVIOUS
    <3>1. CASE c.op = "addSeat"
      BY <1>1, <1>2, <1>4, <1>7, <3>1
    <3>2. CASE c.op = "deleteSeat"
      BY <1>1, <1>2, <1>4, <1>7, <3>2
    <3>3. CASE c.op \notin {"addSeat", "deleteSeat"}
      BY <1>1, <1>2, <1>4, <1>7, <3>3
    <3> QED BY <3>1, <3>2, <3>3
  <2> HIDE DEF key
  <2>2. seat' = [q \in Owners |-> [v \in Users |->
                   IF q = o /\ v = u THEN key ELSE saved.seat[q][v]]]
    BY <1>3, <2>1
  <2>3. [saved.seat EXCEPT ![o][u] = key] =
          [q \in Owners |-> [v \in Users |->
             IF q = o /\ v = u THEN key ELSE saved.seat[q][v]]]
    BY <1>1, <1>2
  <2> QED BY <2>2, <2>3 DEF key
<1> QED BY <1>8, <1>9, <1>10 DEF o

(* A confirmed command did as it was told, if the table held lists.        *)
LEMMA ConfirmAsTold ==
  ASSUME KeptApart(Names), TypeInv, Listed, NEW c \in Command,
         Done(c, TableOf(c)), Commit
  PROVE  AsTold(c, TableOf(c))
<1> DEFINE o == TableOf(c)
           was == saved.table[o]
           list == ListOf(c.op)
           read == GetTableData(table'[o])
<1>1. /\ o \in Owners /\ list \in {"servers", "channels"}
      /\ c.op \in {"createTable", "deleteTable", "addSeat", "deleteSeat"} \cup Adds \cup Deletes
      /\ c.op \in Adds \cup Deletes => c.arg \in Names
  BY CommandTypes
<1>2. /\ saved.table \in [Owners -> TableData \cup {None}]
      /\ was # None => /\ was \in TableData
                       /\ Len(was[list]) <= FieldSize
                       /\ \E l : Lists(was[list], l, Names)
  BY <1>1 DEF TypeInv, Typed, Listed, Listing
<1>3. table'[o] = IF c.op = "deleteTable" THEN None ELSE table[o]
  BY ConfirmAccounts
<1>4. IF Room(c, was) THEN read = Told(c, was)
      ELSE SparesOthers(GetTableData(was), read, list)
  <2> HIDE DEF o, list
  <2>1. CASE c.op = "createTable"
    <3> DEFINE new == [servers |-> <<>>, channels |-> <<>>, closed |-> Closes(c.arg)]
    <3>1. table'[o] = new
      BY <1>1, <1>2, <1>3, <2>1 DEF Done, o
    <3>2. new \in TableData
      BY DEF TableData, Closes
    <3>3. new # None
      BY <3>2, TableAssumption
    <3>4. read = [servers |-> Entries(<<>>), channels |-> Entries(<<>>),
                  closed |-> Closes(c.arg)]
      BY <3>1, <3>3 DEF GetTableData
    <3>5. read = [servers |-> <<>>, channels |-> <<>>, closed |-> c.arg # NoFlag]
      BY <3>4, EmptyRead DEF Closes
    <3>6. Room(c, was)
      BY <2>1 DEF Room, Adds
    <3>7. Told(c, was) = [servers |-> <<>>, channels |-> <<>>, closed |-> c.arg # NoFlag]
      <4>1. c.op \notin {"deleteTable"} \cup Adds \cup Deletes
        BY <2>1 DEF Adds, Deletes
      <4> HIDE DEF was
      <4> QED BY <2>1, <4>1 DEF Told
    <3> HIDE DEF read, was
    <3> QED BY <3>5, <3>6, <3>7
  <2>2. CASE c.op = "deleteTable"
    <3>1. read = None
      BY <1>3, <2>2 DEF GetTableData
    <3>2. Room(c, was)
      BY <2>2 DEF Room, Adds
    <3>3. Told(c, was) = None
      <4> HIDE DEF was
      <4>1. c.op \notin {"createTable"} \cup Adds \cup Deletes
        BY <2>2 DEF Adds, Deletes
      <4> QED BY <2>2, <4>1 DEF Told
    <3> HIDE DEF read, was
    <3> QED BY <3>1, <3>2, <3>3
  <2>3. CASE c.op \in Adds
    <3>1. /\ was # None /\ ~Mentions(was[list], c.arg)
          /\ table'[o] = [was EXCEPT ![list] = StrBufAdd(was[list], c.arg, FieldSize)]
      BY <1>1, <1>2, <1>3, <2>3 DEF Done, o, list, Adds
    <3> HIDE DEF was
    <3> DEFINE s == c.arg
               new == [was EXCEPT ![list] = StrBufAdd(was[list], s, FieldSize)]
               shown == GetTableData(was)
    <3>2. s \in Names /\ was \in TableData /\ ~Mentions(was[list], s)
          /\ \E l : Lists(was[list], l, Names) /\ Len(was[list]) <= FieldSize
      BY <1>1, <1>2, <2>3, <3>1
    <3> HIDE DEF s
    <3>3. IF Len(was[list]) + 1 + Len(s) <= FieldSize
          THEN GetTableData(new) = [shown EXCEPT ![list] = Append(@, s)]
          ELSE SparesOthers(shown, GetTableData(new), list)
      BY <1>1, <3>2, AddRead
    <3>4. read = GetTableData(new)
      BY <3>1 DEF s
    <3>5. c.op \notin {"createTable", "deleteTable"} \cup Deletes
      BY <2>3 DEF Adds, Deletes
    <3>6. Told(c, was) = [shown EXCEPT ![list] = Append(@, s)]
      BY <2>3, <3>5 DEF Told, s, list
    <3>7. Room(c, was) <=> Len(was[list]) + 1 + Len(s) <= FieldSize
      BY <2>3 DEF Room, s, list
    <3> HIDE DEF new, read, shown
    <3> QED BY <3>3, <3>4, <3>6, <3>7 DEF shown
  <2>4. CASE c.op \in Deletes
    <3>1. /\ was # None /\ Mentions(was[list], c.arg)
          /\ table'[o] = [was EXCEPT ![list] = StrBufRm(was[list], c.arg)]
      BY <1>1, <1>2, <1>3, <2>4 DEF Done, o, list, Deletes
    <3> HIDE DEF was
    <3> DEFINE s == c.arg
               new == [was EXCEPT ![list] = StrBufRm(was[list], s)]
               shown == GetTableData(was)
    <3>2. s \in Names /\ was \in TableData /\ Mentions(was[list], s)
          /\ \E l : Lists(was[list], l, Names) /\ Len(was[list]) <= FieldSize
      BY <1>1, <1>2, <2>4, <3>1
    <3> HIDE DEF s
    <3>3. GetTableData(new) = [shown EXCEPT ![list] = Less(@, s)]
      BY <1>1, <3>2, RemoveRead
    <3>4. read = GetTableData(new)
      BY <3>1 DEF s
    <3>5. c.op \notin {"createTable", "deleteTable"} \cup Adds
      BY <2>4 DEF Adds, Deletes
    <3>6. Told(c, was) = [shown EXCEPT ![list] = Less(@, s)]
      BY <2>4, <3>5 DEF Told, s, list
    <3>7. Room(c, was)
      BY <3>5 DEF Room
    <3> HIDE DEF new, read, shown
    <3> QED BY <3>3, <3>4, <3>6, <3>7
  <2>5. CASE c.op \in {"addSeat", "deleteSeat"}
    <3>1. table'[o] = was
      BY <1>1, <1>2, <1>3, <2>5 DEF Done, o
    <3> HIDE DEF was
    <3>2. read = GetTableData(was)
      BY <3>1
    <3> HIDE DEF read
    <3> QED BY <2>5, <3>2 DEF Told, Room, Adds, Deletes
  <2> QED BY <1>1, <2>1, <2>2, <2>3, <2>4, <2>5
<1>5. /\ table' = [saved.table EXCEPT ![o] = table'[o]]
      /\ seat' = [saved.seat EXCEPT ![o][c.user] =
                    CASE c.op = "addSeat" -> c.arg
                      [] c.op = "deleteSeat" -> None
                      [] OTHER -> @]
  BY ConfirmAccounts
<1> HIDE DEF o, list
<1> QED BY <1>4, <1>5 DEF AsTold, o, list

-----------------------------------------------------------------------------
(* The fields of every table hold lists.                                   *)

ListsInv ==
  /\ Listed
  /\ \A o \in Owners, list \in {"servers", "channels"} :
       table[o] # None => Listing(table[o][list])

(* Instructions that edit a list leave a list.                             *)
LEMMA EntryLists ==
  ASSUME KeptApart(Names), TypeInv, NEW o \in Owners,
         NEW list \in {"servers", "channels"}, NEW s \in Names,
         AddEntry(o, list, s) \/ RemoveEntry(o, list, s), ~RollBack,
         Listing(table[o][list])
  PROVE  /\ table[o] # None /\ UNCHANGED saved
         /\ \E bytes : /\ Listing(bytes)
                       /\ table' = [table EXCEPT ![o] =
                                      [table[o] EXCEPT ![list] = bytes]]
<1> DEFINE d == table[o][list]
<1>1. /\ table[o] # None /\ UNCHANGED saved
      /\ \/ /\ ~Mentions(d, s)
            /\ table' = [table EXCEPT ![o] =
                 [table[o] EXCEPT ![list] = StrBufAdd(d, s, FieldSize)]]
         \/ /\ Mentions(d, s)
            /\ table' = [table EXCEPT ![o] =
                 [table[o] EXCEPT ![list] = StrBufRm(d, s)]]
  BY DEF AddEntry, RemoveEntry, Exists
<1>2. d \in Seq(Bytes) /\ Len(d) <= FieldSize
  BY <1>1 DEF TypeInv, Typed, Accounts, TableData
<1>3. Listing(d)
  OBVIOUS
<1> HIDE DEF d
<1>4. PICK l : Lists(d, l, Names)
  BY <1>3 DEF Listing
<1>5. ~Mentions(d, s) => Listing(StrBufAdd(d, s, FieldSize))
  <2>1. SUFFICES ASSUME ~Mentions(d, s)
                 PROVE  Listing(StrBufAdd(d, s, FieldSize))
    OBVIOUS
  <2>2. Spares(StrBufAdd(d, s, FieldSize), l, Names)
    BY <1>2, <1>4, <2>1, NamesOverBytes, AddSpares
  <2> QED BY <2>2 DEF Spares, Listing
<1>6. Mentions(d, s) => Listing(StrBufRm(d, s))
  <2>1. SUFFICES ASSUME Mentions(d, s) PROVE Listing(StrBufRm(d, s))
    OBVIOUS
  <2>2. \E e \in 1..Len(l) :
          l[e] = s /\ Lists(StrBufRm(d, s), Without(l, e), Names)
    BY <1>2, <1>4, <2>1, NamesOverBytes, RemoveLists
  <2> QED BY <2>2 DEF Listing
<1> QED BY <1>1, <1>5, <1>6

(* Every step leaves lists in the fields, and in what it may return to.    *)
LEMMA ListsStep ==
  ASSUME KeptApart(Names), TypeInv, ListsInv, [Next]_vars
  PROVE  ListsInv'
<1>1. table \in [Owners -> TableData \cup {None}]
  BY DEF TypeInv, Typed, Accounts
<1>2. CASE RollBack
  BY <1>2 DEF RollBack, ListsInv, Listed, Listing
<1>3. ASSUME NEW who, Begin(who) PROVE ListsInv'
  BY <1>3 DEF Begin, Accounts, ListsInv, Listed, Listing
<1>4. CASE Commit
  <2>1. /\ saved'.table = table'
        /\ \A o \in Owners : table'[o] # None => table'[o] = table[o]
    BY <1>4 DEF Commit
  <2> QED BY <2>1 DEF ListsInv, Listed, Listing
<1>5. ASSUME NEW o \in Owners, NEW closed \in BOOLEAN, InitTable(o, closed), ~RollBack
      PROVE  ListsInv'
  <2>1. /\ UNCHANGED saved
        /\ table' = [table EXCEPT ![o] =
             [servers |-> <<>>, channels |-> <<>>, closed |-> closed]]
    BY <1>5 DEF InitTable
  <2>2. Listing(<<>>)
    BY NoLists DEF Listing
  <2>3. ASSUME NEW q \in Owners, NEW list \in {"servers", "channels"},
               table'[q] # None
        PROVE  Listing(table'[q][list])
    <3>1. CASE q = o
      BY <1>1, <2>1, <2>2, <3>1
    <3>2. CASE q # o
      BY <1>1, <2>1, <2>3, <3>2 DEF ListsInv
    <3> QED BY <3>1, <3>2
  <2> QED BY <2>1, <2>3 DEF ListsInv, Listed, Listing
<1>6. ASSUME NEW o \in Owners, NEW list \in {"servers", "channels"}, NEW s \in Names,
             AddEntry(o, list, s) \/ RemoveEntry(o, list, s), ~RollBack
      PROVE  ListsInv'
  <2>0. table[o] # None
    BY <1>6 DEF AddEntry, RemoveEntry, Exists
  <2>1. Listing(table[o][list])
    BY <2>0 DEF ListsInv
  <2>2. /\ UNCHANGED saved
        /\ \E bytes : /\ Listing(bytes)
                      /\ table' = [table EXCEPT ![o] =
                                     [table[o] EXCEPT ![list] = bytes]]
    BY <1>6, <2>1, EntryLists
  <2>3. PICK bytes : /\ Listing(bytes)
                     /\ table' = [table EXCEPT ![o] =
                                    [table[o] EXCEPT ![list] = bytes]]
    BY <2>2
  <2>4. ASSUME NEW q \in Owners, NEW other \in {"servers", "channels"},
               table'[q] # None
        PROVE  Listing(table'[q][other])
    <3>1. CASE q = o
      <4>1. table'[q] = [table[o] EXCEPT ![list] = bytes] /\ table[o] \in TableData
        BY <1>1, <2>0, <2>3, <3>1
      <4>2. other # list => table'[q][other] = table[o][other]
        BY <4>1 DEF TableData
      <4>3. other = list => table'[q][other] = bytes
        BY <4>1 DEF TableData
      <4> QED BY <2>0, <2>3, <4>2, <4>3 DEF ListsInv
    <3>2. CASE q # o
      BY <1>1, <2>3, <2>4, <3>2 DEF ListsInv
    <3> QED BY <3>1, <3>2
  <2> QED BY <2>2, <2>4 DEF ListsInv, Listed, Listing
<1>7. CASE UNCHANGED <<table, saved>>
  BY <1>7 DEF ListsInv, Listed, Listing
<1>8. CASE Instruction
  <2>1. ASSUME NEW o \in Owners, DeleteTable(o), ~RollBack PROVE UNCHANGED <<table, saved>>
    BY <2>1 DEF DeleteTable
  <2>2. ASSUME NEW o \in Owners, NEW u \in Users, ~RollBack,
               (\E key \in ChannelKeys : AddSeat(o, u, key)) \/ RemoveSeat(o, u)
        PROVE  UNCHANGED <<table, saved>>
    BY <2>2 DEF AddSeat, RemoveSeat
  <2> QED BY <1>2, <1>5, <1>6, <1>7, <1>8, <2>1, <2>2 DEF Instruction
<1>9. CASE UNCHANGED vars
  BY <1>7, <1>9 DEF vars
<1> QED BY <1>3, <1>4, <1>8, <1>9 DEF Next

(* However names are added, cut off and removed, in transactions that      *)
(* commit or fail, a field holds each name once at most and next to the    *)
(* names only what is left of those that were cut off (str_buf_add,        *)
(* str_buf_rm): no removal ever eats into a neighbour.                     *)
THEOREM ListsKept ==
  ASSUME KeptApart(Names)
  PROVE  Spec => []ListsInv
<1>1. Init => TypeInv /\ ListsInv
  <2>1. Init => TypeInv
    BY DEF Init, TypeInv, Typed, Accounts, DrainsExisting
  <2>2. Init => ListsInv
    BY DEF Init, ListsInv, Listed, Accounts
  <2> QED BY <2>1, <2>2
<1>2. TypeInv /\ ListsInv /\ [Next]_vars => (TypeInv /\ ListsInv)'
  BY TypeStep, ListsStep
<1> QED BY <1>1, <1>2, PTL DEF Spec

-----------------------------------------------------------------------------

(* What a command that is confirmed has done is what was typed, whatever   *)
(* the other clients do in between: contract_api.ts, the builders, the     *)
(* transaction and the program's edits of the bytes, and back through      *)
(* getTableData and getSeatData.                                           *)
THEOREM CommandsObeyed ==
  ASSUME KeptApart(Names)
  PROVE  CommandsSpec => CommandsDoAsTold
<1> DEFINE Inv == TableInv /\ TypeInv /\ ListsInv /\ SentIsCommand /\ SentInv
<1>1. CommandsInit => Inv
  <2> SUFFICES ASSUME CommandsInit PROVE Inv
    OBVIOUS
  <2>1. Init /\ sent = None /\ ~carried
    BY DEF CommandsInit
  <2>2. TypeInv /\ ListsInv
    BY <2>1 DEF Init, TypeInv, Typed, Accounts, DrainsExisting, ListsInv, Listed
  <2> QED BY <2>1, <2>2, InitInv DEF SentIsCommand, SentInv
<1>2. ASSUME Inv, [CommandsNext]_commandVars
      PROVE  Inv' /\ (Confirm => AsTold(sent, TableOf(sent)))
  <2>1. [Next]_vars /\ SentIsCommand'
    BY <1>2, StepIsNext
  <2>2. TableInv' /\ TypeInv' /\ ListsInv'
    BY <1>2, <2>1, StepInv, TypeStep, ListsStep
  <2>3. SentInv'
    <3>1. drained = {} \/ Open
      BY <1>2 DEF TableInv, Covered, Open
    <3> QED BY <1>2, <3>1, SentStep
  <2>4. ASSUME Confirm PROVE AsTold(sent, TableOf(sent))
    <3>1. carried /\ Commit
      BY <2>4 DEF Confirm
    <3>2. sent \in Command /\ Done(sent, TableOf(sent))
      BY <1>2, <3>1 DEF SentInv
    <3>3. PICK c \in Command : c = sent
      BY <3>2
    <3>4. Done(c, TableOf(c))
      BY <3>2, <3>3
    <3>5. AsTold(c, TableOf(c))
      BY <1>2, <3>1, <3>4, ConfirmAsTold DEF ListsInv
    <3> QED BY <3>3, <3>5
  <2> QED BY <2>1, <2>2, <2>3, <2>4
<1> QED BY <1>1, <1>2, PTL DEF CommandsSpec, CommandsDoAsTold

=============================================================================
