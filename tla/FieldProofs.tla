---------------------------- MODULE FieldProofs ----------------------------
(***************************************************************************)
(* A list field implements NameList, for every set of names that keep      *)
(* apart in it and every size, as long as no name is cut off: writers and  *)
(* readers agree on the list, however long it gets and whatever the order  *)
(* of the instructions.                                                    *)
(***************************************************************************)
EXTENDS TableField, FieldLemmas

(* The bytes of names and the separator.                                   *)
Octets == STRING \cup {Separator}

(* The field holds some list of different names.                           *)
FieldInv == field \in Seq(Octets) /\ \E l : Lists(field, l, Names)

(* Names are bytes.                                                        *)
LEMMA NamesAreBytes == Names \subseteq Seq(Octets) /\ Separator \in Octets
<1>1. ASSUME NEW s \in Names PROVE s \in Seq(Octets)
  <2>1. s \in Seq(STRING) /\ STRING \subseteq Octets
    BY FieldAssumption DEF Octets
  <2> QED BY <2>1, SeqMonotonic
<1> QED BY <1>1 DEF Octets

(* The list that readers see is the one the field holds.                   *)
LEMMA ReadersSee ==
  ASSUME KeptApart(Names), NEW d \in Seq(Octets), NEW l, Lists(d, l, Names)
  PROVE  Entries(d) = l
BY NamesAreBytes, ListsRead

(* An add that is not cut off adds its name to the list.                   *)
LEMMA AddImplements ==
  ASSUME KeptApart(Names), FieldInv, NEW s \in Names, Add(s),
         Len(field) + 1 + Len(s) <= FieldSize
  PROVE  FieldInv' /\ Listing!Add(s)
<1>1. PICK l : Lists(field, l, Names)
  BY DEF FieldInv
<1>2. FieldSize \in Nat
  BY FieldAssumption
<1>3. field \in Seq(Octets) /\ ~Mentions(field, s)
      /\ field' = StrBufAdd(field, s, FieldSize)
  BY DEF FieldInv, Add
<1>4. /\ StrBufAdd(field, s, FieldSize) \in Seq(Octets)
      /\ Lists(StrBufAdd(field, s, FieldSize), Append(l, s), Names)
      /\ \A i \in 1..Len(l) : l[i] # s
  BY <1>1, <1>2, <1>3, NamesAreBytes, AddLists
<1>5. field' \in Seq(Octets) /\ Lists(field', Append(l, s), Names)
  BY <1>3, <1>4
<1>6. Entries(field) = l /\ Entries(field') = Append(l, s)
  BY <1>1, <1>3, <1>5, ReadersSee
<1>7. DOMAIN l = 1..Len(l)
  BY <1>1 DEF Lists
<1>8. ~Listing!Holds(s)
  BY <1>4, <1>6, <1>7 DEF Listing!Holds
<1> QED BY <1>5, <1>6, <1>8 DEF FieldInv, Listing!Add

(* A removal takes its name out of the list, and no other.                 *)
LEMMA RemoveImplements ==
  ASSUME KeptApart(Names), FieldInv, NEW s \in Names, Remove(s)
  PROVE  FieldInv' /\ Listing!Remove(s)
<1>1. PICK l : Lists(field, l, Names)
  BY DEF FieldInv
<1>2. field \in Seq(Octets) /\ Mentions(field, s) /\ field' = StrBufRm(field, s)
  BY DEF FieldInv, Remove
<1>3. /\ StrBufRm(field, s) \in Seq(Octets)
      /\ \E e \in 1..Len(l) :
           l[e] = s /\ Lists(StrBufRm(field, s), Without(l, e), Names)
  BY <1>1, <1>2, NamesAreBytes, RemoveLists
<1>4. PICK e \in 1..Len(l) : l[e] = s /\ Lists(field', Without(l, e), Names)
  BY <1>2, <1>3
<1>5. field' \in Seq(Octets)
  BY <1>2, <1>3
<1>6. Entries(field) = l /\ Entries(field') = Without(l, e)
  BY <1>1, <1>2, <1>4, <1>5, ReadersSee
<1>7. DOMAIN l = 1..Len(l)
  BY <1>1 DEF Lists
<1>8. Listing!Remove(s)
  BY <1>4, <1>6, <1>7 DEF Listing!Remove, Without
<1> QED BY <1>4, <1>5, <1>8 DEF FieldInv

(* A list field is a list: each add that fits appends its name, each       *)
(* removal takes away exactly its name, and getTableData reads back what   *)
(* str_buf_add and str_buf_rm meant, if the names keep apart.  What        *)
(* happens to names that do not, or are cut off, the code leaves open.     *)
THEOREM ListingImplemented ==
  ASSUME KeptApart(Names)
  PROVE  Spec /\ AlwaysRoom => ImplementsNameList
<1>1. Init => FieldInv /\ Listing!Init
  <2> SUFFICES ASSUME Init PROVE FieldInv /\ Listing!Init
    OBVIOUS
  <2>1. field = <<>> /\ field \in Seq(Octets) /\ Lists(<<>>, <<>>, Names)
    BY NoLists DEF Init
  <2>2. Entries(field) = <<>>
    BY <2>1, ReadersSee
  <2> QED BY <2>1, <2>2 DEF FieldInv, Listing!Init
<1>2. ASSUME FieldInv, [Next]_field,
             [\A s \in Names : Add(s) => Len(field) + 1 + Len(s) <= FieldSize]_field
      PROVE  FieldInv' /\ [Listing!Next]_(Entries(field))
  <2>1. CASE UNCHANGED field
    BY <1>2, <2>1 DEF FieldInv
  <2>2. ASSUME field' # field, NEW s \in Names, Add(s)
        PROVE  FieldInv' /\ Listing!Next
    BY <1>2, <2>2, AddImplements DEF Listing!Next
  <2>3. ASSUME NEW s \in Names, Remove(s)
        PROVE  FieldInv' /\ Listing!Next
    BY <1>2, <2>3, RemoveImplements DEF Listing!Next
  <2> QED BY <1>2, <2>1, <2>2, <2>3 DEF Next
<1> QED BY <1>1, <1>2, PTL DEF Spec, AlwaysRoom, ImplementsNameList, Listing!Spec

=============================================================================
