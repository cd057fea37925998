---------------------------- MODULE FieldBytes ----------------------------
(***************************************************************************)
(* The two list fields of a table account: what str_buf_add and str_buf_rm *)
(* of src/contract/src/processor.rs write into one, and what getTableData  *)
(* of src/src/Contract.ts reads back from it.                              *)
(*                                                                         *)
(* A field is a fixed array of bytes padded with zeros.  Both sides strip  *)
(* the zeros, so a field is modelled by the bytes before its padding.  A   *)
(* byte is a letter, the separator, or one half of a two-byte character.   *)
(***************************************************************************)
EXTENDS Naturals, Sequences

Separator == ";"
Lead == "c3"   \* the first byte of a character that takes two
Trail == "a9"  \* its second byte

(* String::from_utf8(...).unwrap() panics on half a character.             *)
IsUtf8(d) ==
  \A i \in DOMAIN d :
    /\ d[i] = Lead => i < Len(d) /\ d[i + 1] = Trail
    /\ d[i] = Trail => i > 1 /\ d[i - 1] = Lead

Decodes(field, s) == IsUtf8(field) /\ IsUtf8(s)

(* (slips: all bytes are copied; the loop stops one byte early)            *)
Fitting_AllBytes(d, size) == d

Fitting_OffByOne(d, size) ==
  SubSeq(d, 1, IF Len(d) < size THEN Len(d) ELSE size - 1)

(* The bytes that fit: the copy loop drops what the array has no room for. *)
Fitting(d, size) == SubSeq(d, 1, IF Len(d) < size THEN Len(d) ELSE size)

(* The bytes of p are found in d from place i on.                          *)
Matches(d, p, i) ==
  i + Len(p) <= Len(d) + 1 /\ \A j \in DOMAIN p : d[i + j - 1] = p[j]

(* str_buf_add refuses a name that occurs anywhere in the field, also as a *)
(* part of another name, and str_buf_rm one that does not.                 *)
Mentions(field, s) == \E i \in 1..(Len(field) + 1) : Matches(field, s, i)

StrBufAdd(field, s, size) == Fitting(field \o <<Separator>> \o s, size)

(* str::replace with "": drop the matches of p, left to right.             *)
Dropped(d, p) ==
  LET rest[i \in 1..(Len(d) + Len(p))] ==
        IF i > Len(d) THEN <<>>
        ELSE IF Matches(d, p, i) THEN rest[i + Len(p)]
        ELSE <<d[i]>> \o rest[i + 1]
  IN rest[1]

(* (slip: the separator before the name is left)                           *)
StrBufRm_KeepsSeparator(field, s) == Dropped(field, s)

StrBufRm(field, s) == Dropped(field, <<Separator>> \o s)

(* getTableData: split at the separators, drop the piece before the first. *)
Entries(field) ==
  LET entries[i \in 0..Len(field)] ==
        IF \A j \in 1..i : field[j] # Separator THEN <<>>
        ELSE LET read == entries[i - 1]
             IN IF field[i] = Separator THEN Append(read, <<>>)
                ELSE [read EXCEPT ![Len(read)] = Append(@, field[i])]
  IN entries[Len(field)]

-----------------------------------------------------------------------------
(* What the list fields take for granted of names, and nothing checks: each*)
(* has a byte, none has a separator in it, none is a part of another.      *)
KeptApart(names) ==
  \A s \in names :
    /\ s # <<>>
    /\ \A i \in DOMAIN s : s[i] # Separator
    /\ \A t \in names : Mentions(t, s) => s = t

=============================================================================
