------------------------------ MODULE MdnsNames ------------------------------
(***************************************************************************)
(* Domain names in mDNS packets: how mdns.c finds the labels of a name,    *)
(* skips it, copies it out, and writes one.  A packet is its sequence of   *)
(* octets, counted from 0 as in the code.  Labels have one letter; sizes   *)
(* of headers and fixed parts are the real ones.                           *)
(***************************************************************************)
EXTENDS Integers, Sequences

MDNS_MAX_SUBSTRINGS == 64
MAX_RECURSION       == 16
MDNS_INVALID_POS    == -1
DOT                 == 46

Octet(b, o)      == b[o + 1]
mdns_ntohs(b, o) == 256 * Octet(b, o) + Octet(b, o + 1)
mdns_htons(v)    == <<v \div 256, v % 256>>

mdns_is_string_ref(v) == v >= 192

(* The first n elements of s, or all of it.                                *)
UpTo(s, n) == SubSeq(s, 1, IF Len(s) < n THEN Len(s) ELSE n)

-----------------------------------------------------------------------------
(* The offset that the reference at o gives.                               *)
Target(b, o) == mdns_ntohs(b, o) % 2^14

(* One pass of the loop over references, given what the later passes make  *)
(* of each offset.                                                         *)
follow_ref(b, size, rest) ==
  [o \in Nat |->
     IF ~mdns_is_string_ref(Octet(b, o)) THEN o
     ELSE IF size < o + 2 \/ Target(b, o) >= size THEN MDNS_INVALID_POS
     ELSE rest[Target(b, o)]]

(* Where the label at offset is, behind its references.                    *)
follow_refs(b, size, offset) ==
  LET F[n \in 0..(MAX_RECURSION + 1)] ==
        IF n = 0 THEN [o \in Nat |-> MDNS_INVALID_POS] ELSE follow_ref(b, size, F[n - 1])
  IN F[MAX_RECURSION + 1][offset]

Label(offset, length, ref) == [offset |-> offset, length |-> length, ref |-> ref]
NoLabel == Label(MDNS_INVALID_POS, 0, FALSE)

(* Faulty: the two high bits of a reference are kept in the offset.        *)
get_next_substring_unmasked(b, size, offset) ==
  IF offset >= size \/ mdns_is_string_ref(Octet(b, offset)) THEN NoLabel
  ELSE IF Octet(b, offset) = 0 THEN Label(offset, 0, FALSE)
  ELSE Label(offset + 1, Octet(b, offset), FALSE)

mdns_get_next_substring(b, size, offset) ==
  IF offset >= size THEN NoLabel
  ELSE IF Octet(b, offset) = 0 THEN Label(offset, 0, FALSE)
  ELSE LET o == follow_refs(b, size, offset) IN
       IF o = MDNS_INVALID_POS \/ size < o + 1 + Octet(b, o) THEN NoLabel
       ELSE Label(o + 1, Octet(b, o), mdns_is_string_ref(Octet(b, offset)))

(* The loops over the labels of a name take MDNS_MAX_SUBSTRINGS + 1        *)
(* passes.  Where the name at cur ends: behind its first reference, or     *)
(* behind the zero that ends its labels.                                   *)
skip_label(b, size, rest) ==
  [cur \in Nat |->
     LET s == mdns_get_next_substring(b, size, cur) IN
     IF s.offset = MDNS_INVALID_POS THEN MDNS_INVALID_POS
     ELSE IF s.ref THEN cur + 2
     ELSE IF s.length = 0 THEN s.offset + 1
     ELSE rest[s.offset + s.length]]

mdns_string_skip(b, size, offset) ==
  LET F[n \in 0..(MDNS_MAX_SUBSTRINGS + 1)] ==
        IF n = 0 THEN [cur \in Nat |-> MDNS_INVALID_POS] ELSE skip_label(b, size, F[n - 1])
  IN F[MDNS_MAX_SUBSTRINGS + 1][offset]

(* The text copied: each label, and a dot behind it while there is room.   *)
(* It stops where the name cannot be followed further; nobody reads the    *)
(* length that would tell.                                                 *)
extract_label(b, size, rest) ==
  [cur \in Nat |->
     LET s == mdns_get_next_substring(b, size, cur) IN
     IF s.offset = MDNS_INVALID_POS \/ s.length = 0 THEN <<>>
     ELSE SubSeq(b, s.offset + 1, s.offset + s.length) \o <<DOT>> \o rest[s.offset + s.length]]

mdns_string_extract(b, size, offset, capacity) ==
  LET F[n \in 0..(MDNS_MAX_SUBSTRINGS + 1)] ==
        IF n = 0 THEN [cur \in Nat |-> <<>>] ELSE extract_label(b, size, F[n - 1])
  IN UpTo(F[MDNS_MAX_SUBSTRINGS + 1][offset], capacity)

-----------------------------------------------------------------------------
(* The position of the first dot of name from offset on.                   *)
mdns_string_find(name, offset) ==
  LET dots == {i \in offset..(Len(name) - 1) : Octet(name, i) = DOT} IN
  IF dots = {} THEN MDNS_INVALID_POS ELSE CHOOSE i \in dots : \A j \in dots : i <= j

(* One pass of the loop over the labels of name, from last_pos on.         *)
make_label(capacity, name, w) ==
  LET pos == mdns_string_find(name, w.last_pos)
      end == IF pos = MDNS_INVALID_POS THEN Len(name) ELSE pos
  IN IF w.last_pos >= Len(name) \/ ~w.room THEN w
     ELSE IF capacity - Len(w.data) <= (end - w.last_pos) + 1 THEN [w EXCEPT !.room = FALSE]
     ELSE [w EXCEPT !.last_pos = end + 1,
                    !.data = @ \o <<end - w.last_pos>> \o SubSeq(name, w.last_pos + 1, end)]

(* The labels of name, behind the octets of data.  The result is empty     *)
(* when the buffer of the given capacity is too small.  Each pass takes a  *)
(* letter at least.                                                        *)
make_labels(data, capacity, name) ==
  LET F[n \in 0..Len(name)] ==
        IF n = 0 THEN [last_pos |-> 0, data |-> data, room |-> TRUE]
        ELSE make_label(capacity, name, F[n - 1])
      w == F[Len(name)]
  IN IF ~w.room \/ capacity = Len(w.data) THEN <<>> ELSE w.data \o <<0>>

without_dot(name) ==
  IF name[Len(name)] = DOT THEN SubSeq(name, 1, Len(name) - 1) ELSE name

(* Faulty: the zero behind the last label is left out.                     *)
string_make_unterminated(data, capacity, name) ==
  LET s == make_labels(data, capacity, without_dot(name)) IN
  IF s = <<>> THEN s ELSE SubSeq(s, 1, Len(s) - 1)

mdns_string_make(data, capacity, name) == make_labels(data, capacity, without_dot(name))

-----------------------------------------------------------------------------
(* The reference: what RFC 1035 says a name looks like.  A name is the     *)
(* sequence of its letters, one for each label.                            *)
Encoded(labels) ==
  [i \in 1..(2 * Len(labels)) |-> IF i % 2 = 1 THEN 1 ELSE labels[i \div 2]] \o <<0>>

(* A reference to the name at offset o.                                    *)
Pointer(o) == mdns_htons(192 * 256 + o)

(* The name as text, with a dot behind each label.                         *)
Text(labels) ==
  [i \in 1..(2 * Len(labels)) |-> IF i % 2 = 0 THEN DOT ELSE labels[(i + 1) \div 2]]
=============================================================================
