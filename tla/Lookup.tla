------------------------------- MODULE Lookup -------------------------------
(***************************************************************************)
(* The linear scan that every table of the firmware is searched with: walk *)
(* the array from index 0 and return the first index that matches, or a    *)
(* negative number when none does.                                         *)
(***************************************************************************)
EXTENDS Integers

(* The result of a scan whose matching indices are S.                      *)
FirstIndex(S) ==
  IF S = {} THEN -1 ELSE CHOOSE i \in S : \A j \in S : i <= j

=============================================================================
