---------------------------- MODULE Lookup_proofs ----------------------------
(***************************************************************************)
(* What a linear scan returns, for every set of matching indices.  The     *)
(* proofs about the tables of the bridge and of the SVC rest on it.        *)
(***************************************************************************)
EXTENDS Lookup, FiniteSetTheorems, WellFoundedInduction, TLAPS

(* A scan that matches somewhere returns its first match.  (The smallest   *)
(* element of S is the x of a minimal interval 0..x.)                      *)
LEMMA FirstIndexIn ==
  ASSUME NEW S \in SUBSET Nat, S # {}
  PROVE  FirstIndex(S) \in S /\ \A j \in S : FirstIndex(S) <= j
<1> DEFINE T == {0..x : x \in S}
<1>1. T # {}
  OBVIOUS
<1>2. T \subseteq FiniteSubsetsOf(Nat)
  <2>1. \A x \in S : IsFiniteSet(0..x)
    BY FS_Interval
  <2> QED BY <2>1 DEF FiniteSubsetsOf
<1>3. PICK X \in T : \A Y \in T : ~(<<Y, X>> \in StrictSubsetOrdering(Nat))
  BY <1>1, <1>2, FS_StrictSubsetOrderingWellFounded, WFMin, Zenon
<1>4. PICK m \in S : X = 0..m
  OBVIOUS
<1>5. ASSUME NEW j \in S, j < m PROVE FALSE
  <2>1. 0..j \in T
    OBVIOUS
  <2>2. 0..j \subseteq 0..m /\ 0..j # 0..m
    BY <1>5
  <2>3. <<0..j, 0..m>> \in StrictSubsetOrdering(Nat)
    BY <2>2 DEF StrictSubsetOrdering
  <2> QED BY <1>3, <1>4, <2>1, <2>3
<1>6. \A j \in S : m <= j
  BY <1>5
<1>7. (CHOOSE i \in S : \A j \in S : i <= j) \in S
      /\ \A k \in S : (CHOOSE i \in S : \A j \in S : i <= j) <= k
  BY <1>6
<1> QED BY <1>7 DEF FirstIndex

(* The result of a scan tells whether there was a match.                   *)
LEMMA FirstIndexFound ==
  ASSUME NEW S \in SUBSET Nat
  PROVE  /\ FirstIndex(S) \in S \cup {-1}
         /\ FirstIndex(S) >= 0 => FirstIndex(S) \in S
         /\ FirstIndex(S) < 0 => S = {}
         /\ \A j \in S : FirstIndex(S) <= j
<1>1. CASE S = {}
  BY <1>1 DEF FirstIndex
<1>2. CASE S # {}
  <2>1. FirstIndex(S) \in S /\ \A j \in S : FirstIndex(S) <= j
    BY <1>2, FirstIndexIn
  <2>2. FirstIndex(S) \in Nat
    BY <2>1
  <2> QED BY <2>1, <2>2
<1> QED BY <1>1, <1>2

(* A scan that meets a match at index 0 returns 0.                         *)
LEMMA FirstIndexZero ==
  ASSUME NEW S \in SUBSET Nat, 0 \in S
  PROVE  FirstIndex(S) = 0
<1>1. FirstIndex(S) \in S /\ FirstIndex(S) <= 0
  BY FirstIndexIn
<1>2. FirstIndex(S) \in Nat
  BY <1>1
<1> QED BY <1>1, <1>2

=============================================================================
