------------------------------- MODULE Facts -------------------------------
(* Facts about naturals and sequences that the proofs of several           *)
(* components need.                                                        *)
EXTENDS SequencesExt, SequenceTheorems, WellFoundedInduction, TLAPS

(* A set of naturals that is not empty has a least element, and Min is it. *)
Less == {p \in Nat \X Nat : p[1] < p[2]}

LEMMA MinExists == ASSUME NEW S, S \subseteq Nat, S # {} PROVE \E x \in S : \A y \in S : x =< y
<1>1. IsWellFoundedOn(Less, Nat)
  BY NatLessThanWellFounded DEF OpToRel, Less
<1>2. PICK x \in S : \A y \in S : ~ (<<y, x>> \in Less)
  BY <1>1, WFMin
<1>3. ASSUME NEW y \in S PROVE x =< y
  <2>1. x \in Nat /\ y \in Nat
    OBVIOUS
  <2>2. y < x => <<y, x>> \in Less
    BY <2>1 DEF Less
  <2> QED BY <1>2, <2>1, <2>2
<1> QED BY <1>3

LEMMA MinOf ==
  ASSUME NEW S, S \subseteq Nat, NEW x \in S, \A y \in S : x =< y
  PROVE Min(S) = x
<1>1. \E z \in S : \A y \in S : z =< y
  OBVIOUS
<1>2. Min(S) \in S /\ \A y \in S : Min(S) =< y
  BY <1>1, Zenon DEF Min
<1>3. Min(S) =< x /\ x =< Min(S)
  BY <1>2
<1>4. Min(S) \in Nat /\ x \in Nat BY <1>2
<1> QED BY <1>3, <1>4

(* Up to n, it has a greatest element, and Max is it.                      *)
LEMMA MaxExists ==
    ASSUME NEW n \in Nat, NEW S, S \subseteq 0 .. n, S # {}
    PROVE  Max(S) \in S /\ \A y \in S : Max(S) >= y
<1> DEFINE T == {n - y : y \in S}
<1>1. T \subseteq Nat /\ T # {}
  <2>1. \A y \in S : n - y \in Nat
    OBVIOUS
  <2> QED BY <2>1
<1>2. PICK z \in T : \A y \in T : z =< y
  <2> HIDE DEF T
  <2> QED BY <1>1, MinExists
<1>3. PICK x \in S : z = n - x
  BY <1>2
<1>4. ASSUME NEW y \in S PROVE x >= y
  <2>1. n - y \in T
    OBVIOUS
  <2>2. n - x =< n - y
    BY <1>2, <1>3, <2>1
  <2>3. x \in 0 .. n /\ y \in 0 .. n
    OBVIOUS
  <2> QED BY <2>2, <2>3
<1>5. \E w \in S : \A y \in S : w >= y
  BY <1>4
<1> QED BY <1>5, Zenon DEF Max

(* Induction up to n, for a property given by the set that has it.         *)
LEMMA UpTo ==
    ASSUME NEW n \in Nat, NEW S, 0 \in S, \A k \in 0 .. n - 1 : k \in S => k + 1 \in S
    PROVE  0 .. n \subseteq S
<1> DEFINE bad == (0 .. n) \ S
<1>1. SUFFICES ASSUME bad # {} PROVE FALSE
  OBVIOUS
<1>2. PICK x \in bad : \A y \in bad : x =< y
  <2>1. bad \subseteq Nat OBVIOUS
  <2> HIDE DEF bad
  <2> QED BY <1>1, <2>1, MinExists
<1>3. x \in Nat \ {0} /\ x - 1 \in 0 .. n - 1 /\ (x - 1) + 1 = x
  OBVIOUS
<1>4. x - 1 \notin bad
  BY <1>2, <1>3
<1>5. x - 1 \in S
  BY <1>3, <1>4
<1> QED BY <1>3, <1>5

(* The greatest of the first naturals.                                     *)
LEMMA MaxUpTo == ASSUME NEW k \in Nat \ {0} PROVE Max(1 .. k) = k
<1>1. 1 .. k \subseteq 0 .. k /\ 1 .. k # {} /\ k \in 1 .. k
  OBVIOUS
<1>2. Max(1 .. k) \in 1 .. k /\ Max(1 .. k) >= k
  BY <1>1, MaxExists
<1> QED BY <1>2

(* The function by which MapThenFoldSet folds a sequence exists: it takes  *)
(* the greatest index away, and then the greatest of the others.           *)
FoldsUp(g, n, base, step) ==
    g = [s \in SUBSET (1 .. n) |-> IF s = {} THEN base ELSE step[<<g[s \ {Max(s)}], Max(s)>>]]
LEMMA FoldSteps ==
    ASSUME NEW n \in Nat, NEW V, NEW base \in V, NEW step \in [V \X (1 .. n) -> V]
    PROVE  \E g \in [SUBSET (1 .. n) -> V] : FoldsUp(g, n, base, step)
<1> DEFINE body(g, k) == [s \in SUBSET (1 .. k) |->
                             IF s = {} THEN base ELSE step[<<g[s \ {Max(s)}], Max(s)>>]]
           P == {k \in 0 .. n : \E g \in [SUBSET (1 .. k) -> V] : g = body(g, k)}
<1>1. 0 \in P
  <2> DEFINE g == [s \in SUBSET (1 .. 0) |-> base]
  <2>1. SUBSET (1 .. 0) = {{}}
    OBVIOUS
  <2>2. g = body(g, 0) /\ g \in [SUBSET (1 .. 0) -> V]
    BY <2>1
  <2> QED BY <2>2
<1>2. ASSUME NEW k \in 0 .. n - 1, k \in P PROVE k + 1 \in P
  <2>1. PICK g \in [SUBSET (1 .. k) -> V] : g = body(g, k)
    BY <1>2
  <2> DEFINE d == [s \in SUBSET (1 .. k + 1) |->
                      IF k + 1 \in s THEN step[<<g[s \ {k + 1}], k + 1>>] ELSE g[s]]
  <2>2. ASSUME NEW s \in SUBSET (1 .. k + 1)
        PROVE  d[s] \in V /\ d[s] = IF s = {} THEN base ELSE step[<<d[s \ {Max(s)}], Max(s)>>]
    <3>1. CASE k + 1 \in s
      <4>1. Max(s) = k + 1
        <5>1. s \subseteq 0 .. k + 1 /\ s # {} /\ k + 1 \in Nat
          BY <3>1
        <5>2. Max(s) \in s /\ Max(s) >= k + 1
          BY <3>1, <5>1, MaxExists
        <5>3. Max(s) \in 1 .. k + 1
          BY <5>2
        <5> HIDE DEF d
        <5> QED BY <5>2, <5>3
      <4>2. /\ s \ {k + 1} \in SUBSET (1 .. k) /\ s \ {k + 1} \in SUBSET (1 .. k + 1)
            /\ k + 1 \notin s \ {k + 1} /\ k + 1 \in 1 .. n
        OBVIOUS
      <4>3. d[s \ {k + 1}] = g[s \ {k + 1}] /\ g[s \ {k + 1}] \in V
        BY <4>2
      <4>4. step[<<g[s \ {k + 1}], k + 1>>] \in V
        BY <4>2, <4>3
      <4> QED BY <3>1, <4>1, <4>3, <4>4
    <3>2. CASE k + 1 \notin s
      <4>1. s \in SUBSET (1 .. k) /\ d[s] = g[s] /\ g[s] \in V
        BY <3>2
      <4>2. g[s] = IF s = {} THEN base ELSE step[<<g[s \ {Max(s)}], Max(s)>>]
        BY <2>1, <4>1
      <4>3. s \ {Max(s)} \in SUBSET (1 .. k + 1) /\ k + 1 \notin s \ {Max(s)}
        BY <3>2
      <4>4. d[s \ {Max(s)}] = g[s \ {Max(s)}]
        BY <4>3
      <4> QED BY <4>1, <4>2, <4>4
    <3> QED BY <3>1, <3>2
  <2> HIDE DEF d
  <2>3. d = [s \in SUBSET (1 .. k + 1) |-> d[s]]
    BY DEF d
  <2>4. d = body(d, k + 1) /\ d \in [SUBSET (1 .. k + 1) -> V]
    BY <2>2, <2>3
  <2>5. k + 1 \in 0 .. n
    OBVIOUS
  <2> QED BY <2>4, <2>5
<1> HIDE DEF P
<1>3. n \in P
  <2>1. 0 .. n \subseteq P
    BY <1>1, <1>2, UpTo
  <2> QED BY <2>1
<1> QED BY <1>3 DEF P, FoldsUp

-----------------------------------------------------------------------------
(* Sequences.                                                              *)

(* Concatenation is associative.                                           *)
Regroups(x, y, z) == (x \o y) \o z = x \o (y \o z)
LEMMA Regroup ==
    ASSUME NEW S, NEW x \in Seq(S), NEW y \in Seq(S), NEW z \in Seq(S)
    PROVE  Regroups(x, y, z)
  BY ConcatAssociative DEF Regroups

(* FlattenSeq, as its definition computes it: f[i] is the first i parts.   *)
LEMMA Flatten ==
    ASSUME NEW S, NEW s \in Seq(Seq(S)), s # <<>>,
           NEW f \in [0 .. Len(s) -> Seq(S)], f[0] = <<>>,
           \A i \in 1 .. Len(s) : f[i] = f[i - 1] \o s[i]
    PROVE  FlattenSeq(s) = f[Len(s)]
<1> DEFINE n == Len(s)
           body(g) == [i \in 1 .. n |-> IF i = 1 THEN s[i] ELSE g[i - 1] \o s[i]]
           F == CHOOSE g : g = body(g)
           h == [i \in 1 .. n |-> f[i]]
<1>1. n \in Nat \ {0} /\ 1 \in 1 .. n /\ 0 \in 0 .. n /\ 1 - 1 = 0
  OBVIOUS
<1>2. ASSUME NEW i \in 1 .. n
      PROVE  /\ s[i] \in Seq(S) /\ f[i] = f[i - 1] \o s[i]
             /\ i # 1 => i - 1 \in 1 .. n
             /\ i = 1 => f[i] = s[i]
  <2>1. s[i] \in Seq(S) /\ f[i] = f[i - 1] \o s[i]
    BY ElementOfSeq
  <2>2. i = 1 => f[i] = <<>> \o s[i]
    BY <1>1, <2>1
  <2>3. i # 1 => i - 1 \in 1 .. n
    BY <1>1
  <2> QED BY <2>1, <2>2, <2>3, ConcatEmptySeq
<1>3. h = body(h)
  <2>1. ASSUME NEW i \in 1 .. n PROVE f[i] = IF i = 1 THEN s[i] ELSE h[i - 1] \o s[i]
    BY <1>2
  <2> QED BY <2>1
<1>4. F = body(F)
  BY <1>3
<1> HIDE DEF F, n
<1>5. \A i \in 1 .. n : F[i] = IF i = 1 THEN s[i] ELSE F[i - 1] \o s[i]
  BY <1>4
<1>6. 0 .. n \subseteq {k \in 0 .. n : k = 0 \/ F[k] = f[k]}
  <2> DEFINE P == {k \in 0 .. n : k = 0 \/ F[k] = f[k]}
  <2>1. 0 \in P
    BY <1>1
  <2>2. ASSUME NEW k \in 0 .. n - 1, k \in P PROVE k + 1 \in P
    <3>1. k + 1 \in 1 .. n /\ (k + 1) - 1 = k /\ k + 1 \in 0 .. n
      BY <1>1
    <3>2. f[k + 1] = f[k] \o s[k + 1] /\ (k = 0 => f[k + 1] = s[k + 1])
      <4>1. k = 0 => k + 1 = 1 OBVIOUS
      <4> QED BY <1>2, <3>1, <4>1
    <3>3. F[k + 1] = IF k = 0 THEN s[k + 1] ELSE F[k] \o s[k + 1]
      <4>1. k = 0 <=> k + 1 = 1 OBVIOUS
      <4> QED BY <1>5, <3>1, <4>1
    <3>4. F[k + 1] = f[k + 1]
      BY <2>2, <3>2, <3>3
    <3> QED BY <3>1, <3>4
  <2> HIDE DEF P
  <2>3. n \in Nat BY <1>1
  <2>4. 0 .. n \subseteq P
    BY <2>1, <2>2, <2>3, UpTo
  <2> QED BY <2>4 DEF P
<1>7. F[n] = f[n]
  BY <1>1, <1>6
<1>8. FlattenSeq(s) = F[n]
  BY <1>1, Zenon DEF FlattenSeq, F, n
<1> QED BY <1>7, <1>8 DEF n

(* The concatenations of the first parts exist.                            *)
PutTogether(f, n, s) == f[0] = <<>> /\ \A i \in 1 .. n : f[i] = f[i - 1] \o s[i]
LEMMA PartsConcat ==
    ASSUME NEW S, NEW n \in Nat, NEW s \in [1 .. n -> Seq(S)]
    PROVE  \E f \in [0 .. n -> Seq(S)] : PutTogether(f, n, s)
<1> DEFINE P == {k \in 0 .. n : \E f \in [0 .. k -> Seq(S)] :
                    f[0] = <<>> /\ \A i \in 1 .. k : f[i] = f[i - 1] \o s[i]}
<1>1. 0 \in P
  <2> DEFINE f == [i \in 0 .. 0 |-> <<>>]
  <2>1. f \in [0 .. 0 -> Seq(S)] /\ f[0] = <<>> /\ \A i \in 1 .. 0 : f[i] = f[i - 1] \o s[i]
    BY EmptySeq
  <2>2. 0 \in 0 .. n
    OBVIOUS
  <2> HIDE DEF f
  <2> QED BY <2>1, <2>2
<1>2. ASSUME NEW k \in 0 .. n - 1, k \in P PROVE k + 1 \in P
  <2>1. PICK f \in [0 .. k -> Seq(S)] : f[0] = <<>> /\ \A i \in 1 .. k : f[i] = f[i - 1] \o s[i]
    BY <1>2
  <2>2. k + 1 \in 1 .. n /\ k + 1 \in 0 .. n
    OBVIOUS
  <2>3. f[k] \o s[k + 1] \in Seq(S)
    <3>1. f[k] \in Seq(S) /\ s[k + 1] \in Seq(S)
      BY <2>2
    <3> QED BY <3>1, ConcatProperties
  <2> DEFINE g == [i \in 0 .. k + 1 |-> IF i = k + 1 THEN f[k] \o s[k + 1] ELSE f[i]]
  <2>4. g \in [0 .. k + 1 -> Seq(S)] /\ g[0] = <<>>
    <3>1. ASSUME NEW i \in 0 .. k + 1 PROVE g[i] \in Seq(S)
      <4>1. i # k + 1 => i \in 0 .. k
        OBVIOUS
      <4> QED BY <2>3, <4>1
    <3>2. g[0] = f[0]
      OBVIOUS
    <3> QED BY <2>1, <3>1, <3>2
  <2>5. ASSUME NEW i \in 1 .. k + 1 PROVE g[i] = g[i - 1] \o s[i]
    <3>1. CASE i = k + 1
      <4>1. g[k + 1] = f[k] \o s[k + 1] /\ g[(k + 1) - 1] = f[k]
        OBVIOUS
      <4> QED BY <3>1, <4>1
    <3>2. CASE i # k + 1
      <4>1. i \in 1 .. k /\ g[i] = f[i] /\ g[i - 1] = f[i - 1]
        BY <3>2
      <4> QED BY <2>1, <4>1
    <3> QED BY <3>1, <3>2
  <2> HIDE DEF g
  <2> QED BY <2>2, <2>4, <2>5
<1> HIDE DEF P
<1>3. n \in P
  <2>1. 0 .. n \subseteq P
    BY <1>1, <1>2, UpTo
  <2> QED BY <2>1
<1> QED BY <1>3 DEF P, PutTogether

(* What is left of a sequence is a sequence.                               *)
LEMMA RemoveAtType ==
    ASSUME NEW S, NEW s \in Seq(S), NEW i \in 1 .. Len(s)
    PROVE  s[i] \in S /\ RemoveAt(s, i) \in Seq(S)
<1>1. i \in Nat /\ Len(s) \in Nat
  OBVIOUS
<1>2. SubSeq(s, 1, i - 1) \in Seq(S) /\ SubSeq(s, i + 1, Len(s)) \in Seq(S)
  BY <1>1
<1> QED BY <1>2, ElementOfSeq, ConcatProperties DEF RemoveAt

(* Without its first element, a sequence is its tail.                      *)
LEMMA RemoveFirstAt ==
    ASSUME NEW S, NEW s \in Seq(S), s # <<>>
    PROVE  RemoveAt(s, 1) = Tail(s)
<1>1. SubSeq(s, 1, 0) = <<>> /\ SubSeq(s, 2, Len(s)) = Tail(s) /\ Tail(s) \in Seq(S)
  BY SubSeqEmpty, TailIsSubSeq
<1> QED BY <1>1, ConcatEmptySeq DEF RemoveAt

=============================================================================
