----------------------------- MODULE EditProofs -----------------------------
(* Proofs about the operators of ContentEdit, for any headers and edits.   *)
EXTENDS ContentEdit, Facts, FiniteSetTheorems

-----------------------------------------------------------------------------
(* What one rename leaves: the new name instead of the old one, with the   *)
(* first value (HeaderMap::remove, manifest.rs:168), and all other headers.*)
LEMMA RenameDomain ==
    ASSUME NEW g, NEW m, NEW k, m \in DOMAIN g
    PROVE  DOMAIN Rename(g, m, k) = (DOMAIN g \ {m}) \cup {k}
  BY DEF Rename, Insert, Without, Restrict

LEMMA RenameTarget ==
    ASSUME NEW g, NEW m, NEW k, m \in DOMAIN g
    PROVE  Rename(g, m, k)[k] = <<Head(g[m])>>
  BY DEF Rename, Insert, Without, Restrict

LEMMA RenameOther ==
    ASSUME NEW g, NEW m, NEW k, NEW n \in DOMAIN g \ {m, k}, m \in DOMAIN g
    PROVE  Rename(g, m, k)[n] = g[n]
  BY DEF Rename, Insert, Without, Restrict

LEMMA RenameIsFunction ==
    ASSUME NEW g, NEW m, NEW k, m \in DOMAIN g
    PROVE  Rename(g, m, k) = [n \in DOMAIN Rename(g, m, k) |-> Rename(g, m, k)[n]]
  BY DEF Rename, Insert, Without, Restrict

(* A header that is not there is not renamed.                              *)
LEMMA RenameAbsent ==
    ASSUME NEW g, NEW m, NEW k, m \notin DOMAIN g
    PROVE  Rename(g, m, k) = g
  BY DEF Rename

(* Two renames that share no header may be done in either order: what the  *)
(* iteration over the HashMap rests on (manifest.rs:167 and 209).          *)
THEOREM RenamesCommute ==
    ASSUME NEW h, NEW a, NEW b, NEW p, NEW q, a # p, a # q, b # p, b # q
    PROVE  Rename(Rename(h, a, b), p, q) = Rename(Rename(h, p, q), a, b)
<1> DEFINE ab == Rename(h, a, b)
           pq == Rename(h, p, q)
           abpq == Rename(ab, p, q)
           pqab == Rename(pq, a, b)
<1>1. CASE a \in DOMAIN h /\ p \in DOMAIN h
  <2>1. DOMAIN ab = (DOMAIN h \ {a}) \cup {b}
    BY <1>1, RenameDomain
  <2>2. DOMAIN pq = (DOMAIN h \ {p}) \cup {q}
    BY <1>1, RenameDomain
  <2>3. p \in DOMAIN ab /\ a \in DOMAIN pq
    BY <1>1, <2>1, <2>2
  <2>4. DOMAIN abpq = (DOMAIN ab \ {p}) \cup {q}
    BY <2>3, RenameDomain
  <2>5. DOMAIN pqab = (DOMAIN pq \ {a}) \cup {b}
    BY <2>3, RenameDomain
  <2>6. DOMAIN abpq = DOMAIN pqab
    BY <2>1, <2>2, <2>4, <2>5
  <2>7. ab[b] = <<Head(h[a])>> /\ pq[q] = <<Head(h[p])>>
    BY <1>1, RenameTarget
  <2>8. ab[p] = h[p] /\ pq[a] = h[a]
    BY <1>1, RenameOther
  <2>9. abpq[q] = <<Head(ab[p])>> /\ pqab[b] = <<Head(pq[a])>>
    BY <2>3, RenameTarget
  <2>10. abpq = [n \in DOMAIN abpq |-> abpq[n]] /\ pqab = [n \in DOMAIN pqab |-> pqab[n]]
    BY <2>3, RenameIsFunction
  <2>11. ASSUME NEW n \in DOMAIN abpq PROVE abpq[n] = pqab[n]
    <3>1. CASE n = b
      <4>1. b \in DOMAIN ab \ {p, q}
        BY <2>1
      <4>2. abpq[b] = ab[b]
        BY <4>1, <2>3, RenameOther
      <4> QED BY <3>1, <4>2, <2>7, <2>8, <2>9
    <3>2. CASE n = q
      <4>1. q \in DOMAIN pq \ {a, b}
        BY <2>2
      <4>2. pqab[q] = pq[q]
        BY <4>1, <2>3, RenameOther
      <4> QED BY <3>2, <4>2, <2>7, <2>8, <2>9
    <3>3. CASE n \notin {b, q}
      <4>1. n \in DOMAIN h \ {a, b} /\ n \in DOMAIN h \ {p, q}
        BY <3>3, <2>1, <2>4
      <4>2. n \in DOMAIN ab \ {p, q} /\ n \in DOMAIN pq \ {a, b}
        BY <4>1, <2>1, <2>2
      <4>3. abpq[n] = ab[n] /\ ab[n] = h[n]
        BY <1>1, <2>3, <4>1, <4>2, RenameOther
      <4>4. pqab[n] = pq[n] /\ pq[n] = h[n]
        BY <1>1, <2>3, <4>1, <4>2, RenameOther
      <4> QED BY <4>3, <4>4
    <3> QED BY <3>1, <3>2, <3>3
  <2> HIDE DEF abpq, pqab
  <2>12. abpq = pqab
    BY <2>6, <2>10, <2>11
  <2> QED BY <2>12 DEF abpq, pqab
<1>2. CASE a \notin DOMAIN h
  <2>1. a \notin DOMAIN pq
    BY <1>2 DEF Rename, Insert, Without, Restrict
  <2> QED BY <1>2, <2>1, RenameAbsent
<1>3. CASE p \notin DOMAIN h
  <2>1. p \notin DOMAIN ab
    BY <1>3 DEF Rename, Insert, Without, Restrict
  <2> QED BY <1>3, <2>1, RenameAbsent
<1> QED BY <1>1, <1>2, <1>3

-----------------------------------------------------------------------------
(* The renames are done one after the other, in the order given: f[k] has  *)
(* the headers after the first k of them.                                  *)
RunOfRenames(f, h, e, n, order) ==
    /\ f[0] = Edited(h, e)
    /\ \A k \in 1 .. n : f[k] = Rename(f[k - 1], order[k], e.rename[order[k]])
    /\ EditHeaders(h, e, order) = f[n]
LEMMA RenamesRun ==
    ASSUME NEW h, NEW e, NEW n \in Nat, NEW order, DOMAIN order = 1 .. n
    PROVE  \E f : RunOfRenames(f, h, e, n, order)
<1> DEFINE base == Edited(h, e)
           turn(g, i) == Rename(g, order[i], e.rename[order[i]])
           body(g, k) == [s \in SUBSET (1 .. k) |->
                             IF s = {} THEN base ELSE turn(g[s \ {Max(s)}], Max(s))]
           F == CHOOSE g : g = body(g, n)
<1> HIDE DEF base, turn
<1>1. ASSUME NEW k \in 0 .. n, NEW s \in SUBSET (1 .. k), s # {}
      PROVE  Max(s) \in s /\ \A y \in s : Max(s) >= y
  <2>1. s \subseteq 0 .. n
    OBVIOUS
  <2> HIDE DEF F
  <2> QED BY <1>1, <2>1, MaxExists
<1>2. \A k \in 0 .. n : \E g : g = body(g, k)
  <2> DEFINE P == {k \in 0 .. n : \E g : g = body(g, k)}
  <2>1. 0 \in P
    <3> DEFINE g == [s \in SUBSET (1 .. 0) |-> base]
    <3>1. SUBSET (1 .. 0) = {{}}
      OBVIOUS
    <3>2. g = body(g, 0)
      BY <3>1
    <3> QED BY <3>2
  <2>2. ASSUME NEW k \in 0 .. n - 1, k \in P PROVE k + 1 \in P
    <3>1. PICK g : g = body(g, k)
      BY <2>2
    <3> DEFINE d == [s \in SUBSET (1 .. k + 1) |->
                        IF k + 1 \in s THEN turn(g[s \ {k + 1}], k + 1) ELSE g[s]]
    <3>2. ASSUME NEW s \in SUBSET (1 .. k + 1)
          PROVE  d[s] = IF s = {} THEN base ELSE turn(d[s \ {Max(s)}], Max(s))
      <4>1. CASE k + 1 \in s
        <5>1. Max(s) = k + 1
          <6>1. k + 1 \in 0 .. n /\ s # {}
            BY <4>1
          <6>2. Max(s) \in s /\ Max(s) >= k + 1
            BY <1>1, <4>1, <6>1
          <6>3. Max(s) \in 1 .. k + 1
            BY <6>2
          <6> HIDE DEF d
          <6> QED BY <6>2, <6>3
        <5>2. s \ {k + 1} \in SUBSET (1 .. k) /\ s \ {k + 1} \in SUBSET (1 .. k + 1) /\ k + 1 \notin s \ {k + 1}
          OBVIOUS
        <5>3. d[s \ {k + 1}] = g[s \ {k + 1}]
          BY <5>2
        <5> QED BY <4>1, <5>1, <5>3
      <4>2. CASE k + 1 \notin s
        <5>1. s \in SUBSET (1 .. k) /\ d[s] = g[s]
          BY <4>2
        <5>2. g[s] = IF s = {} THEN base ELSE turn(g[s \ {Max(s)}], Max(s))
          BY <3>1, <5>1
        <5>3. s \ {Max(s)} \in SUBSET (1 .. k + 1) /\ k + 1 \notin s \ {Max(s)}
          BY <4>2
        <5>4. d[s \ {Max(s)}] = g[s \ {Max(s)}]
          BY <5>3
        <5> QED BY <5>1, <5>2, <5>4
      <4> QED BY <4>1, <4>2
    <3> HIDE DEF d
    <3>3. d = [s \in SUBSET (1 .. k + 1) |-> d[s]]
      BY DEF d
    <3>4. d = body(d, k + 1)
      BY <3>2, <3>3
    <3>5. k + 1 \in 0 .. n
      OBVIOUS
    <3> QED BY <3>4, <3>5
  <2> HIDE DEF P
  <2>3. 0 .. n \subseteq P
    BY <2>1, <2>2, UpTo
  <2> QED BY <2>3 DEF P
<1>3. F = body(F, n)
  <2> HIDE DEF body
  <2>1. \E g : g = body(g, n)
    <3>1. n \in 0 .. n
      OBVIOUS
    <3> QED BY <1>2, <3>1, Zenon
  <2> QED BY <2>1, Zenon DEF F
<1> HIDE DEF F
<1>4. F[{}] = base
  BY <1>3
<1>5. ASSUME NEW k \in 1 .. n PROVE F[1 .. k] = turn(F[1 .. k - 1], k)
  <2>1. 1 .. k \in SUBSET (1 .. n) /\ 1 .. k # {} /\ k \in 1 .. k /\ k \in 0 .. n /\ 1 .. k \in SUBSET (1 .. k)
    OBVIOUS
  <2>2. Max(1 .. k) = k
    <3>1. Max(1 .. k) \in 1 .. k /\ Max(1 .. k) >= k
      BY <1>1, <2>1
    <3> QED BY <3>1
  <2>3. (1 .. k) \ {k} = 1 .. k - 1
    OBVIOUS
  <2> QED BY <1>3, <2>1, <2>2, <2>3
<1>6. EditHeaders(h, e, order) = F[1 .. n]
  BY Zenon DEF EditHeaders, FoldLeft, MapThenFoldSet, F, body, turn, base
<1> DEFINE f == [k \in 0 .. n |-> F[1 .. k]]
<1>7. f[0] = base /\ f[n] = F[1 .. n]
  <2>1. 1 .. 0 = {} /\ 0 \in 0 .. n /\ n \in 0 .. n
    OBVIOUS
  <2> QED BY <1>4, <2>1
<1>8. ASSUME NEW k \in 1 .. n PROVE f[k] = turn(f[k - 1], k)
  <2>1. k \in 0 .. n /\ k - 1 \in 0 .. n
    OBVIOUS
  <2> QED BY <1>5, <2>1
<1>9. \A k \in 1 .. n : f[k] = turn(f[k - 1], k)
  BY <1>8
<1> HIDE DEF f
<1>10. RunOfRenames(f, h, e, n, order)
  BY <1>6, <1>7, <1>9 DEF turn, base, RunOfRenames
<1> QED BY <1>10

(* A HashMap gives its keys in some order, each once.                      *)
LEMMA OrderOfKeys ==
    ASSUME NEW S, IsFiniteSet(S), NEW order \in SetToSeqs(S)
    PROVE  /\ Cardinality(S) \in Nat /\ DOMAIN order = 1 .. Cardinality(S)
           /\ \A i \in DOMAIN order : order[i] \in S
           /\ \A i, j \in DOMAIN order : order[i] = order[j] => i = j
           /\ {order[i] : i \in DOMAIN order} = S
<1> DEFINE D == 1 .. Cardinality(S)
<1>1. Cardinality(S) \in Nat
  BY FS_CardinalityType
<1>2. order \in [D -> S] /\ \A i, j \in D : i # j => order[i] # order[j]
  BY DEF SetToSeqs
<1>3. IsFiniteSet(D) /\ Cardinality(D) = Cardinality(S)
  <2>1. 1 \in Int /\ Cardinality(S) \in Int /\ (1 > Cardinality(S) => Cardinality(S) = 0)
        /\ Cardinality(S) - 1 + 1 = Cardinality(S)
    BY <1>1
  <2> QED BY <2>1, FS_Interval
<1>4. order \in Injection(D, S)
  BY <1>2 DEF Injection, IsInjective
<1>5. order \in Surjection(D, S)
  BY <1>3, <1>4, FS_Injection
<1>6. S \subseteq {order[i] : i \in D}
  BY <1>5 DEF Surjection
<1>7. DOMAIN order = D
  BY <1>2
<1> QED BY <1>1, <1>2, <1>6, <1>7

(* A header that no edit names keeps its values.                           *)
LEMMA HeaderStays ==
    ASSUME NEW h, NEW e, IsFiniteSet(DOMAIN e.rename), NEW order \in SetToSeqs(DOMAIN e.rename),
           NEW x \in DOMAIN h,
           x \notin e.remove, x \notin DOMAIN e.insert, x \notin DOMAIN e.append,
           x \notin DOMAIN e.rename, \A m \in DOMAIN e.rename : e.rename[m] # x,
           h[x] \o <<>> = h[x]
    PROVE  x \in DOMAIN EditHeaders(h, e, order) /\ EditHeaders(h, e, order)[x] = h[x]
<1> DEFINE n == Cardinality(DOMAIN e.rename)
<1>1. /\ n \in Nat /\ DOMAIN order = 1 .. n
      /\ \A k \in 1 .. n : order[k] \in DOMAIN e.rename
  BY OrderOfKeys
<1> HIDE DEF n
<1>2. PICK f : RunOfRenames(f, h, e, n, order)
  BY <1>1, RenamesRun
<1> USE DEF RunOfRenames
<1> DEFINE P == {k \in 0 .. n : x \in DOMAIN f[k] /\ f[k][x] = h[x]}
<1>3. 0 \in P
  <2>1. x \in DOMAIN Edited(h, e) /\ Edited(h, e)[x] = h[x] \o <<>>
    BY DEF Edited
  <2> QED BY <1>1, <1>2, <2>1
<1>4. ASSUME NEW k \in 0 .. n - 1, k \in P PROVE k + 1 \in P
  <2>1. k + 1 \in 1 .. n /\ k + 1 \in 0 .. n /\ (k + 1) - 1 = k
    BY <1>1
  <2> DEFINE m == order[k + 1]
  <2>2. f[k + 1] = Rename(f[k], m, e.rename[m]) /\ m \in DOMAIN e.rename
    BY <1>1, <1>2, <2>1
  <2>3. x # m /\ x # e.rename[m]
    BY <2>2
  <2>4. x \in DOMAIN f[k] /\ f[k][x] = h[x]
    BY <1>4
  <2> HIDE DEF m
  <2>5. x \in DOMAIN f[k + 1] /\ f[k + 1][x] = f[k][x]
    <3>1. CASE m \in DOMAIN f[k]
      <4>1. DOMAIN f[k + 1] = (DOMAIN f[k] \ {m}) \cup {e.rename[m]}
        <5>1. DOMAIN Rename(f[k], m, e.rename[m]) = (DOMAIN f[k] \ {m}) \cup {e.rename[m]}
          BY <3>1 DEF Rename, Insert, Without, Restrict
        <5> QED BY <2>2, <5>1
      <4>2. x \in DOMAIN f[k] \ {m, e.rename[m]}
        BY <2>3, <2>4
      <4>3. f[k + 1][x] = f[k][x]
        BY <2>2, <3>1, <4>2, RenameOther
      <4> QED BY <4>1, <4>2, <4>3
    <3>2. CASE m \notin DOMAIN f[k]
      BY <2>2, <2>4, <3>2, RenameAbsent
    <3> QED BY <3>1, <3>2
  <2> QED BY <2>1, <2>4, <2>5
<1> HIDE DEF P
<1>5. n \in P
  <2>1. 0 .. n \subseteq P
    BY <1>1, <1>3, <1>4, UpTo
  <2> QED BY <1>1, <2>1
<1> QED BY <1>2, <1>5 DEF P

(* Renames that share no header act as if all were done at once, in any    *)
(* number and whatever order the HashMap gives them in (manifest.rs:167    *)
(* and 209).                                                               *)
THEOREM RenamesAtOnce ==
    ASSUME NEW h, NEW e, Independent(e), IsFiniteSet(DOMAIN e.rename),
           NEW order \in SetToSeqs(DOMAIN e.rename)
    PROVE  EditHeaders(h, e, order) = AllAtOnce(h, e)
<1> DEFINE n == Cardinality(DOMAIN e.rename)
           R == e.rename
           full == Edited(h, e)
           done(k) == {order[i] : i \in 1 .. k}
           moved(k) == done(k) \cap DOMAIN full
           from(mv, x) == {m \in mv : R[m] = x}
           after(mv) == [x \in (DOMAIN full \ mv) \cup {R[m] : m \in mv} |->
                            IF from(mv, x) = {} THEN full[x]
                            ELSE <<Head(full[CHOOSE m \in from(mv, x) : TRUE])>>]
<1>1. /\ n \in Nat /\ DOMAIN order = 1 .. n
      /\ \A k \in 1 .. n : order[k] \in DOMAIN R
      /\ \A i, j \in 1 .. n : order[i] = order[j] => i = j
      /\ done(n) = DOMAIN R
  BY OrderOfKeys
<1>2. /\ \A a, b \in DOMAIN R : R[a] = R[b] => a = b
      /\ \A a, b \in DOMAIN R : R[a] # b
  BY DEF Independent, IsInjective, Range
<1>3. full = [x \in DOMAIN full |-> full[x]]
  BY DEF Edited
<1>4. AllAtOnce(h, e) = after(moved(n))
  <2>1. moved(n) = DOMAIN R \cap DOMAIN full
    BY <1>1
  <2>2. AllAtOnce(h, e) = after(DOMAIN R \cap DOMAIN full)
    BY Zenon DEF AllAtOnce
  <2> HIDE DEF moved, after
  <2> QED BY <2>1, <2>2
<1> HIDE DEF n
<1>5. PICK f : /\ f[0] = full
               /\ \A k \in 1 .. n : f[k] = Rename(f[k - 1], order[k], R[order[k]])
               /\ EditHeaders(h, e, order) = f[n]
  <2>1. n \in Nat /\ DOMAIN order = 1 .. n
    BY <1>1
  <2>2. PICK f : RunOfRenames(f, h, e, n, order)
    BY <2>1, RenamesRun, Zenon
  <2> QED BY <2>2, Zenon DEF RunOfRenames
<1> HIDE DEF full, R
<1> DEFINE P == {k \in 0 .. n : f[k] = after(moved(k))}
<1>6. 0 \in P
  <2>1. moved(0) = {}
    OBVIOUS
  <2> HIDE DEF moved
  <2>2. DOMAIN after(moved(0)) = DOMAIN full /\ \A x \in DOMAIN full : after(moved(0))[x] = full[x]
    BY <2>1
  <2>3. after(moved(0)) = [x \in DOMAIN after(moved(0)) |-> after(moved(0))[x]]
    OBVIOUS
  <2>4. after(moved(0)) = full
    <3> HIDE DEF after
    <3> QED BY <1>3, <2>2, <2>3
  <2> QED BY <1>1, <1>5, <2>4
<1>7. ASSUME NEW k \in 0 .. n - 1, k \in P PROVE k + 1 \in P
  <2>1. k + 1 \in 1 .. n /\ k + 1 \in 0 .. n /\ (k + 1) - 1 = k /\ 1 .. k + 1 = (1 .. k) \cup {k + 1}
    BY <1>1
  <2> DEFINE a == order[k + 1]
             b == R[a]
             g == after(moved(k))
             next == after(moved(k + 1))
  <2>2. f[k + 1] = Rename(g, a, b) /\ a \in DOMAIN R
    BY <1>1, <1>5, <1>7, <2>1
  <2>3. done(k + 1) = done(k) \cup {a} /\ done(k) \subseteq DOMAIN R /\ a \notin done(k)
    <3>1. \A i \in 1 .. k : i \in 1 .. n /\ i # k + 1
      BY <1>1
    <3>2. done(k + 1) = done(k) \cup {a}
      BY <2>1
    <3> QED BY <1>1, <2>1, <3>1, <3>2
  <2> HIDE DEF done, a
  <2>4. /\ DOMAIN g = (DOMAIN full \ moved(k)) \cup {R[m] : m \in moved(k)}
        /\ \A x \in DOMAIN g : g[x] = IF from(moved(k), x) = {} THEN full[x]
                                       ELSE <<Head(full[CHOOSE m \in from(moved(k), x) : TRUE])>>
    OBVIOUS
  <2>5. /\ DOMAIN next = (DOMAIN full \ moved(k + 1)) \cup {R[m] : m \in moved(k + 1)}
        /\ \A x \in DOMAIN next : next[x] = IF from(moved(k + 1), x) = {} THEN full[x]
                                       ELSE <<Head(full[CHOOSE m \in from(moved(k + 1), x) : TRUE])>>
        /\ next = [x \in DOMAIN next |-> next[x]]
    OBVIOUS
  <2>6. CASE a \notin DOMAIN full
    <3>1. moved(k + 1) = moved(k)
      BY <2>3, <2>6
    <3>2. next = g
      <4> HIDE DEF moved, after
      <4> QED BY <3>1
    <3>3. a \notin DOMAIN g
      BY <1>2, <2>2, <2>3, <2>4, <2>6
    <3> QED BY <2>1, <2>2, <3>2, <3>3, RenameAbsent
  <2>7. CASE a \in DOMAIN full
    <3>1. moved(k + 1) = moved(k) \cup {a} /\ moved(k) \subseteq DOMAIN R /\ a \notin moved(k)
      BY <2>3, <2>7
    <3>2. from(moved(k), a) = {} /\ from(moved(k), b) = {} /\ from(moved(k + 1), b) = {a} /\ a # b
      BY <1>2, <2>2, <3>1
    <3>3. a \in DOMAIN g /\ g[a] = full[a]
      <4>1. a \in DOMAIN g
        BY <2>4, <2>7, <3>1
      <4> QED BY <2>4, <3>2, <4>1
    <3>4. DOMAIN next = (DOMAIN g \ {a}) \cup {b}
      BY <1>2, <2>2, <2>4, <2>5, <3>1
    <3>5. ASSUME NEW x \in DOMAIN next PROVE next[x] = Rename(g, a, b)[x]
      <4>1. CASE x = b
        <5>1. (CHOOSE m \in {a} : TRUE) = a
          OBVIOUS
        <5>2. next[b] = <<Head(full[a])>>
          BY <2>5, <3>2, <3>4, <5>1
        <5>3. Rename(g, a, b)[b] = <<Head(g[a])>>
          <6> HIDE DEF g, b
          <6> QED BY <3>3, RenameTarget
        <5> QED BY <3>3, <4>1, <5>2, <5>3
      <4>2. CASE x # b
        <5>1. x \in DOMAIN g \ {a, b}
          BY <3>4, <4>2
        <5>2. from(moved(k + 1), x) = from(moved(k), x)
          BY <3>1, <4>2
        <5>3. next[x] = g[x]
          <6> DEFINE value(F) == IF F = {} THEN full[x] ELSE <<Head(full[CHOOSE m \in F : TRUE])>>
          <6>1. g[x] = value(from(moved(k), x))
            <7> HIDE DEF g, from
            <7> QED BY <2>4, <5>1
          <6>2. next[x] = value(from(moved(k + 1), x))
            <7> HIDE DEF next, from
            <7> QED BY <2>5
          <6> HIDE DEF g, next, from, value
          <6> QED BY <5>2, <6>1, <6>2
        <5>4. Rename(g, a, b)[x] = g[x]
          <6> HIDE DEF g, b
          <6> QED BY <3>3, <5>1, RenameOther
        <5> QED BY <5>3, <5>4
      <4> QED BY <4>1, <4>2
    <3> HIDE DEF g, next, b
    <3>6. DOMAIN Rename(g, a, b) = DOMAIN next
      <4>1. DOMAIN Rename(g, a, b) = (DOMAIN g \ {a}) \cup {b}
        BY <3>3 DEF Rename, Insert, Without, Restrict
      <4> QED BY <3>4, <4>1
    <3>7. Rename(g, a, b) = [x \in DOMAIN Rename(g, a, b) |-> Rename(g, a, b)[x]]
      BY <3>3, RenameIsFunction
    <3>8. next = Rename(g, a, b)
      BY <2>5, <3>5, <3>6, <3>7
    <3> QED BY <2>1, <2>2, <3>8 DEF next
  <2> QED BY <2>6, <2>7
<1> HIDE DEF P
<1>8. n \in P
  <2>1. 0 .. n \subseteq P
    BY <1>1, <1>6, <1>7, UpTo
  <2> QED BY <1>1, <2>1
<1> QED BY <1>4, <1>5, <1>8 DEF P

-----------------------------------------------------------------------------
(* replace_in_vec.  The matches that are to be replaced.                   *)

(* Matches are places in the text, and there are finitely many.            *)
LEMMA MatchesAreFinite ==
    ASSUME NEW S, NEW t \in Seq(S), NEW p \in Seq(S), p # <<>>, NEW C \in SUBSET Matches(t, p)
    PROVE  /\ Len(p) \in Nat \ {0} /\ Len(t) \in Nat /\ C \subseteq 1 .. Len(t)
           /\ IsFiniteSet(C) /\ Cardinality(C) \in Nat
<1>1. Len(p) \in Nat \ {0} /\ Len(t) \in Nat
  BY EmptySeq
<1>2. C \subseteq 1 .. Len(t)
  BY <1>1 DEF Matches
<1>3. IsFiniteSet(1 .. Len(t))
  BY <1>1, FS_Interval
<1>4. IsFiniteSet(C)
  BY <1>2, <1>3, FS_Subset
<1> QED BY <1>1, <1>2, <1>4, FS_CardinalityType

(* There is a choice of matches from the left: of those that are left, the *)
(* next one is taken while fewer than max are.                             *)
LEMMA LeftmostExists ==
    ASSUME NEW S, NEW t \in Seq(S), NEW p \in Seq(S), p # <<>>, NEW max \in Nat
    PROVE  \E C \in SUBSET Matches(t, p) : Leftmost(C, t, p, max)
<1> DEFINE n == Len(p)
           M == Matches(t, p)
           From(C, k) ==
              /\ Cardinality(C) <= max
              /\ \A c, d \in C : c < d => c + n <= d
              /\ \A i \in M \ C : i <= k =>
                    \/ \E c \in C : c < i /\ i < c + n
                    \/ Cardinality(C) = max /\ \A c \in C : c < i
           P == {k \in 0 .. Len(t) : \E C \in SUBSET M : From(C, k) /\ \A c \in C : c <= k}
<1>1. n \in Nat \ {0} /\ Len(t) \in Nat /\ M \subseteq 1 .. Len(t)
  <2>1. Matches(t, p) \in SUBSET Matches(t, p)
    OBVIOUS
  <2> QED BY <2>1, MatchesAreFinite
<1> HIDE DEF n, M
<1>2. 0 \in P
  <2>1. From({}, 0)
    BY <1>1, FS_EmptySet
  <2>2. {} \in SUBSET M /\ 0 \in 0 .. Len(t)
    BY <1>1
  <2> QED BY <2>1, <2>2
<1>3. ASSUME NEW k \in 0 .. Len(t) - 1, k \in P PROVE k + 1 \in P
  <2>1. PICK C \in SUBSET M : From(C, k) /\ \A c \in C : c <= k
    BY <1>3
  <2>2. k + 1 \in 0 .. Len(t) /\ k \in Nat
    BY <1>1
  <2>3. IsFiniteSet(C) /\ Cardinality(C) \in Nat /\ \A c \in C : c \in Nat
    <3>1. \A c \in C : c \in Nat
      BY <1>1
    <3> QED BY <3>1, MatchesAreFinite DEF M
  <2>4. CASE k + 1 \notin M
    <3>1. From(C, k + 1)
      <4>1. \A i \in M \ C : i <= k + 1 => i <= k
        BY <1>1, <2>2, <2>4
      <4> QED BY <2>1, <4>1
    <3>2. \A c \in C : c <= k + 1
      BY <2>1, <2>2, <2>3
    <3> QED BY <2>2, <3>1, <3>2
  <2>5. CASE k + 1 \in M /\ \E c \in C : k + 1 < c + n
    <3>1. \E c \in C : c < k + 1 /\ k + 1 < c + n
      BY <2>1, <2>2, <2>3, <2>5
    <3>2. \A i \in M \ C : i <= k + 1 => i <= k \/ i = k + 1
      BY <1>1, <2>2
    <3>3. From(C, k + 1)
      BY <2>1, <3>1, <3>2
    <3>4. \A c \in C : c <= k + 1
      BY <2>1, <2>2, <2>3
    <3> QED BY <2>2, <3>3, <3>4
  <2>6. CASE k + 1 \in M /\ Cardinality(C) = max
    <3>1. \A c \in C : c < k + 1
      BY <2>1, <2>2, <2>3
    <3>2. \A i \in M \ C : i <= k + 1 => i <= k \/ i = k + 1
      BY <1>1, <2>2
    <3>3. From(C, k + 1)
      BY <2>1, <2>6, <3>1, <3>2
    <3>4. \A c \in C : c <= k + 1
      BY <2>1, <2>2, <2>3
    <3> QED BY <2>2, <3>3, <3>4
  <2>7. CASE k + 1 \in M /\ Cardinality(C) # max /\ ~ \E c \in C : k + 1 < c + n
    <3> DEFINE D == C \cup {k + 1}
    <3>1. k + 1 \notin C
      BY <2>1, <2>2
    <3>2. Cardinality(D) = Cardinality(C) + 1
      BY <2>3, <3>1, FS_AddElement
    <3>3. Cardinality(D) <= max
      BY <2>1, <2>3, <2>7, <3>2
    <3>4. \A c, d \in D : c < d => c + n <= d
      BY <1>1, <2>1, <2>2, <2>3, <2>7
    <3>5. ASSUME NEW i \in M \ D, i <= k + 1
          PROVE  \E c \in D : c < i /\ i < c + n
      <4>1. i <= k /\ i \in M \ C
        BY <1>1, <2>2, <3>5
      <4>2. Cardinality(C) # max
        BY <2>7
      <4> QED BY <2>1, <4>1, <4>2
    <3>6. \A c \in D : c <= k + 1
      BY <2>1, <2>2, <2>3
    <3>7. D \in SUBSET M
      BY <2>7
    <3> HIDE DEF D
    <3>8. From(D, k + 1)
      BY <3>3, <3>4, <3>5
    <3> QED BY <2>2, <3>6, <3>7, <3>8
  <2> QED BY <2>4, <2>5, <2>6, <2>7
<1>4. Len(t) \in P
  <2> HIDE DEF P
  <2>1. 0 .. Len(t) \subseteq P
    BY <1>1, <1>2, <1>3, UpTo
  <2> QED BY <1>1, <2>1
<1>5. PICK C \in SUBSET M : From(C, Len(t))
  BY <1>4
<1>6. \A i \in M \ C : i <= Len(t)
  BY <1>1
<1>7. Leftmost(C, t, p, max)
  BY <1>5, <1>6 DEF Leftmost, M, n
<1> QED BY <1>5, <1>7 DEF M

-----------------------------------------------------------------------------
(* What becomes of the text, place by place.                               *)

(* Where the text is copied, what is copied is a part of the text.         *)
LEMMA CopiedRun ==
    ASSUME NEW S, NEW t \in Seq(S), NEW f \in [0 .. Len(t) -> Seq(S)],
           NEW a \in 1 .. Len(t) + 1, NEW b \in a .. Len(t) + 1,
           \A i \in a .. b - 1 : f[i] = f[i - 1] \o <<t[i]>>
    PROVE  f[b - 1] = f[a - 1] \o SubSeq(t, a, b - 1)
<1> DEFINE P == {k \in 0 .. b - a : f[(a - 1) + k] = f[a - 1] \o SubSeq(t, a, (a - 1) + k)}
<1>1. Len(t) \in Nat /\ a \in Nat /\ b \in Nat /\ b - a \in Nat /\ a - 1 \in 0 .. Len(t)
  OBVIOUS
<1>2. 0 \in P
  <2>1. SubSeq(t, a, (a - 1) + 0) = <<>>
    BY <1>1, SubSeqEmpty
  <2>2. (a - 1) + 0 = a - 1 /\ f[a - 1] \in Seq(S)
    BY <1>1
  <2> QED BY <1>1, <2>1, <2>2, ConcatEmptySeq
<1>3. ASSUME NEW k \in 0 .. (b - a) - 1, k \in P PROVE k + 1 \in P
  <2> DEFINE i == a + k
  <2>1. /\ i \in a .. b - 1 /\ i \in 1 .. Len(t) /\ (a - 1) + k = i - 1 /\ (a - 1) + (k + 1) = i
        /\ k + 1 \in 0 .. b - a /\ a \in 1 .. Len(t) /\ i \in a .. Len(t)
    BY <1>1
  <2> HIDE DEF i
  <2>2. f[i] = f[i - 1] \o <<t[i]>> /\ f[i - 1] = f[a - 1] \o SubSeq(t, a, i - 1)
    BY <1>3, <2>1
  <2>3. SubSeq(t, a, i - 1) \in Seq(S) /\ <<t[i]>> \in Seq(S) /\ f[a - 1] \in Seq(S)
    <3>1. t[i] \in S
      BY <2>1, ElementOfSeq
    <3>2. \A j \in a .. i - 1 : t[j] \in S
      BY <1>1, <2>1, ElementOfSeq
    <3>3. a \in Int /\ i - 1 \in Int
      BY <1>1, <2>1
    <3>4. SubSeq(t, a, i - 1) \in Seq(S)
      BY <3>2, <3>3, SubSeqProperties
    <3>5. f[a - 1] \in Seq(S)
      BY <1>1
    <3> QED BY <3>1, <3>4, <3>5
  <2>4. f[i] = f[a - 1] \o (SubSeq(t, a, i - 1) \o <<t[i]>>)
    <3> DEFINE x == f[a - 1]
               y == SubSeq(t, a, i - 1)
               z == <<t[i]>>
    <3>1. x \in Seq(S) /\ y \in Seq(S) /\ z \in Seq(S) /\ f[i] = (x \o y) \o z
      BY <2>2, <2>3
    <3> HIDE DEF x, y, z
    <3>2. Regroups(x, y, z)
      BY <3>1, Regroup
    <3> QED BY <3>1, <3>2 DEF x, y, z, Regroups
  <2>5. SubSeq(t, a, i - 1) \o <<t[i]>> = SubSeq(t, a, i)
    BY <2>1, SubSeqRecursiveSecond
  <2> QED BY <2>1, <2>4, <2>5
<1>4. b - a \in P
  <2> HIDE DEF P
  <2>1. 0 .. b - a \subseteq P
    BY <1>1, <1>2, <1>3, UpTo
  <2> QED BY <1>1, <2>1
<1>5. (a - 1) + (b - a) = b - 1
  BY <1>1
<1> QED BY <1>4, <1>5

(* Where a match is replaced, nothing more is put in.                      *)
Skips(f, a, b) == \A i \in a .. b - 1 : f[i] = f[i - 1] \o <<>>
LEMMA SkippedRun ==
    ASSUME NEW S, NEW n \in Nat, NEW f \in [0 .. n -> Seq(S)],
           NEW a \in 1 .. n + 1, NEW b \in a .. n + 1, Skips(f, a, b)
    PROVE  f[b - 1] = f[a - 1]
<1> DEFINE P == {k \in 0 .. b - a : f[(a - 1) + k] = f[a - 1]}
<1>1. a \in Nat /\ b \in Nat /\ b - a \in Nat
  OBVIOUS
<1>2. 0 \in P
  <2>1. (a - 1) + 0 = a - 1
    BY <1>1
  <2> QED BY <1>1, <2>1
<1>3. ASSUME NEW k \in 0 .. (b - a) - 1, k \in P PROVE k + 1 \in P
  <2> DEFINE i == a + k
  <2>1. /\ i \in a .. b - 1 /\ i - 1 \in 0 .. n /\ (a - 1) + k = i - 1 /\ (a - 1) + (k + 1) = i
        /\ k + 1 \in 0 .. b - a
    BY <1>1
  <2> HIDE DEF i
  <2>2. f[i] = f[i - 1] \o <<>>
    BY <2>1 DEF Skips
  <2>4. f[i - 1] = f[a - 1] /\ f[i - 1] \in Seq(S)
    BY <1>3, <2>1
  <2>3. f[i] = f[a - 1]
    BY <2>2, <2>4, ConcatEmptySeq
  <2> QED BY <2>1, <2>3
<1>4. b - a \in P
  <2> HIDE DEF P
  <2>1. 0 .. b - a \subseteq P
    BY <1>1, <1>2, <1>3, UpTo
  <2> QED BY <1>1, <2>1
<1>5. (a - 1) + (b - a) = b - 1
  BY <1>1
<1> QED BY <1>4, <1>5

(* Behind what is done, the text that is searched is the old one.          *)
LEMMA RestIsText ==
    ASSUME NEW S, NEW t \in Seq(S), NEW x \in Seq(S), NEW q \in 1 .. Len(t) + 1,
           NEW i \in q .. Len(t), NEW j \in i .. Len(t)
    PROVE  SubSeq(x \o SubSeq(t, q, Len(t)), Len(x) + (i - q) + 1, Len(x) + (j - q) + 1) = SubSeq(t, i, j)
<1> DEFINE y == SubSeq(t, q, Len(t))
<1>1. Len(t) \in Nat /\ Len(x) \in Nat /\ q \in Nat /\ i \in Nat /\ j \in Nat
  OBVIOUS
<1>2. y \in Seq(S) /\ Len(y) = Len(t) - q + 1
  <2>1. \A k \in q .. Len(t) : t[k] \in S
    BY <1>1, ElementOfSeq
  <2>2. q \in Int /\ Len(t) \in Int /\ q <= Len(t)
    BY <1>1
  <2> QED BY <2>1, <2>2, SubSeqProperties
<1> HIDE DEF y
<1>3. SubSeq(x \o y, Len(x) + (i - q) + 1, Len(x) + (j - q) + 1)
        = SubSeq(y, (Len(x) + (i - q) + 1) - Len(x), (Len(x) + (j - q) + 1) - Len(x))
  <2>1. /\ Len(x) + (i - q) + 1 \in Len(x) + 1 .. Len(x) + Len(y)
        /\ Len(x) + (j - q) + 1 \in Len(x) + 1 .. Len(x) + Len(y)
    BY <1>1, <1>2
  <2>2. x \in Seq(S) /\ y \in Seq(S)
    BY <1>2
  <2> QED BY <2>1, <2>2, SubSeqOfConcat2, Zenon
<1>4. (Len(x) + (i - q) + 1) - Len(x) = i - q + 1 /\ (Len(x) + (j - q) + 1) - Len(x) = j - q + 1
  BY <1>1
<1>5. SubSeq(y, i - q + 1, j - q + 1) = SubSeq(t, q + (i - q + 1) - 1, q + (j - q + 1) - 1)
  <2>1. /\ q \in 1 .. Len(t) /\ Len(t) \in 1 .. Len(t)
        /\ i - q + 1 \in 1 .. Len(t) - q + 1 /\ j - q + 1 \in 1 .. Len(t) - q + 1
    BY <1>1
  <2> QED BY <2>1, SubSeqOfSubSeq DEF y
<1>6. q + (i - q + 1) - 1 = i /\ q + (j - q + 1) - 1 = j
  BY <1>1
<1> QED BY <1>3, <1>4, <1>5, <1>6 DEF y

(* What Splice puts in takes the place of what was there.                  *)
Spliced(u, v, z, r) == Splice((u \o v) \o z, Len(u) + 1, Len(v), r) = (u \o r) \o z
LEMMA SpliceBetween ==
    ASSUME NEW S, NEW u \in Seq(S), NEW v \in Seq(S), NEW z \in Seq(S), NEW r \in Seq(S)
    PROVE  Spliced(u, v, z, r)
<1> DEFINE d == (u \o v) \o z
<1>1. /\ u \o v \in Seq(S) /\ Len(u \o v) = Len(u) + Len(v) /\ Len(u) \in Nat /\ Len(v) \in Nat /\ Len(z) \in Nat
      /\ \A i \in 1 .. Len(u) : (u \o v)[i] = u[i]
  BY ConcatProperties
<1>2. /\ d \in Seq(S) /\ Len(d) = (Len(u) + Len(v)) + Len(z)
      /\ \A i \in 1 .. Len(u) : d[i] = u[i]
      /\ \A i \in 1 .. Len(z) : d[(Len(u) + Len(v)) + i] = z[i]
  BY <1>1, ConcatProperties
<1> HIDE DEF d
<1>3. SubSeq(d, 1, Len(u)) = u
  <2>1. \A i \in 1 .. Len(u) : d[i] \in S
    BY <1>1, <1>2
  <2>2. /\ SubSeq(d, 1, Len(u)) \in Seq(S)
        /\ Len(SubSeq(d, 1, Len(u))) = Len(u)
        /\ \A i \in 1 .. Len(u) : SubSeq(d, 1, Len(u))[i] = d[i]
    BY <1>1, <2>1, SubSeqProperties
  <2> QED BY <1>1, <1>2, <2>2, SeqEqual
<1>4. SubSeq(d, (Len(u) + 1) + Len(v), Len(d)) = z
  <2> DEFINE m == (Len(u) + 1) + Len(v)
  <2>1. /\ m \in Int /\ Len(d) \in Int /\ Len(d) - m + 1 = Len(z)
        /\ \A i \in m .. Len(d) : d[i] \in S
        /\ \A i \in 1 .. Len(z) : m + i - 1 = (Len(u) + Len(v)) + i
        /\ (m <= Len(d) \/ Len(z) = 0)
    BY <1>1, <1>2
  <2> HIDE DEF m
  <2>2. /\ SubSeq(d, m, Len(d)) \in Seq(S)
        /\ Len(SubSeq(d, m, Len(d))) = Len(z)
        /\ \A i \in 1 .. Len(z) : SubSeq(d, m, Len(d))[i] = d[m + i - 1]
    BY <1>1, <2>1, SubSeqProperties
  <2>3. \A i \in 1 .. Len(z) : SubSeq(d, m, Len(d))[i] = z[i]
    BY <1>2, <2>1, <2>2
  <2>4. SubSeq(d, m, Len(d)) = z
    BY <2>2, <2>3, SeqEqual
  <2> QED BY <2>4 DEF m
<1>5. (Len(u) + 1) - 1 = Len(u)
  BY <1>1
<1> QED BY <1>3, <1>4, <1>5 DEF Splice, d, Spliced

-----------------------------------------------------------------------------
(* f[i] is what becomes of the first i places of the text.                 *)
Becomes(f, S, C, t, p, r) ==
    /\ f \in [0 .. Len(t) -> Seq(S)] /\ f[0] = <<>>
    /\ \A i \in 1 .. Len(t) : f[i] = f[i - 1] \o Pieces(C, t, p, r)[i]

(* What was done, x, and the rest of the text.                             *)
Continued(x, t, q) == x \o SubSeq(t, q, Len(t))

(* What the loop holds when it has come to place q of the text.            *)
ReplacedTo(q, w, f, C, t, p, max) ==
    /\ w = [data |-> Continued(f[q - 1], t, q), from |-> Len(f[q - 1]) + 1,
            left |-> max - Cardinality({d \in C : d < q})]
    /\ \A d \in C : d < q => d + Len(p) <= q

(* Between two matches that were chosen no match is left to find.          *)
LEMMA NoneBetween ==
    ASSUME NEW S, NEW t \in Seq(S), NEW p \in Seq(S), p # <<>>, NEW max \in Nat,
           NEW C \in SUBSET Matches(t, p), Leftmost(C, t, p, max),
           NEW q \in 1 .. Len(t) + 1, \A c \in C : c < q => c + Len(p) <= q,
           NEW i \in Matches(t, p), q <= i, \A c \in C : q <= c => i < c
    PROVE  Cardinality(C) = max /\ \A c \in C : c < q
<1>1. /\ Len(p) \in Nat \ {0} /\ C \subseteq 1 .. Len(t) /\ Len(t) \in Nat
  BY MatchesAreFinite
<1>2. i \in Nat
  BY <1>1 DEF Matches
<1>3. i \notin C
  BY <1>2
<1>4. ~ \E c \in C : c < i /\ i < c + Len(p)
  <2>1. SUFFICES ASSUME NEW c \in C, c < i, i < c + Len(p) PROVE FALSE
    OBVIOUS
  <2>2. c < q
    BY <1>1, <1>2, <2>1
  <2>3. c + Len(p) <= q
    BY <2>2
  <2> QED BY <1>1, <1>2, <2>1, <2>3
<1>5. Cardinality(C) = max /\ \A c \in C : c < i
  BY <1>3, <1>4 DEF Leftmost
<1> QED BY <1>1, <1>2, <1>5

-----------------------------------------------------------------------------
(* The search.                                                             *)

(* Four parts are one text, however they are put together.                 *)
Joins(x, y, v, z) == x \o ((y \o v) \o z) = ((x \o y) \o v) \o z
LEMMA ConcatOfFour ==
    ASSUME NEW S, NEW x \in Seq(S), NEW y \in Seq(S), NEW v \in Seq(S), NEW z \in Seq(S)
    PROVE  Joins(x, y, v, z)
<1> DEFINE u == y \o v
<1>1. u \in Seq(S)
  BY ConcatProperties
<1>2. Regroups(x, y, v)
  BY Regroup
<1> HIDE DEF u
<1>3. Regroups(x, u, z)
  BY <1>1, Regroup
<1>4. x \o u = (x \o y) \o v
  BY <1>2, Zenon DEF u, Regroups
<1>5. x \o (u \o z) = (x \o u) \o z
  BY <1>3, Zenon DEF Regroups
<1>6. x \o (u \o z) = ((x \o y) \o v) \o z
  BY <1>4, <1>5, Zenon
<1> QED BY <1>6, Zenon DEF u, Joins

(* A part of a text is a text.                                             *)
LEMMA PartType ==
    ASSUME NEW S, NEW t \in Seq(S), NEW a \in 1 .. Len(t) + 1, NEW b \in a - 1 .. Len(t)
    PROVE  SubSeq(t, a, b) \in Seq(S) /\ Len(SubSeq(t, a, b)) = b - a + 1
<1>1. a \in Int /\ b \in Int /\ (IF a <= b THEN b - a + 1 ELSE 0) = b - a + 1
  OBVIOUS
<1>2. \A i \in a .. b : t[i] \in S
  BY ElementOfSeq
<1> QED BY <1>1, <1>2, SubSeqProperties

(* The places where the search finds the needle.                           *)
Found(needle, hay, from) ==
    {i \in from .. Len(hay) - Len(needle) + 1 : SubSeq(hay, i, i + Len(needle) - 1) = needle}
LEMMA SearchIsFirst ==
    ASSUME NEW needle, NEW hay, NEW from
    PROVE  Search(needle, hay, from) = IF Found(needle, hay, from) = {} THEN 0
                                       ELSE Min(Found(needle, hay, from))
  BY Zenon DEF Search, Found

(* What the search looks at, behind what is done, are the old matches.     *)
LEMMA PlacesSearched ==
    ASSUME NEW S, NEW t \in Seq(S), NEW p \in Seq(S), p # <<>>,
           NEW x \in Seq(S), NEW q \in 1 .. Len(t) + 1
    PROVE  \A j : j \in Found(p, Continued(x, t, q), Len(x) + 1) <=>
                     \E i \in Matches(t, p) : q <= i /\ j = Len(x) + (i - q) + 1
<1> DEFINE n == Len(p)
           d == Continued(x, t, q)
           y == SubSeq(t, q, Len(t))
           at(i) == Len(x) + (i - q) + 1
           A == {j \in Len(x) + 1 .. Len(d) - n + 1 : SubSeq(d, j, j + n - 1) = p}
<1>1. n \in Nat \ {0} /\ Len(t) \in Nat /\ Len(x) \in Nat /\ q \in Nat /\ q >= 1
  BY EmptySeq
<1>2. Len(d) = Len(x) + (Len(t) - q + 1)
  <2>1. y \in Seq(S) /\ Len(y) = Len(t) - q + 1
    BY <1>1, PartType
  <2> HIDE DEF y
  <2>2. Len(x \o y) = Len(x) + Len(y)
    BY <2>1, ConcatProperties
  <2>3. d = x \o y
    BY DEF y, Continued
  <2> QED BY <2>1, <2>2, <2>3
<1>3. ASSUME NEW i \in q .. Len(t) - n + 1
      PROVE  SubSeq(d, at(i), at(i) + n - 1) = SubSeq(t, i, i + n - 1)
  <2>1. /\ i \in q .. Len(t) /\ i + n - 1 \in i .. Len(t)
        /\ at(i) + n - 1 = Len(x) + ((i + n - 1) - q) + 1
    BY <1>1
  <2>2. SubSeq(d, Len(x) + (i - q) + 1, Len(x) + ((i + n - 1) - q) + 1) = SubSeq(t, i, i + n - 1)
    <3> DEFINE k == i + n - 1
    <3>1. i \in q .. Len(t) /\ k \in i .. Len(t)
      BY <2>1
    <3> HIDE DEF k
    <3>2. SubSeq(d, Len(x) + (i - q) + 1, Len(x) + (k - q) + 1) = SubSeq(t, i, k)
      BY <3>1, RestIsText DEF Continued
    <3> QED BY <3>2 DEF k
  <2> QED BY <2>1, <2>2
<1>4. ASSUME NEW j \in A PROVE \E i \in Matches(t, p) : q <= i /\ j = at(i)
  <2> DEFINE i == j - Len(x) - 1 + q
  <2>1. j \in Len(x) + 1 .. Len(d) - n + 1 /\ SubSeq(d, j, j + n - 1) = p
    OBVIOUS
  <2>2. i \in q .. Len(t) - n + 1 /\ at(i) = j /\ i \in 1 .. Len(t) - Len(p) + 1 /\ q <= i
    BY <1>1, <1>2, <2>1
  <2> HIDE DEF i
  <2>3. SubSeq(t, i, i + n - 1) = p
    BY <1>3, <2>1, <2>2
  <2>4. i \in Matches(t, p)
    BY <2>2, <2>3 DEF Matches
  <2> QED BY <2>2, <2>4
<1>5. ASSUME NEW i \in Matches(t, p), q <= i PROVE at(i) \in A
  <2>1. i \in q .. Len(t) - n + 1 /\ SubSeq(t, i, i + n - 1) = p
    BY <1>1, <1>5 DEF Matches
  <2>2. at(i) \in Len(x) + 1 .. Len(d) - n + 1
    BY <1>1, <1>2, <2>1
  <2>3. SubSeq(d, at(i), at(i) + n - 1) = p
    BY <1>3, <2>1
  <2> QED BY <2>2, <2>3
<1>6. A = Found(p, d, Len(x) + 1)
  BY DEF Found
<1> HIDE DEF A
<1> QED BY <1>4, <1>5, <1>6

(* So the next match is found where it has gone to, ...                    *)
LEMMA SearchFinds ==
    ASSUME NEW S, NEW t \in Seq(S), NEW p \in Seq(S), p # <<>>,
           NEW x \in Seq(S), NEW q \in 1 .. Len(t) + 1,
           NEW c \in Matches(t, p), q <= c, \A i \in Matches(t, p) : q <= i => c <= i
    PROVE  Search(p, Continued(x, t, q), Len(x) + 1) = Len(x) + (c - q) + 1
<1> DEFINE A == Found(p, Continued(x, t, q), Len(x) + 1)
           at == Len(x) + (c - q) + 1
<1>1. Len(x) \in Nat /\ q \in Nat /\ \A i \in Matches(t, p) : i \in Nat
  <2>1. Matches(t, p) \in SUBSET Matches(t, p)
    OBVIOUS
  <2>2. Matches(t, p) \subseteq 1 .. Len(t)
    BY <2>1, MatchesAreFinite
  <2> QED BY <2>2
<1>2. \A j : j \in A <=> \E i \in Matches(t, p) : q <= i /\ j = Len(x) + (i - q) + 1
  BY PlacesSearched
<1>3. A \subseteq Nat /\ at \in A /\ \A j \in A : at <= j
  <2> HIDE DEF A
  <2> QED BY <1>1, <1>2
<1> HIDE DEF A, at
<1>4. A # {} /\ Min(A) = at
  BY <1>3, MinOf
<1> QED BY <1>4, SearchIsFirst DEF A, at

(* ...and when there is none, none is found.                               *)
LEMMA SearchFails ==
    ASSUME NEW S, NEW t \in Seq(S), NEW p \in Seq(S), p # <<>>,
           NEW x \in Seq(S), NEW q \in 1 .. Len(t) + 1,
           \A i \in Matches(t, p) : i < q
    PROVE  Search(p, Continued(x, t, q), Len(x) + 1) = 0
<1>1. \A i \in Matches(t, p) : ~ (q <= i)
  <2>1. Matches(t, p) \in SUBSET Matches(t, p)
    OBVIOUS
  <2>2. Matches(t, p) \subseteq 1 .. Len(t)
    BY <2>1, MatchesAreFinite
  <2> QED BY <2>2
<1>2. \A j : j \in Found(p, Continued(x, t, q), Len(x) + 1) <=>
                \E i \in Matches(t, p) : q <= i /\ j = Len(x) + (i - q) + 1
  BY PlacesSearched
<1>3. Found(p, Continued(x, t, q), Len(x) + 1) = {}
  BY <1>1, <1>2
<1> QED BY <1>3, SearchIsFirst

(* The text from a place on is what is before a match, the match, and what *)
(* is behind it.                                                           *)
SplitAt(S, x, t, q, c, n, p) ==
    LET y == SubSeq(t, q, c - 1)
        z == SubSeq(t, c + n, Len(t))
    IN  /\ x \o y \in Seq(S) /\ z \in Seq(S) /\ Len(x \o y) = Len(x) + (c - q)
        /\ Continued(x, t, q) = ((x \o y) \o p) \o z
LEMMA SplitAtMatch ==
    ASSUME NEW S, NEW t \in Seq(S), NEW p \in Seq(S), p # <<>>,
           NEW x \in Seq(S), NEW q \in 1 .. Len(t) + 1, NEW c \in Matches(t, p), q <= c
    PROVE  SplitAt(S, x, t, q, c, Len(p), p)
<1> DEFINE n == Len(p)
           y == SubSeq(t, q, c - 1)
           z == SubSeq(t, c + n, Len(t))
<1>1. /\ n \in Nat \ {0} /\ Len(t) \in Nat /\ q \in Nat /\ c \in Nat /\ q >= 1
      /\ c + n <= Len(t) + 1 /\ SubSeq(t, c, c + n - 1) = p
  <2>1. n \in Nat \ {0} /\ Len(t) \in Nat
    BY EmptySeq
  <2> QED BY <2>1 DEF Matches
<1>2. y \in Seq(S) /\ Len(y) = c - q /\ z \in Seq(S)
  <2>1. c - 1 \in q - 1 .. Len(t) /\ c + n \in 1 .. Len(t) + 1 /\ Len(t) \in (c + n) - 1 .. Len(t)
        /\ (c - 1) - q + 1 = c - q
    BY <1>1
  <2> QED BY <2>1, PartType
<1>3. SubSeq(t, q, Len(t)) = (y \o p) \o z
  <2>1. y \o SubSeq(t, c, c + n - 1) = SubSeq(t, q, c + n - 1)
    <3>1. /\ q \in 1 .. Len(t) + 1 /\ c - 1 \in q - 1 .. Len(t) /\ c + n - 1 \in c - 1 .. Len(t)
          /\ (c - 1) + 1 = c
      BY <1>1
    <3> QED BY <3>1, ConcatAdjacentSubSeq
  <2>2. SubSeq(t, q, c + n - 1) \o z = SubSeq(t, q, Len(t))
    <3>1. /\ q \in 1 .. Len(t) + 1 /\ c + n - 1 \in q - 1 .. Len(t) /\ Len(t) \in c + n - 1 .. Len(t)
          /\ (c + n - 1) + 1 = c + n
      BY <1>1
    <3> QED BY <3>1, ConcatAdjacentSubSeq
  <2> QED BY <1>1, <2>1, <2>2
<1> HIDE DEF y, z
<1>4. x \o y \in Seq(S) /\ Len(x \o y) = Len(x) + Len(y)
  BY <1>2, ConcatProperties
<1>5. Joins(x, y, p, z)
  BY <1>2, ConcatOfFour
<1> QED BY <1>2, <1>3, <1>4, <1>5 DEF y, z, Joins, Continued, SplitAt

-----------------------------------------------------------------------------
(* The loop.                                                               *)

(* The pieces: what is between two matches is copied, and a match is       *)
(* replaced as a whole.                                                    *)
BecomesAt(f, t, q, c, n, r) == f[c + n - 1] = (f[q - 1] \o SubSeq(t, q, c - 1)) \o r
LEMMA BecomesAtMatch ==
    ASSUME NEW S, NEW t \in Seq(S), NEW p \in Seq(S), p # <<>>, NEW r, NEW max \in Nat,
           NEW C \in SUBSET Matches(t, p), Leftmost(C, t, p, max),
           NEW f, Becomes(f, S, C, t, p, r),
           NEW q \in 1 .. Len(t) + 1, \A d \in C : d < q => d + Len(p) <= q,
           NEW c \in C, q <= c, \A d \in C : q <= d => c <= d
    PROVE  BecomesAt(f, t, q, c, Len(p), r)
<1> DEFINE n == Len(p)
           piece == Pieces(C, t, p, r)
<1>1. /\ n \in Nat \ {0} /\ Len(t) \in Nat /\ C \subseteq 1 .. Len(t)
  BY MatchesAreFinite
<1>2. c \in Nat /\ q \in Nat /\ q >= 1 /\ c >= 1 /\ c + n <= Len(t) + 1
  BY <1>1 DEF Matches
<1>3. /\ f \in [0 .. Len(t) -> Seq(S)]
      /\ \A i \in 1 .. Len(t) : f[i] = f[i - 1] \o piece[i]
  BY DEF Becomes
<1>4. \A d, e \in C : d < e => d + n <= e
  BY DEF Leftmost
<1>5. ASSUME NEW i \in 1 .. Len(t)
      PROVE  piece[i] = IF i \in C THEN r
                        ELSE IF \E d \in C : d < i /\ i < d + n THEN <<>> ELSE <<t[i]>>
  <2>1. i \in DOMAIN t
    OBVIOUS
  <2> QED BY <2>1 DEF Pieces
<1> HIDE DEF piece
<1>6. f[c - 1] = f[q - 1] \o SubSeq(t, q, c - 1)
  <2>1. ASSUME NEW i \in q .. c - 1 PROVE f[i] = f[i - 1] \o <<t[i]>>
    <3>1. i \in 1 .. Len(t) /\ i \notin C
      BY <1>1, <1>2
    <3>2. ~ \E d \in C : d < i /\ i < d + n
      <4>1. SUFFICES ASSUME NEW d \in C, d < i, i < d + n PROVE FALSE
        OBVIOUS
      <4>2. d < q
        BY <1>1, <1>2, <4>1
      <4> QED BY <1>1, <1>2, <4>1, <4>2
    <3> QED BY <1>3, <1>5, <3>1, <3>2
  <2>2. c \in q .. Len(t) + 1
    BY <1>1, <1>2
  <2> QED BY <1>3, <2>1, <2>2, CopiedRun
<1>7. f[c] = f[c - 1] \o r
  <2>1. c \in 1 .. Len(t)
    BY <1>1
  <2> QED BY <1>3, <1>5, <2>1
<1>8. f[c + n - 1] = f[c]
  <2>1. ASSUME NEW i \in c + 1 .. (c + n) - 1 PROVE f[i] = f[i - 1] \o <<>>
    <3>1. i \in 1 .. Len(t) /\ c < i /\ i < c + n
      BY <1>1, <1>2
    <3>2. i \notin C
      BY <1>4, <1>1, <1>2, <3>1
    <3> QED BY <1>3, <1>5, <3>1, <3>2
  <2> DEFINE a == c + 1
             b == c + n
  <2>2. a \in 1 .. Len(t) + 1 /\ b \in a .. Len(t) + 1 /\ a - 1 = c
    BY <1>1, <1>2
  <2>3. Skips(f, a, b)
    BY <2>1 DEF Skips
  <2>4. Len(t) \in Nat /\ f \in [0 .. Len(t) -> Seq(S)]
    BY <1>1, <1>3
  <2> HIDE DEF a, b
  <2>5. f[b - 1] = f[a - 1]
    BY <2>2, <2>3, <2>4, SkippedRun
  <2> QED BY <2>2, <2>5 DEF b
<1> QED BY <1>6, <1>7, <1>8 DEF BecomesAt

(* A turn that finds a match: it is the next one chosen, and the text is   *)
(* as it should be behind it.                                              *)
LEMMA TurnAtMatch ==
    ASSUME NEW S, NEW t \in Seq(S), NEW p \in Seq(S), p # <<>>, NEW r \in Seq(S), NEW max \in Nat,
           NEW C \in SUBSET Matches(t, p), Leftmost(C, t, p, max),
           NEW f, Becomes(f, S, C, t, p, r),
           NEW q \in 1 .. Len(t) + 1, NEW w, ReplacedTo(q, w, f, C, t, p, max),
           NEW c \in C, q <= c, \A d \in C : q <= d => c <= d
    PROVE  /\ c + Len(p) \in q + 1 .. Len(t) + 1
           /\ ReplacedTo(c + Len(p), ReplaceNext(w, p, r), f, C, t, p, max)
<1> DEFINE n == Len(p)
           x == f[q - 1]
           u == x \o SubSeq(t, q, c - 1)
           z == SubSeq(t, c + n, Len(t))
           B == {d \in C : d < q}
<1>1. /\ n \in Nat \ {0} /\ Len(t) \in Nat /\ C \subseteq 1 .. Len(t)
      /\ IsFiniteSet(C) /\ Cardinality(C) \in Nat
  BY MatchesAreFinite
<1>2. c \in Matches(t, p) /\ c \in Nat /\ q \in Nat /\ c + n <= Len(t) + 1 /\ c >= 1 /\ q >= 1
  BY <1>1 DEF Matches
<1>3. c + n \in q + 1 .. Len(t) + 1
  BY <1>1, <1>2
<1>4. /\ w.data = Continued(x, t, q) /\ w.from = Len(x) + 1 /\ w.left = max - Cardinality(B)
      /\ \A d \in C : d < q => d + n <= q
      /\ Cardinality(C) <= max /\ \A d, e \in C : d < e => d + n <= e
  BY DEF ReplacedTo, Leftmost
<1>5. x \in Seq(S) /\ Len(x) \in Nat
  <2>1. f \in [0 .. Len(t) -> Seq(S)] /\ q - 1 \in 0 .. Len(t)
    BY <1>1, <1>2 DEF Becomes
  <2>2. x \in Seq(S)
    BY <2>1
  <2> QED BY <2>2, LenProperties
(* The search finds c, as no other match is before it.                     *)
<1>6. \A i \in Matches(t, p) : q <= i => c <= i
  <2>1. SUFFICES ASSUME NEW i \in Matches(t, p), q <= i, i < c PROVE FALSE
    BY <1>1, <1>2 DEF Matches
  <2>2. i \in Nat
    BY <1>1 DEF Matches
  <2>3. \A d \in C : q <= d => i < d
    BY <1>1, <1>2, <2>1, <2>2
  <2>4. \A d \in C : d < q
    BY <1>4, <2>1, <2>3, NoneBetween
  <2> QED BY <1>2, <2>4
<1>7. Search(p, w.data, w.from) = Len(x) + (c - q) + 1
  <2> HIDE DEF x
  <2> QED BY <1>2, <1>4, <1>5, <1>6, SearchFinds
<1>8. u \in Seq(S) /\ z \in Seq(S) /\ Len(u) = Len(x) + (c - q) /\ w.data = (u \o p) \o z
  <2> HIDE DEF x
  <2>1. t \in Seq(S) /\ p \in Seq(S) /\ p # <<>> /\ x \in Seq(S) /\ q \in 1 .. Len(t) + 1
        /\ c \in Matches(t, p) /\ q <= c
    BY <1>2, <1>5
  <2>2. SplitAt(S, x, t, q, c, Len(p), p)
    BY <2>1, SplitAtMatch, ZenonT(60)
  <2> QED BY <2>2, <1>4 DEF SplitAt
(* One more may be replaced, and is.                                       *)
<1>9. IsFiniteSet(B) /\ Cardinality(B) \in Nat /\ Cardinality(B) < max
  <2>1. B \in SUBSET C /\ B # C
    BY <1>2
  <2> HIDE DEF B
  <2>2. IsFiniteSet(B) /\ Cardinality(B) <= Cardinality(C) /\ Cardinality(C) # Cardinality(B)
    BY <1>1, <2>1, FS_Subset
  <2>3. Cardinality(B) \in Nat
    BY <2>2, FS_CardinalityType
  <2> QED BY <1>1, <1>4, <2>2, <2>3
<1>10. ReplaceNext(w, p, r) = [data |-> (u \o r) \o z, from |-> Len(u) + 1 + Len(r), left |-> w.left - 1]
  <2> HIDE DEF x, u, z, B
  <2>1. Splice(w.data, Len(u) + 1, n, r) = (u \o r) \o z
    <3>1. Spliced(u, p, z, r)
      BY <1>8, SpliceBetween, ZenonT(60)
    <3> QED BY <1>8, <3>1 DEF Spliced
  <2>2. w.left # 0
    BY <1>4, <1>9
  <2>3. Len(u) + 1 # 0 /\ Len(u) + 1 = Len(x) + (c - q) + 1
    <3>1. Len(u) = Len(x) + (c - q) /\ Len(x) \in Nat /\ c \in Nat /\ q \in Nat /\ q <= c
      BY <1>2, <1>5, <1>8
    <3> QED BY <3>1
  <2>4. Search(p, w.data, w.from) = Len(u) + 1
    BY <1>7, <2>3, Zenon
  <2> QED BY <2>1, <2>2, <2>3, <2>4 DEF ReplaceNext
<1>11. f[c + n - 1] = u \o r
  <2>1. BecomesAt(f, t, q, c, Len(p), r)
    BY <1>4, BecomesAtMatch, ZenonT(60)
  <2> QED BY <2>1 DEF BecomesAt
<1>12. Continued(f[c + n - 1], t, c + n) = (u \o r) \o z /\ Len(f[c + n - 1]) + 1 = Len(u) + 1 + Len(r)
  <2> HIDE DEF u
  <2>1. Len(u \o r) = Len(u) + Len(r) /\ Len(u) \in Nat /\ Len(r) \in Nat
    <3>1. u \in Seq(S) /\ r \in Seq(S)
      BY <1>8
    <3> QED BY <3>1, ConcatProperties, LenProperties
  <2> QED BY <1>11, <2>1 DEF Continued
<1>13. /\ Cardinality({d \in C : d < c + n}) = Cardinality(B) + 1
       /\ \A d \in C : d < c + n => d + n <= c + n
  <2>1. ASSUME NEW d \in C, d < c + n PROVE d < q \/ d = c
    <3>1. d \in Nat /\ ~ (c < d)
      BY <1>1, <1>2, <1>4, <2>1
    <3> QED BY <1>2, <3>1
  <2>2. {d \in C : d < c + n} = B \cup {c}
    <3>1. ASSUME NEW d \in C, d < q PROVE d < c + n
      <4>1. d \in Nat
        BY <1>1
      <4> QED BY <1>1, <1>2, <3>1, <4>1
    <3>2. c < c + n
      BY <1>1, <1>2
    <3> QED BY <2>1, <3>1, <3>2, Zenon
  <2>3. c \notin B
    BY <1>2
  <2>4. Cardinality(B \cup {c}) = Cardinality(B) + 1
    <3> HIDE DEF B
    <3> QED BY <1>9, <2>3, FS_AddElement
  <2>5. ASSUME NEW d \in C, d < c + n PROVE d + n <= c + n
    <3>1. d \in Nat
      BY <1>1
    <3> QED BY <1>1, <1>2, <1>4, <2>1, <2>5, <3>1
  <2> QED BY <2>2, <2>4, <2>5
<1>14. w.left - 1 = max - (Cardinality(B) + 1)
  BY <1>4, <1>9
<1> HIDE DEF x, u, z, B
<1>15. ReplacedTo(c + n, ReplaceNext(w, p, r), f, C, t, p, max)
  <2>1. ReplaceNext(w, p, r) = [data |-> Continued(f[c + n - 1], t, c + n), from |-> Len(f[c + n - 1]) + 1,
                                left |-> max - Cardinality({d \in C : d < c + n})]
    BY <1>10, <1>12, <1>13, <1>14, Zenon
  <2> HIDE DEF n
  <2>2. \A d \in C : d < c + n => d + Len(p) <= c + n
    BY <1>13 DEF n
  <2>3. ASSUME NEW v, v = ReplaceNext(w, p, r), NEW k, k = c + n
        PROVE  ReplacedTo(k, v, f, C, t, p, max)
    <3>1. v = [data |-> Continued(f[k - 1], t, k), from |-> Len(f[k - 1]) + 1,
               left |-> max - Cardinality({d \in C : d < k})]
      <4>1. {d \in C : d < k} = {d \in C : d < c + n}
        BY <2>3
      <4>2. k - 1 = c + n - 1
        BY <1>1, <1>2, <2>3
      <4>3. f[k - 1] = f[c + n - 1]
        BY <4>2
      <4>4. Continued(f[k - 1], t, k) = Continued(f[c + n - 1], t, c + n)
        BY <4>3, <2>3
      <4>5. Cardinality({d \in C : d < k}) = Cardinality({d \in C : d < c + n})
        BY <4>1
      <4> QED BY <2>1, <2>3, <4>3, <4>4, <4>5
    <3>2. \A d \in C : d < k => d + Len(p) <= k
      BY <2>2, <2>3
    <3> QED BY <3>1, <3>2, ZenonT(40) DEF ReplacedTo
  <2> QED BY <2>3
<1> QED BY <1>3, <1>15

(* A turn when no chosen match is left: the state stays as it is, as       *)
(* nothing is found, or as max have been replaced.                         *)
LEMMA TurnWithoutMatch ==
    ASSUME NEW S, NEW t \in Seq(S), NEW p \in Seq(S), p # <<>>, NEW r \in Seq(S), NEW max \in Nat,
           NEW C \in SUBSET Matches(t, p), Leftmost(C, t, p, max),
           NEW f, Becomes(f, S, C, t, p, r),
           NEW q \in 1 .. Len(t) + 1, NEW w, ReplacedTo(q, w, f, C, t, p, max),
           \A c \in C : c < q
    PROVE  ReplaceNext(w, p, r) = w
<1> DEFINE x == f[q - 1]
<1>1. /\ Len(t) \in Nat /\ C \subseteq 1 .. Len(t) /\ Matches(t, p) \subseteq 1 .. Len(t)
      /\ IsFiniteSet(C) /\ Cardinality(C) \in Nat
  <2>1. Matches(t, p) \in SUBSET Matches(t, p)
    OBVIOUS
  <2> QED BY <2>1, MatchesAreFinite
<1>2. /\ w.data = Continued(x, t, q) /\ w.from = Len(x) + 1 /\ w.left = max - Cardinality({d \in C : d < q})
      /\ \A d \in C : d < q => d + Len(p) <= q
  BY DEF ReplacedTo
<1>3. x \in Seq(S)
  <2>1. f \in [0 .. Len(t) -> Seq(S)] /\ q - 1 \in 0 .. Len(t)
    BY <1>1 DEF Becomes
  <2> QED BY <2>1
<1> HIDE DEF x
<1>4. w.left = 0 \/ Search(p, w.data, w.from) = 0
  <2>1. CASE \E i \in Matches(t, p) : q <= i
    <3>1. PICK i \in Matches(t, p) : q <= i
      BY <2>1
    <3>2. q \in Nat /\ \A c \in C : c \in Nat /\ ~ (q <= c)
      BY <1>1
    <3>3. \A c \in C : q <= c => i < c
      BY <3>2
    <3>4. Cardinality(C) = max
      BY <1>2, <3>1, <3>3, NoneBetween
    <3>5. {d \in C : d < q} = C
      OBVIOUS
    <3>6. w.left = max - Cardinality(C)
      BY <1>2, <3>5, Zenon
    <3>7. w.left = 0
      BY <3>4, <3>6
    <3> QED BY <3>7
  <2>2. CASE \A i \in Matches(t, p) : ~ (q <= i)
    <3>1. \A i \in Matches(t, p) : i < q
      BY <1>1, <2>2
    <3>2. Search(p, Continued(x, t, q), Len(x) + 1) = 0
      BY <1>3, <3>1, SearchFails, ZenonT(60)
    <3> QED BY <1>2, <3>2
  <2> QED BY <2>1, <2>2
<1> QED BY <1>4 DEF ReplaceNext

(* Before the first turn nothing is done.                                  *)
LEMMA BeforeTheFirst ==
    ASSUME NEW S, NEW t \in Seq(S), NEW p \in Seq(S), p # <<>>, NEW r, NEW max \in Nat,
           NEW C \in SUBSET Matches(t, p), NEW f, Becomes(f, S, C, t, p, r)
    PROVE  ReplacedTo(1, [data |-> t, from |-> 1, left |-> max], f, C, t, p, max)
<1>1. Len(t) \in Nat /\ C \subseteq 1 .. Len(t)
  BY MatchesAreFinite
<1>2. f[1 - 1] = <<>> /\ Len(<<>>) + 1 = 1
  BY EmptySeq DEF Becomes
<1>3. Continued(<<>>, t, 1) = t
  <2>1. SubSeq(t, 1, Len(t)) = t
    BY SubSeqFull
  <2> QED BY <2>1, ConcatEmptySeq DEF Continued
<1>4. {d \in C : d < 1} = {} /\ \A d \in C : ~ (d < 1)
  <2>1. ASSUME NEW d \in C PROVE ~ (d < 1)
    <3>1. d \in 1 .. Len(t)
      BY <1>1
    <3> QED BY <3>1
  <2> QED BY <2>1, Zenon
<1>5. max - Cardinality({d \in C : d < 1}) = max
  <2>1. Cardinality({d \in C : d < 1}) = 0
    BY <1>4, FS_EmptySet, Zenon
  <2> QED BY <2>1
<1> QED BY <1>2, <1>3, <1>4, <1>5, ZenonT(60) DEF ReplacedTo

(* Behind the last match the rest of the text is copied.                   *)
LEMMA BehindTheLast ==
    ASSUME NEW S, NEW t \in Seq(S), NEW p \in Seq(S), p # <<>>, NEW r, NEW max \in Nat,
           NEW C \in SUBSET Matches(t, p), NEW f, Becomes(f, S, C, t, p, r),
           NEW q \in 1 .. Len(t) + 1, NEW w, ReplacedTo(q, w, f, C, t, p, max),
           \A c \in C : c < q
    PROVE  w.data = f[Len(t)]
<1> DEFINE n == Len(p)
<1>1. n \in Nat \ {0} /\ Len(t) \in Nat /\ C \subseteq 1 .. Len(t)
  BY MatchesAreFinite
<1>2. w.data = Continued(f[q - 1], t, q) /\ \A d \in C : d < q => d + n <= q
  BY DEF ReplacedTo
<1>3. /\ f \in [0 .. Len(t) -> Seq(S)]
      /\ \A i \in 1 .. Len(t) : f[i] = f[i - 1] \o Pieces(C, t, p, r)[i]
  BY DEF Becomes
<1>4. ASSUME NEW i \in q .. Len(t) PROVE f[i] = f[i - 1] \o <<t[i]>>
  <2>1. i \in 1 .. Len(t) /\ i \in DOMAIN t /\ i \notin C
    BY <1>1
  <2>2. ~ \E d \in C : d < i /\ i < d + n
    <3>1. SUFFICES ASSUME NEW d \in C, i < d + n PROVE FALSE
      OBVIOUS
    <3>2. d + n <= q
      BY <1>2
    <3> QED BY <1>1, <3>1, <3>2
  <2>3. Pieces(C, t, p, r)[i] = <<t[i]>>
    BY <2>1, <2>2 DEF Pieces
  <2> QED BY <1>3, <2>1, <2>3
<1>5. f[Len(t)] = f[q - 1] \o SubSeq(t, q, Len(t))
  <2> DEFINE b == Len(t) + 1
  <2>1. b \in q .. Len(t) + 1 /\ b - 1 = Len(t)
    BY <1>1
  <2>2. \A i \in q .. b - 1 : f[i] = f[i - 1] \o <<t[i]>>
    BY <1>4, <2>1
  <2> HIDE DEF b
  <2>3. f[b - 1] = f[q - 1] \o SubSeq(t, q, b - 1)
    BY <1>3, <2>1, <2>2, CopiedRun, ZenonT(60)
  <2> QED BY <2>1, <2>3
<1> QED BY <1>2, <1>5 DEF Continued

(* After k turns, k matches are behind, or all that were chosen.           *)
ReplacedUpTo(k, w, f, C, t, p, max) ==
    \E q \in 1 .. Len(t) + 1 :
        ReplacedTo(q, w, f, C, t, p, max) /\ (q > k \/ \A c \in C : c < q)
LEMMA OneTurn ==
    ASSUME NEW S, NEW t \in Seq(S), NEW p \in Seq(S), p # <<>>, NEW r \in Seq(S), NEW max \in Nat,
           NEW C \in SUBSET Matches(t, p), Leftmost(C, t, p, max),
           NEW f, Becomes(f, S, C, t, p, r),
           NEW k \in Nat, NEW w, ReplacedUpTo(k, w, f, C, t, p, max)
    PROVE  ReplacedUpTo(k + 1, ReplaceNext(w, p, r), f, C, t, p, max)
<1>1. PICK q \in 1 .. Len(t) + 1 :
          ReplacedTo(q, w, f, C, t, p, max) /\ (q > k \/ \A c \in C : c < q)
  BY DEF ReplacedUpTo
<1>2. Len(t) \in Nat /\ q \in Nat /\ \A c \in C : c \in Nat
  <2>1. Len(t) \in Nat /\ C \subseteq 1 .. Len(t)
    BY MatchesAreFinite
  <2>2. \A c \in C : c \in 1 .. Len(t)
    BY <2>1, Zenon
  <2>3. \A c \in C : c \in Nat
    BY <2>2
  <2> QED BY <2>1, <2>3
<1>3. CASE \A c \in C : c < q
  <2>1. ReplaceNext(w, p, r) = w
    BY <1>1, <1>3, TurnWithoutMatch
  <2> QED BY <1>1, <1>3, <2>1 DEF ReplacedUpTo
<1>4. CASE \E c \in C : ~ (c < q)
  <2> DEFINE D == {c \in C : q <= c}
  <2>1. D \subseteq Nat
    BY <1>2, Zenon
  <2>7. D # {}
    <3>1. PICK c \in C : ~ (c < q)
      BY <1>4
    <3>2. q <= c
      BY <1>2, <3>1
    <3> QED BY <3>1, <3>2, Zenon
  <2>2. PICK c \in D : \A d \in D : c <= d
    BY <2>1, <2>7, MinExists
  <2>3. c \in C /\ q <= c /\ \A d \in C : q <= d => c <= d
    BY <2>2
  <2>4. /\ c + Len(p) \in q + 1 .. Len(t) + 1
        /\ ReplacedTo(c + Len(p), ReplaceNext(w, p, r), f, C, t, p, max)
    BY <1>1, <2>3, TurnAtMatch, ZenonT(60)
  <2>5. q > k
    BY <1>1, <1>4
  <2>6. c + Len(p) > k + 1 /\ c + Len(p) \in 1 .. Len(t) + 1
    BY <1>2, <2>4, <2>5
  <2> QED BY <2>4, <2>6, ZenonT(60) DEF ReplacedUpTo
<1> QED BY <1>3, <1>4

(* The greatest of some of the first naturals is one of them.              *)
LEMMA MaxOfSome ==
    ASSUME NEW n \in Nat, NEW s \in SUBSET (1 .. n), s # {}
    PROVE  Max(s) \in s /\ Max(s) \in 1 .. n /\ s \ {Max(s)} \in SUBSET (1 .. n)
<1>1. s \subseteq 0 .. n
  OBVIOUS
<1>2. Max(s) \in s
  BY <1>1, MaxExists
<1> QED BY <1>2

(* What the loop holds has a type.                                         *)
Turns(S) == [data : Seq(S), from : Nat \ {0}, left : Nat]
LEMMA TurnType ==
    ASSUME NEW S, NEW p \in Seq(S), NEW r \in Seq(S), NEW w \in Turns(S)
    PROVE  ReplaceNext(w, p, r) \in Turns(S)
<1> DEFINE at == Search(p, w.data, w.from)
<1>1. /\ w.data \in Seq(S) /\ w.from \in Nat \ {0} /\ w.left \in Nat
      /\ Len(w.data) \in Nat /\ Len(p) \in Nat /\ Len(r) \in Nat
  BY DEF Turns
<1>2. CASE at = 0 \/ w.left = 0
  BY <1>2 DEF ReplaceNext
<1>3. CASE ~ (at = 0 \/ w.left = 0)
  <2>1. at \in Nat \ {0} /\ at + Len(p) <= Len(w.data) + 1
    <3>1. Found(p, w.data, w.from) # {} /\ at = Min(Found(p, w.data, w.from))
      BY <1>3, SearchIsFirst
    <3>2. Found(p, w.data, w.from) \subseteq Nat \ {0}
      BY <1>1 DEF Found
    <3>3. at \in Found(p, w.data, w.from)
      <4> DEFINE A == Found(p, w.data, w.from)
      <4>1. A \subseteq Nat /\ A # {} /\ at = Min(A)
        BY <3>1, <3>2
      <4> HIDE DEF A, at
      <4>2. PICK y \in A : \A z \in A : y <= z
        BY <4>1, MinExists
      <4>3. Min(A) = y
        BY <4>1, <4>2, MinOf
      <4> QED BY <4>1, <4>2, <4>3 DEF A
    <3> QED BY <1>1, <3>2, <3>3 DEF Found
  <2> HIDE DEF at
  <2>2. Splice(w.data, at, Len(p), r) \in Seq(S)
    <3>1. SubSeq(w.data, 1, at - 1) \in Seq(S)
      <4>1. 1 \in 1 .. Len(w.data) + 1 /\ at - 1 \in 1 - 1 .. Len(w.data)
        BY <1>1, <2>1
      <4> QED BY <1>1, <4>1, PartType
    <3>2. SubSeq(w.data, at + Len(p), Len(w.data)) \in Seq(S)
      <4>1. at + Len(p) \in 1 .. Len(w.data) + 1 /\ Len(w.data) \in (at + Len(p)) - 1 .. Len(w.data)
        BY <1>1, <2>1
      <4> QED BY <1>1, <4>1, PartType
    <3> QED BY <3>1, <3>2, ConcatProperties DEF Splice
  <2>3. at + Len(r) \in Nat \ {0} /\ w.left - 1 \in Nat
    BY <1>1, <1>3, <2>1
  <2>4. ReplaceNext(w, p, r) = [data |-> Splice(w.data, at, Len(p), r), from |-> at + Len(r), left |-> w.left - 1]
    BY <1>3 DEF ReplaceNext, at
  <2> QED BY <2>2, <2>3, <2>4 DEF Turns
<1> QED BY <1>2, <1>3

(* The loop of replace_in_vec, turn by turn.                               *)
TurnByTurn(w, t, p, r, max, start) ==
    /\ w[0] = start
    /\ \A k \in 1 .. Len(t) : w[k] = ReplaceNext(w[k - 1], p, r)
    /\ ReplaceInVec(t, p, r, max) = w[Len(t)].data
LEMMA TurnsRun ==
    ASSUME NEW S, NEW t \in Seq(S), NEW p \in Seq(S), NEW r \in Seq(S), NEW max,
           NEW start \in Turns(S), start = [data |-> t, from |-> 1, left |-> Max({1, Or(max, Len(t))})]
    PROVE  \E w : TurnByTurn(w, t, p, r, max, start)
<1> DEFINE n == Len(t)
           V == Turns(S)
           turn(v) == CHOOSE next \in {ReplaceNext(u, p, r) : u \in {v}} : TRUE
           step == [v \in V \X (1 .. n) |-> ReplaceNext(v[1], p, r)]
           body(g) == [s \in SUBSET (1 .. n) |-> IF s = {} THEN start ELSE turn(g[s \ {Max(s)}])]
           F == CHOOSE g : g = body(g)
<1>1. n \in Nat /\ DOMAIN t = 1 .. n
  OBVIOUS
<1>2. \A v : turn(v) = ReplaceNext(v, p, r)
  <2>1. ASSUME NEW v PROVE {ReplaceNext(u, p, r) : u \in {v}} = {ReplaceNext(v, p, r)}
    OBVIOUS
  <2> QED BY <2>1
<1> HIDE DEF n, turn
<1>3. F = body(F)
  <2>1. step \in [V \X (1 .. n) -> V]
    BY TurnType
  <2> HIDE DEF step
  <2>2. PICK g \in [SUBSET (1 .. n) -> V] : FoldsUp(g, n, start, step)
    <3> HIDE DEF V, body
    <3>1. start \in V
      BY DEF V
    <3> QED BY <1>1, <2>1, <3>1, FoldSteps
  <2>3. ASSUME NEW s \in SUBSET (1 .. n), s # {}
        PROVE  step[<<g[s \ {Max(s)}], Max(s)>>] = turn(g[s \ {Max(s)}])
    <3>1. Max(s) \in 1 .. n /\ g[s \ {Max(s)}] \in V
      BY <1>1, <2>3, <2>2, MaxOfSome
    <3> QED BY <1>2, <3>1 DEF step
  <2>4. g = body(g)
    BY <2>2, <2>3 DEF FoldsUp
  <2> HIDE DEF body
  <2> QED BY <2>4, Zenon DEF F
<1>4. ReplaceInVec(t, p, r, max) = F[1 .. n].data
  <2>1. ReplaceInVec(t, p, r, max) = FoldLeft(LAMBDA v, u : turn(v), start, t).data
    BY Zenon DEF ReplaceInVec, turn
  <2>2. FoldLeft(LAMBDA v, u : turn(v), start, t) = F[1 .. n]
    BY <1>1, Zenon DEF FoldLeft, MapThenFoldSet, F, body
  <2> QED BY <2>1, <2>2
<1> HIDE DEF F
<1>5. F[{}] = start
  BY <1>3
<1>6. ASSUME NEW k \in 1 .. n PROVE F[1 .. k] = ReplaceNext(F[1 .. k - 1], p, r)
  <2>1. 1 .. k \in SUBSET (1 .. n) /\ 1 .. k # {} /\ (1 .. k) \ {k} = 1 .. k - 1 /\ k \in Nat \ {0}
    <3>1. k \in Nat \ {0}
      BY <1>1
    <3>2. 1 .. k \in SUBSET (1 .. n)
      BY <1>1
    <3>3. (1 .. k) \ {k} = 1 .. k - 1 /\ k \in 1 .. k
      BY <3>1
    <3> QED BY <3>1, <3>2, <3>3
  <2>2. Max(1 .. k) = k
    BY <2>1, MaxUpTo
  <2> QED BY <1>2, <1>3, <2>1, <2>2
<1> DEFINE w == [k \in 0 .. n |-> F[1 .. k]]
<1>7. w[0] = start /\ w[n] = F[1 .. n]
  <2>1. 1 .. 0 = {} /\ 0 \in 0 .. n /\ n \in 0 .. n
    BY <1>1
  <2> QED BY <1>5, <2>1
<1>8. ASSUME NEW k \in 1 .. n PROVE w[k] = ReplaceNext(w[k - 1], p, r)
  <2>1. k \in 0 .. n /\ k - 1 \in 0 .. n
    BY <1>1
  <2> QED BY <1>6, <2>1
<1> HIDE DEF w
<1> QED BY <1>4, <1>7, <1>8 DEF n, TurnByTurn

(* What it comes to, when the text is not empty.                           *)
LEMMA LoopReplaces ==
    ASSUME NEW S, NEW t \in Seq(S), NEW p \in Seq(S), p # <<>>, NEW r \in Seq(S), NEW max \in Nat,
           NEW C \in SUBSET Matches(t, p), Leftmost(C, t, p, max),
           NEW f, Becomes(f, S, C, t, p, r),
           NEW w, w[0] = [data |-> t, from |-> 1, left |-> max],
           \A k \in 1 .. Len(t) : w[k] = ReplaceNext(w[k - 1], p, r)
    PROVE  w[Len(t)].data = f[Len(t)]
<1> DEFINE n == Len(t)
           P == {k \in 0 .. n : ReplacedUpTo(k, w[k], f, C, t, p, max)}
<1>1. n \in Nat
  OBVIOUS
<1>2. C \subseteq 1 .. n
  BY MatchesAreFinite
<1>3. 0 \in P
  <2>1. ReplacedTo(1, w[0], f, C, t, p, max)
    <3>1. ReplacedTo(1, [data |-> t, from |-> 1, left |-> max], f, C, t, p, max)
      BY BeforeTheFirst
    <3> QED BY <3>1, Zenon
  <2>2. 1 \in 1 .. Len(t) + 1 /\ 1 > 0 /\ 0 \in 0 .. n
    BY <1>1
  <2>3. ReplacedUpTo(0, w[0], f, C, t, p, max)
    BY <2>1, <2>2, ZenonT(60) DEF ReplacedUpTo
  <2> QED BY <2>2, <2>3
<1>4. ASSUME NEW k \in 0 .. n - 1, k \in P PROVE k + 1 \in P
  <2>1. k \in Nat /\ k + 1 \in 0 .. n /\ k + 1 \in 1 .. Len(t) /\ (k + 1) - 1 = k
    BY <1>1
  <2>2. ReplacedUpTo(k, w[k], f, C, t, p, max)
    BY <1>4
  <2>3. ReplacedUpTo(k + 1, ReplaceNext(w[k], p, r), f, C, t, p, max)
    <3> DEFINE v == w[k]
    <3>1. ReplacedUpTo(k, v, f, C, t, p, max)
      BY <2>2
    <3> HIDE DEF v
    <3>2. ReplacedUpTo(k + 1, ReplaceNext(v, p, r), f, C, t, p, max)
      BY <2>1, <3>1, OneTurn, ZenonT(60)
    <3> QED BY <3>2 DEF v
  <2>4. w[k + 1] = ReplaceNext(w[k], p, r)
    <3>1. w[k + 1] = ReplaceNext(w[(k + 1) - 1], p, r)
      BY <2>1, Zenon
    <3> QED BY <2>1, <3>1
  <2> QED BY <2>1, <2>3, <2>4
<1>5. ReplacedUpTo(n, w[n], f, C, t, p, max)
  <2> HIDE DEF n
  <2>1. 0 .. n \subseteq P
    <3> HIDE DEF P
    <3>1. \A k \in 0 .. n - 1 : k \in P => k + 1 \in P
      BY <1>4
    <3> QED BY <1>1, <1>3, <3>1, UpTo, ZenonT(60)
  <2>2. n \in 0 .. n
    BY <1>1
  <2> QED BY <2>1, <2>2
<1>6. PICK q \in 1 .. Len(t) + 1 :
          ReplacedTo(q, w[n], f, C, t, p, max) /\ (q > n \/ \A c \in C : c < q)
  BY <1>5 DEF ReplacedUpTo
<1>7. \A c \in C : c < q
  <2>1. ASSUME NEW c \in C, q > n PROVE c < q
    <3>1. c \in 1 .. n /\ q \in Nat
      BY <1>1, <1>2
    <3> QED BY <1>1, <2>1, <3>1
  <2> QED BY <1>6, <2>1
<1>8. ReplacedTo(q, w[n], f, C, t, p, max)
  BY <1>6
<1> DEFINE v == w[n]
<1>9. ReplacedTo(q, v, f, C, t, p, max)
  BY <1>8
<1> HIDE DEF v, P
<1>10. v.data = f[Len(t)]
  BY <1>7, <1>9, BehindTheLast
<1> QED BY <1>10 DEF v

(* The pieces, put together.                                               *)
LEMMA PiecesJoin ==
    ASSUME NEW S, NEW t \in Seq(S), t # <<>>, NEW p, NEW r \in Seq(S), NEW C
    PROVE  \E f : Becomes(f, S, C, t, p, r) /\ FlattenSeq(Pieces(C, t, p, r)) = f[Len(t)]
<1> DEFINE s == Pieces(C, t, p, r)
           n == Len(t)
<1>1. n \in Nat \ {0} /\ DOMAIN t = 1 .. n
  BY EmptySeq
<1>2. s \in [1 .. n -> Seq(S)]
  <2>1. ASSUME NEW i \in 1 .. n PROVE <<t[i]>> \in Seq(S)
    <3>1. t[i] \in S
      BY ElementOfSeq
    <3> QED BY <3>1
  <2>2. <<>> \in Seq(S)
    BY EmptySeq
  <2> QED BY <1>1, <2>1, <2>2 DEF Pieces
<1>3. s \in Seq(Seq(S)) /\ Len(s) = n /\ s # <<>>
  <2> HIDE DEF s, n
  <2>1. s \in Seq(Seq(S)) /\ Len(s) = n
    BY <1>1, <1>2, SeqDef
  <2> QED BY <1>1, <2>1, EmptySeq
<1> HIDE DEF s
<1>4. PICK f \in [0 .. n -> Seq(S)] : f[0] = <<>> /\ \A i \in 1 .. n : f[i] = f[i - 1] \o s[i]
  <2> HIDE DEF n
  <2>1. \E f \in [0 .. n -> Seq(S)] : PutTogether(f, n, s)
    BY <1>1, <1>2, PartsConcat
  <2> QED BY <2>1 DEF PutTogether
<1>5. FlattenSeq(s) = f[n]
  <2> HIDE DEF n
  <2> QED BY <1>3, <1>4, Flatten
<1>6. Becomes(f, S, C, t, p, r)
  BY <1>4, Zenon DEF Becomes, s
<1> QED BY <1>5, <1>6 DEF s

(* replace_in_vec replaces the leftmost matches that do not overlap, max   *)
(* of them at the most.                                                    *)
THEOREM ReplaceInVecReplaces ==
    ASSUME NEW S, NEW t \in Seq(S), NEW p \in Seq(S), p # <<>>, NEW r \in Seq(S),
           NEW max, max \in Nat \ {0} \/ max = None
    PROVE  /\ ReplaceInVec(t, p, r, max) = Replaced(t, p, r, Or(max, Len(t)))
           /\ ReplaceInVec(t, p, r, max) \in Seq(S)
<1> DEFINE m == Or(max, Len(t))
           left == Max({1, m})
           start == [data |-> t, from |-> 1, left |-> left]
           C == CHOOSE D \in SUBSET Matches(t, p) : Leftmost(D, t, p, m)
<1>1. Len(t) \in Nat /\ m \in Nat /\ (t # <<>> => m >= 1)
  BY EmptySeq DEF Or
<1> HIDE DEF m
<1>2. left \in Nat /\ (m >= 1 => left = m)
  <2>1. {1, m} \subseteq 0 .. m + 1 /\ {1, m} # {} /\ m + 1 \in Nat
    BY <1>1
  <2>2. Max({1, m}) \in {1, m} /\ \A y \in {1, m} : Max({1, m}) >= y
    BY <2>1, MaxExists
  <2> QED BY <1>1, <2>2
<1> HIDE DEF left
<1>3. PICK w : /\ w[0] = start
               /\ \A k \in 1 .. Len(t) : w[k] = ReplaceNext(w[k - 1], p, r)
               /\ ReplaceInVec(t, p, r, max) = w[Len(t)].data
  <2>1. start \in Turns(S)
    BY <1>2 DEF Turns
  <2>2. start = [data |-> t, from |-> 1, left |-> Max({1, Or(max, Len(t))})]
    BY DEF left, m
  <2> HIDE DEF start
  <2>3. \E w : TurnByTurn(w, t, p, r, max, start)
    BY <2>1, <2>2, TurnsRun
  <2> QED BY <2>3 DEF TurnByTurn
<1>4. C \in SUBSET Matches(t, p) /\ Leftmost(C, t, p, m)
  <2>1. \E D \in SUBSET Matches(t, p) : Leftmost(D, t, p, m)
    BY <1>1, LeftmostExists
  <2> QED BY <2>1, Zenon
<1>5. Replaced(t, p, r, m) = FlattenSeq(Pieces(C, t, p, r))
  BY Zenon DEF Replaced
<1> HIDE DEF C, start
<1>6. CASE t = <<>>
  <2>1. Len(t) = 0 /\ DOMAIN t = {}
    BY <1>6, EmptySeq
  <2>2. Pieces(C, t, p, r) = <<>>
    BY <2>1 DEF Pieces
  <2>3. FlattenSeq(Pieces(C, t, p, r)) = <<>>
    BY <2>2, Zenon DEF FlattenSeq
  <2>4. w[Len(t)].data = t
    BY <1>3, <2>1 DEF start
  <2> QED BY <1>3, <1>5, <1>6, <2>3, <2>4 DEF m
<1>7. CASE t # <<>>
  <2>1. PICK f : Becomes(f, S, C, t, p, r) /\ FlattenSeq(Pieces(C, t, p, r)) = f[Len(t)]
    BY <1>7, PiecesJoin
  <2>2. w[0] = [data |-> t, from |-> 1, left |-> m]
    BY <1>1, <1>2, <1>3, <1>7 DEF start
  <2>3. w[Len(t)].data = f[Len(t)]
    BY <1>1, <1>3, <1>4, <2>1, <2>2, LoopReplaces
  <2>4. f[Len(t)] \in Seq(S)
    <3>1. f \in [0 .. Len(t) -> Seq(S)] /\ Len(t) \in 0 .. Len(t)
      BY <1>1, <2>1 DEF Becomes
    <3> QED BY <3>1
  <2> QED BY <1>3, <1>5, <2>1, <2>3, <2>4 DEF m
<1> QED BY <1>6, <1>7

-----------------------------------------------------------------------------
(* The other edits of a page leave a text too: the white space is trimmed, *)
(* then the scripts go in, ...                                             *)
LEMMA TrimType == ASSUME NEW S, NEW t \in Seq(S) PROVE Trim(t) \in Seq(S)
<1> DEFINE A == {i \in DOMAIN t : t[i] # "\n"} \cup {0}
<1>1. Len(t) \in Nat /\ A \subseteq 0 .. Len(t) /\ A # {}
  OBVIOUS
<1> HIDE DEF A
<1>2. Max(A) \in 0 .. Len(t)
  BY <1>1, MaxExists
<1>3. SubSeq(t, 1, Max(A)) \in Seq(S)
  <2>1. 1 \in 1 .. Len(t) + 1 /\ Max(A) \in 1 - 1 .. Len(t)
    BY <1>1, <1>2
  <2> QED BY <2>1, PartType
<1> QED BY <1>3 DEF Trim, A

LEMMA ScriptType ==
    ASSUME NEW S, "</html>" \in S, NEW t \in Seq(S), NEW js \in S
    PROVE  WithScript(t, js) \in Seq(S)
<1>1. CASE t # <<>>
  <2>1. 1 \in 1 .. Len(t) + 1 /\ Len(t) - 1 \in 1 - 1 .. Len(t)
    BY <1>1, EmptySeq
  <2>2. Front(t) \in Seq(S)
    BY <2>1, PartType DEF Front
  <2>3. <<js, "</html>">> \in Seq(S)
    OBVIOUS
  <2>4. Front(t) \o <<js, "</html>">> \in Seq(S)
    BY <2>2, <2>3, ConcatProperties
  <2> QED BY <2>4 DEF WithScript
<1>2. CASE t = <<>>
  BY <1>2 DEF WithScript
<1> QED BY <1>1, <1>2

LEMMA ScriptsType ==
    ASSUME NEW S, "</html>" \in S, NEW t \in Seq(S), NEW js \in Seq(S)
    PROVE  FoldLeft(WithScript, t, js) \in Seq(S)
<1> DEFINE n == Len(js)
           step == [v \in Seq(S) \X (1 .. n) |-> WithScript(v[1], js[v[2]])]
           body(g) == [s \in SUBSET (1 .. n) |-> IF s = {} THEN t ELSE WithScript(g[s \ {Max(s)}], js[Max(s)])]
           F == CHOOSE g : g = body(g)
<1>1. n \in Nat /\ DOMAIN js = 1 .. n /\ \A i \in 1 .. n : js[i] \in S
  BY ElementOfSeq
<1> HIDE DEF n
<1>2. F = body(F)
  <2>1. step \in [Seq(S) \X (1 .. n) -> Seq(S)]
    BY <1>1, ScriptType
  <2> HIDE DEF step
  <2>2. PICK g \in [SUBSET (1 .. n) -> Seq(S)] : FoldsUp(g, n, t, step)
    <3> HIDE DEF body
    <3> QED BY <1>1, <2>1, FoldSteps
  <2>3. ASSUME NEW s \in SUBSET (1 .. n), s # {}
        PROVE  step[<<g[s \ {Max(s)}], Max(s)>>] = WithScript(g[s \ {Max(s)}], js[Max(s)])
    <3>1. Max(s) \in 1 .. n /\ g[s \ {Max(s)}] \in Seq(S)
      BY <1>1, <2>3, <2>2, MaxOfSome
    <3> QED BY <3>1 DEF step
  <2>4. g = body(g)
    BY <2>2, <2>3 DEF FoldsUp
  <2> HIDE DEF body
  <2> QED BY <2>4, Zenon DEF F
<1>3. FoldLeft(WithScript, t, js) = F[1 .. n]
  BY <1>1, Zenon DEF FoldLeft, MapThenFoldSet, F, body
<1> HIDE DEF F
<1> DEFINE P == {k \in 0 .. n : F[1 .. k] \in Seq(S)}
<1>4. 0 \in P
  <2>1. 1 .. 0 = {} /\ 0 \in 0 .. n
    BY <1>1
  <2> QED BY <1>2, <2>1
<1>5. ASSUME NEW k \in 0 .. n - 1, k \in P PROVE k + 1 \in P
  <2>1. k + 1 \in Nat \ {0} /\ k + 1 \in 0 .. n /\ k + 1 \in 1 .. n
    BY <1>1
  <2>2. 1 .. k + 1 \in SUBSET (1 .. n) /\ 1 .. k + 1 # {} /\ (1 .. k + 1) \ {k + 1} = 1 .. k
    <3>1. 1 .. k + 1 \in SUBSET (1 .. n)
      BY <1>1, <2>1
    <3>2. k + 1 \in 1 .. k + 1
      BY <2>1
    <3>3. (1 .. k + 1) \ {k + 1} = 1 .. k
      BY <2>1
    <3> QED BY <3>1, <3>2, <3>3
  <2>3. Max(1 .. k + 1) = k + 1
    BY <2>1, MaxUpTo
  <2>4. F[1 .. k + 1] = WithScript(F[1 .. k], js[k + 1])
    BY <1>2, <2>2, <2>3
  <2>5. F[1 .. k] \in Seq(S)
    BY <1>5
  <2>6. F[1 .. k + 1] \in Seq(S)
    BY <1>1, <2>1, <2>4, <2>5, ScriptType
  <2> QED BY <2>1, <2>6
<1>6. n \in P
  <2> HIDE DEF P
  <2>1. 0 .. n \subseteq P
    BY <1>1, <1>4, <1>5, UpTo
  <2> QED BY <1>1, <2>1
<1> QED BY <1>3, <1>6

(* ...the style sheets, ...                                                *)
LEMMA StyleType ==
    ASSUME NEW S, NEW t \in Seq(S), NEW css \in S
    PROVE  WithStyle(t, css) \in Seq(S)
<1> DEFINE p == <<"</head>">>
           at == Search(p, t, 1)
           A == Found(p, t, 1)
<1>1. CASE at = 0
  BY <1>1 DEF WithStyle
<1>2. CASE at # 0
  <2>1. A # {} /\ at = Min(A)
    BY <1>2, SearchIsFirst
  <2>2. A \subseteq 1 .. Len(t) /\ Len(t) \in Nat
    <3>1. Len(p) = 1 /\ Len(t) \in Nat
      OBVIOUS
    <3> HIDE DEF p
    <3> QED BY <3>1 DEF Found
  <2> HIDE DEF at, A
  <2>3. at \in 1 .. Len(t)
    <3>1. A \subseteq Nat
      BY <2>2
    <3>2. PICK y \in A : \A z \in A : y <= z
      BY <2>1, <3>1, MinExists
    <3>3. Min(A) = y
      BY <3>1, <3>2, MinOf
    <3> QED BY <2>1, <2>2, <3>2, <3>3
  <2>4. SubSeq(t, 1, at - 1) \in Seq(S)
    <3>1. 1 \in 1 .. Len(t) + 1 /\ at - 1 \in 1 - 1 .. Len(t)
      BY <2>2, <2>3
    <3> QED BY <3>1, PartType
  <2>5. SubSeq(t, at + 1, Len(t)) \in Seq(S)
    <3>1. at + 1 \in 1 .. Len(t) + 1 /\ Len(t) \in (at + 1) - 1 .. Len(t)
      BY <2>2, <2>3
    <3> QED BY <3>1, PartType
  <2>6. <<css>> \in Seq(S)
    OBVIOUS
  <2>7. Splice(t, at, 1, <<css>>) \in Seq(S)
    BY <2>4, <2>5, <2>6, ConcatProperties DEF Splice
  <2> QED BY <2>7 DEF WithStyle, at
<1> QED BY <1>1, <1>2
LEMMA StylesType ==
    ASSUME NEW S, NEW t \in Seq(S), NEW css \in Seq(S)
    PROVE  FoldLeft(WithStyle, t, css) \in Seq(S)
<1> DEFINE n == Len(css)
           step == [v \in Seq(S) \X (1 .. n) |-> WithStyle(v[1], css[v[2]])]
           body(g) == [s \in SUBSET (1 .. n) |-> IF s = {} THEN t ELSE WithStyle(g[s \ {Max(s)}], css[Max(s)])]
           F == CHOOSE g : g = body(g)
<1>1. n \in Nat /\ DOMAIN css = 1 .. n /\ \A i \in 1 .. n : css[i] \in S
  BY ElementOfSeq
<1> HIDE DEF n
<1>2. F = body(F)
  <2>1. step \in [Seq(S) \X (1 .. n) -> Seq(S)]
    BY <1>1, StyleType
  <2> HIDE DEF step
  <2>2. PICK g \in [SUBSET (1 .. n) -> Seq(S)] : FoldsUp(g, n, t, step)
    <3> HIDE DEF body
    <3> QED BY <1>1, <2>1, FoldSteps
  <2>3. ASSUME NEW s \in SUBSET (1 .. n), s # {}
        PROVE  step[<<g[s \ {Max(s)}], Max(s)>>] = WithStyle(g[s \ {Max(s)}], css[Max(s)])
    <3>1. Max(s) \in 1 .. n /\ g[s \ {Max(s)}] \in Seq(S)
      BY <1>1, <2>3, <2>2, MaxOfSome
    <3> QED BY <3>1 DEF step
  <2>4. g = body(g)
    BY <2>2, <2>3 DEF FoldsUp
  <2> HIDE DEF body
  <2> QED BY <2>4, Zenon DEF F
<1>3. FoldLeft(WithStyle, t, css) = F[1 .. n]
  BY <1>1, Zenon DEF FoldLeft, MapThenFoldSet, F, body
<1> HIDE DEF F
<1> DEFINE P == {k \in 0 .. n : F[1 .. k] \in Seq(S)}
<1>4. 0 \in P
  <2>1. 1 .. 0 = {} /\ 0 \in 0 .. n
    BY <1>1
  <2> QED BY <1>2, <2>1
<1>5. ASSUME NEW k \in 0 .. n - 1, k \in P PROVE k + 1 \in P
  <2>1. k + 1 \in Nat \ {0} /\ k + 1 \in 0 .. n /\ k + 1 \in 1 .. n
    BY <1>1
  <2>2. 1 .. k + 1 \in SUBSET (1 .. n) /\ 1 .. k + 1 # {} /\ (1 .. k + 1) \ {k + 1} = 1 .. k
    <3>1. 1 .. k + 1 \in SUBSET (1 .. n)
      BY <1>1, <2>1
    <3>2. k + 1 \in 1 .. k + 1
      BY <2>1
    <3>3. (1 .. k + 1) \ {k + 1} = 1 .. k
      BY <2>1
    <3> QED BY <3>1, <3>2, <3>3
  <2>3. Max(1 .. k + 1) = k + 1
    BY <2>1, MaxUpTo
  <2>4. F[1 .. k + 1] = WithStyle(F[1 .. k], css[k + 1])
    BY <1>2, <2>2, <2>3
  <2>5. F[1 .. k] \in Seq(S)
    BY <1>5
  <2>6. F[1 .. k + 1] \in Seq(S)
    BY <1>1, <2>1, <2>4, <2>5, StyleType
  <2> QED BY <2>1, <2>6
<1>6. n \in P
  <2> HIDE DEF P
  <2>1. 0 .. n \subseteq P
    BY <1>1, <1>4, <1>5, UpTo
  <2> QED BY <1>1, <2>1
<1> QED BY <1>3, <1>6

(* ...and the script that locks browsing.                                  *)
LEMMA InsertionsType ==
    ASSUME NEW S, NEW t \in Seq(S), NEW e,
           e.js \in Seq(Range(e.js)), e.css \in Seq(Range(e.css))
    PROVE  \E T : Insertions(t, e) \in Seq(T)
<1> DEFINE T == S \cup Range(e.js) \cup Range(e.css) \cup {"</html>", "lock_browsing.js"}
           js == e.js
           css == e.css
           scripted == FoldLeft(WithScript, Trim(t), js)
           styled == FoldLeft(WithStyle, scripted, css)
<1>1. t \in Seq(T) /\ js \in Seq(T) /\ css \in Seq(T) /\ "</html>" \in T /\ "lock_browsing.js" \in T
  OBVIOUS
<1> HIDE DEF T, js, css
<1>2. Trim(t) \in Seq(T)
  BY <1>1, TrimType
<1>3. scripted \in Seq(T)
  BY <1>1, <1>2, ScriptsType
<1> HIDE DEF scripted
<1>4. styled \in Seq(T)
  BY <1>1, <1>3, StylesType
<1> HIDE DEF styled
<1>5. WithScript(styled, "lock_browsing.js") \in Seq(T)
  BY <1>1, <1>4, ScriptType
<1>6. Insertions(t, e) \in {styled, WithScript(styled, "lock_browsing.js")}
  BY Zenon DEF Insertions, styled, scripted, js, css
<1> QED BY <1>4, <1>5, <1>6
=============================================================================
