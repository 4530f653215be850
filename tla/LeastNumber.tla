---------------------------- MODULE LeastNumber ----------------------------
(***************************************************************************)
(* The induction that the proofs about recursive functions rest on, stated *)
(* for sets: what fails for some number fails for a least one.  From it,   *)
(* what a recursive function on 0..n is, and the ends of a finite set.     *)
(***************************************************************************)
EXTENDS Integers, WellFoundedInduction, FiniteSetTheorems, TLAPS

NatLess == {s \in Nat \X Nat : s[1] < s[2]}

\* Every set of numbers has a least element.
LEMMA Least ==
    ASSUME NEW T, T \subseteq Nat, T # {}
    PROVE  \E x \in T : \A y \in T : x <= y
  <1>1. IsWellFoundedOn(NatLess, Nat)
    BY NatLessThanWellFounded DEF OpToRel, NatLess
  <1>2. PICK x \in T : \A y \in T : <<y, x>> \notin NatLess
    BY <1>1, WFMin
  <1>3. ASSUME NEW y \in T, y < x
        PROVE  <<y, x>> \in NatLess
    <2>1. <<y, x>> \in {s \in Nat \X Nat : s[1] < s[2]}
      BY <1>3
    <2>2. QED
      BY <2>1 DEF NatLess
  <1>4. \A y \in T : ~(y < x)
    BY <1>2, <1>3
  <1>5. QED
    BY <1>4

\* A set of numbers that has 0, and with each number the next, has them all.
LEMMA Upward ==
    ASSUME NEW n \in Nat, NEW G, 0 \in G, \A k \in 1..n : k - 1 \in G => k \in G
    PROVE  \A k \in 0..n : k \in G
  <1> DEFINE Out == {k \in 0..n : k \notin G}
  <1>1. Out \subseteq Nat
    OBVIOUS
  <1>2. ASSUME Out # {}
        PROVE  FALSE
    <2>1. PICK m \in Out : \A k \in Out : m <= k
      <3> HIDE DEF Out
      <3>1. QED
        BY <1>1, <1>2, Least
    <2>2. m \in 1..n /\ m - 1 \in 0..n /\ ~(m <= m - 1)
      BY <2>1
    <2>3. m - 1 \in G
      BY <2>1, <2>2
    <2>4. QED
      BY <2>1, <2>2, <2>3
  <1>3. QED
    BY <1>2

\* f is the table of base, step[base, 1], step[step[base, 1], 2], ...
Table(f, base, step, n) ==
    /\ f[0] = base
    /\ \A k \in 1..n : f[k] = step[<<f[k - 1], k>>]

\* There is a table of every length; its entries are what steps make.
LEMMA Recursion ==
    ASSUME NEW S, NEW base \in S, NEW n \in Nat, NEW step \in [S \X (1..n) -> S]
    PROVE  \E f \in [0..n -> S] : Table(f, base, step, n)
  <1> DEFINE Long == {m \in 0..n : \E f \in [0..m -> S] : Table(f, base, step, m)}
  <1>1. 0 \in Long
    <2>1. [k \in 0..0 |-> base] \in [0..0 -> S]
      OBVIOUS
    <2>2. Table([k \in 0..0 |-> base], base, step, 0)
      BY DEF Table
    <2>3. QED
      BY <2>1, <2>2
  <1>2. ASSUME NEW m \in 1..n, m - 1 \in Long
        PROVE  m \in Long
    <2>1. PICK f \in [0..m - 1 -> S] : Table(f, base, step, m - 1)
      BY <1>2
    <2> DEFINE next == step[<<f[m - 1], m>>]
               g == [k \in 0..m |-> IF k = m THEN next ELSE f[k]]
    <2>2. m - 1 \in 0..m - 1 /\ m \in 0..m
      BY <1>2
    <2>3. next \in S
      BY <2>2
    <2>4. g \in [0..m -> S]
      <3>1. \A k \in 0..m : k # m => k \in 0..m - 1
        BY <1>2
      <3> HIDE DEF next
      <3>2. QED
        BY <2>3, <3>1
    <2>5. g[0] = base
      BY <1>2, <2>1 DEF Table
    <2>6. ASSUME NEW k \in 1..m
          PROVE  g[k] = step[<<g[k - 1], k>>]
      <3>1. k - 1 \in 0..m /\ k - 1 # m /\ g[k - 1] = f[k - 1]
        BY <1>2
      <3>2. CASE k = m
        BY <2>2, <3>1, <3>2
      <3>3. CASE k # m
        <4>1. k \in 1..m - 1 /\ k \in 0..m
          BY <1>2, <3>3
        <4>2. f[k] = step[<<f[k - 1], k>>]
          BY <2>1, <4>1 DEF Table
        <4>3. g[k] = f[k]
          BY <3>3, <4>1
        <4>4. QED
          BY <3>1, <4>2, <4>3
      <3>4. QED
        BY <3>2, <3>3
    <2> HIDE DEF g, next
    <2>7. QED
      BY <1>2, <2>4, <2>5, <2>6 DEF Table
  <1>3. n \in Long
    <2> HIDE DEF Long
    <2>1. QED
      BY <1>1, <1>2, Upward
  <1>4. QED
    BY <1>3

\* Every finite set of integers that is not empty has a least element and a
\* greatest one.
LEMMA FiniteEnds ==
    ASSUME NEW S, IsFiniteSet(S), S \subseteq Int, S # {}
    PROVE  /\ \E x \in S : \A y \in S : x <= y
           /\ \E x \in S : \A y \in S : y <= x
  <1> DEFINE Ends(T) == /\ \E x \in T : \A y \in T : x <= y
                        /\ \E x \in T : \A y \in T : y <= x
             Good(k) == \A T \in SUBSET S : IsFiniteSet(T) /\ T # {} /\ Cardinality(T) = k
                                              => Ends(T)
             G == {k \in Nat : Good(k)}
  <1>1. Cardinality(S) \in Nat
    BY FS_CardinalityType
  <1>2. 0 \in G
    BY FS_EmptySet
  <1>3. ASSUME NEW k \in 1..Cardinality(S), k - 1 \in G
        PROVE  k \in G
    <2>1. ASSUME NEW T \in SUBSET S, IsFiniteSet(T), T # {}, Cardinality(T) = k
          PROVE  Ends(T)
      <3>1. PICK t \in T : TRUE
        BY <2>1
      <3> DEFINE U == T \ {t}
      <3>2. IsFiniteSet(U) /\ Cardinality(U) = k - 1 /\ U \in SUBSET S
        BY <2>1, <3>1, FS_RemoveElement
      <3>3. CASE U = {}
        <4>1. \A y \in T : y = t
          BY <3>3
        <4>2. t <= t
          BY <3>1
        <4>3. QED
          BY <3>1, <4>1, <4>2
      <3>4. CASE U # {}
        <4>1. Ends(U)
          BY <1>3, <3>2, <3>4
        <4>2. PICK a \in U : \A y \in U : a <= y
          BY <4>1
        <4>3. PICK b \in U : \A y \in U : y <= b
          BY <4>1
        <4>4. \A y \in T : y \in Int /\ (y \in U \/ y = t)
          BY <3>1
        <4>5. a \in T /\ b \in T /\ a \in Int /\ b \in Int /\ t \in Int
          BY <3>1
        <4> HIDE DEF U
        <4>6. \E x \in T : \A y \in T : x <= y
          <5>1. CASE a <= t
            BY <4>2, <4>4, <4>5, <5>1
          <5>2. CASE ~(a <= t)
            BY <3>1, <4>2, <4>4, <4>5, <5>2
          <5>3. QED
            BY <5>1, <5>2
        <4>7. \E x \in T : \A y \in T : y <= x
          <5>1. CASE t <= b
            BY <4>3, <4>4, <4>5, <5>1
          <5>2. CASE ~(t <= b)
            BY <3>1, <4>3, <4>4, <4>5, <5>2
          <5>3. QED
            BY <5>1, <5>2
        <4>8. QED
          BY <4>6, <4>7
      <3>5. QED
        BY <3>3, <3>4
    <2>2. Good(k)
      BY <2>1
    <2>3. QED
      BY <2>2
  <1>4. Cardinality(S) \in G
    <2> HIDE DEF G
    <2>1. QED
      BY <1>1, <1>2, <1>3, Upward
  <1>5. QED
    BY <1>4
=============================================================================
