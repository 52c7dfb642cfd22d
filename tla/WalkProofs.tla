----------------------------- MODULE WalkProofs -----------------------------
(***************************************************************************)
(* What the recursive queries compute, over any finite set of steps: UNION *)
(* returns the least set closed under the steps, UNION ALL with a depth    *)
(* the walks of at most that many steps; and how the two are related.      *)
(***************************************************************************)
EXTENDS PermissionGraph, FiniteSetTheorems, WellFoundedInduction, TLAPS

(* Induction over numbers, for a property given as a set. *)
LEMMA Induction ==
  ASSUME NEW I, 0 \in I, \A n \in Nat : n \in I => n + 1 \in I
  PROVE  \A n \in Nat : n \in I
<1> DEFINE T == {0..k : k \in Nat \ I}
<1> SUFFICES ASSUME NEW z \in Nat, z \notin I PROVE FALSE
  OBVIOUS
<1>1. T \subseteq FiniteSubsetsOf(Nat) /\ T # {}
  <2>1. \A k \in Nat : 0..k \subseteq Nat /\ IsFiniteSet(0..k)
    BY FS_Interval
  <2> QED BY <2>1 DEF FiniteSubsetsOf
<1>2. IsWellFoundedOn(StrictSubsetOrdering(Nat), FiniteSubsetsOf(Nat))
  BY FS_StrictSubsetOrderingWellFounded
<1> HIDE DEF T
<1>3. PICK x \in T : \A y \in T : <<y, x>> \notin StrictSubsetOrdering(Nat)
  BY <1>1, <1>2, WFMin
<1>4. PICK m \in Nat \ I : x = 0..m
  BY DEF T
<1>5. m - 1 \in Nat \ I
  OBVIOUS
<1>6. 0..(m - 1) \in T /\ 0..(m - 1) \subseteq x /\ 0..(m - 1) # x /\ x \subseteq Nat
  BY <1>4, <1>5 DEF T
<1> QED BY <1>3, <1>6 DEF StrictSubsetOrdering

(* A step function can be iterated. *)
LEMMA Iteration ==
  ASSUME NEW D, NEW a \in D, NEW F \in [D -> D]
  PROVE  \E f \in [Nat -> D] : f[0] = a /\ \A n \in Nat : f[n + 1] = F[f[n]]
<1> DEFINE P(g, n) == g[0] = a /\ \A i \in 0..n : i # 0 => g[i] = F[g[i - 1]]
           I == {n \in Nat : \E g \in [0..n -> D] : P(g, n)}
           h == [n \in Nat |-> CHOOSE g \in [0..n -> D] : P(g, n)]
           f == [n \in Nat |-> h[n][n]]
<1>1. \A n \in Nat : n \in I
  <2>1. 0 \in I
    <3> DEFINE g == [i \in 0..0 |-> a]
    <3> g \in [0..0 -> D] /\ P(g, 0)
      OBVIOUS
    <3> QED OBVIOUS
  <2>2. ASSUME NEW n \in Nat, n \in I PROVE n + 1 \in I
    <3>1. PICK g \in [0..n -> D] : P(g, n)
      BY <2>2
    <3> DEFINE k == [i \in 0..(n + 1) |-> IF i <= n THEN g[i] ELSE F[g[n]]]
    <3>2. k \in [0..(n + 1) -> D]
      OBVIOUS
    <3>3. P(k, n + 1)
      BY <3>1
    <3> HIDE DEF k
    <3> QED BY <3>2, <3>3
  <2> HIDE DEF I
  <2> QED BY <2>1, <2>2, Induction
<1>2. \A n \in Nat : h[n] \in [0..n -> D] /\ P(h[n], n)
  BY <1>1
<1> HIDE DEF h
<1>3. ASSUME NEW n \in Nat PROVE h[n + 1][n] = h[n][n]
  <2> DEFINE J == {i \in Nat : i <= n => h[n + 1][i] = h[n][i]}
  <2>1. 0 \in J
    BY <1>2
  <2>2. ASSUME NEW i \in Nat, i \in J PROVE i + 1 \in J
    <3> SUFFICES ASSUME i + 1 <= n PROVE h[n + 1][i + 1] = h[n][i + 1]
      OBVIOUS
    <3>1. i + 1 \in 0..n /\ i + 1 \in 0..(n + 1) /\ i + 1 # 0 /\ (i + 1) - 1 = i /\ n + 1 \in Nat
      OBVIOUS
    <3>2. h[n][i + 1] = F[h[n][i]] /\ h[n + 1][i + 1] = F[h[n + 1][i]]
      BY <1>2, <3>1
    <3> QED BY <2>2, <3>2
  <2> HIDE DEF J
  <2>3. n \in J
    BY <2>1, <2>2, Induction
  <2> QED BY <2>3 DEF J
<1>4. f \in [Nat -> D]
  BY <1>2
<1>5. f[0] = a
  BY <1>2
<1>6. ASSUME NEW n \in Nat PROVE f[n + 1] = F[f[n]]
  <2>1. n + 1 \in Nat /\ n + 1 \in 0..(n + 1) /\ n + 1 # 0 /\ (n + 1) - 1 = n
    OBVIOUS
  <2>2. h[n + 1][n + 1] = F[h[n + 1][n]]
    BY <1>2, <2>1
  <2> QED BY <1>3, <2>1, <2>2
<1> HIDE DEF f
<1> QED BY <1>4, <1>5, <1>6

-----------------------------------------------------------------------------
(* What WITH RECURSIVE ... UNION returns: the least set that holds what it *)
(* starts from and is closed under the steps. As many rounds as there are  *)
(* steps are enough, since a round that adds something uses a step that no *)
(* round before it has used.                                               *)
LEMMA ReachedIsLeast ==
  ASSUME NEW steps, IsFiniteSet(steps), NEW from
  PROVE  /\ from \subseteq Reached(steps, from)
         /\ \A s \in steps : s.src \in Reached(steps, from) => s.dst \in Reached(steps, from)
         /\ \A Z : from \subseteq Z /\ (\A s \in steps : s.src \in Z => s.dst \in Z)
                     => Reached(steps, from) \subseteq Z
<1> DEFINE D == SUBSET (from \cup {s.dst : s \in steps})
           after(B) == B \cup {e.dst : e \in {s \in steps : s.src \in B}}
           F == [B \in D |-> after(B)]
           R == CHOOSE reached : reached = [n \in Nat |-> IF n = 0 THEN from ELSE LET before == reached[n - 1] IN after(before)]
           N == Cardinality(steps)
<1>1. /\ R \in [Nat -> D]
      /\ R[0] = from
      /\ \A n \in Nat : R[n + 1] = after(R[n])
  <2>1. from \in D /\ F \in [D -> D]
    OBVIOUS
  <2> HIDE DEF F, D
  <2>2. PICK f \in [Nat -> D] : f[0] = from /\ \A n \in Nat : f[n + 1] = F[f[n]]
    BY <2>1, Iteration
  <2>3. \A n \in Nat : n # 0 => f[n] = after(f[n - 1])
    <3>1. ASSUME NEW n \in Nat, n # 0 PROVE f[n] = after(f[n - 1])
      <4>1. n - 1 \in Nat /\ (n - 1) + 1 = n
        BY <3>1
      <4>2. f[n - 1] \in D /\ f[n] = F[f[n - 1]]
        BY <2>2, <4>1
      <4> QED BY <4>2 DEF F
    <3> QED BY <3>1
  <2>4. f = [n \in Nat |-> IF n = 0 THEN from ELSE LET before == f[n - 1] IN after(before)]
    BY <2>2, <2>3
  <2>5. R = [n \in Nat |-> IF n = 0 THEN from ELSE LET before == R[n - 1] IN after(before)]
    BY <2>4
  <2> HIDE DEF R
  <2> QED
    <3>1. R[0] = from
      BY <2>5
    <3>2. ASSUME NEW n \in Nat PROVE R[n + 1] = after(R[n])
      <4>1. n + 1 \in Nat /\ n + 1 # 0 /\ (n + 1) - 1 = n
        OBVIOUS
      <4>2. R[n + 1] = after(R[(n + 1) - 1])
        <5> HIDE DEF after
        <5> QED BY <2>5, <4>1
      <4> QED BY <4>1, <4>2
    <3>3. R \in [Nat -> D]
      <4> DEFINE I == {n \in Nat : R[n] \in D}
      <4>1. 0 \in I
        BY <2>1, <3>1
      <4>2. \A n \in Nat : n \in I => n + 1 \in I
        BY <3>2 DEF D
      <4>3. \A n \in Nat : n \in I
        <5> HIDE DEF I
        <5> QED BY <4>1, <4>2, Induction
      <4> QED BY <2>5, <4>3
    <3> QED BY <3>1, <3>2, <3>3
<1>2. Reached(steps, from) = R[N]
  BY DEF Reached
<1>3. N \in Nat
  BY FS_CardinalityType
<1> HIDE DEF R, N, D
<1>4. \A n \in Nat : R[n] \subseteq R[n + 1]
  BY <1>1
<1>5. ASSUME NEW k \in Nat, NEW m \in Nat, k <= m PROVE R[k] \subseteq R[m]
  <2> DEFINE I == {n \in Nat : k <= n => R[k] \subseteq R[n]}
  <2>1. 0 \in I
    OBVIOUS
  <2>2. ASSUME NEW n \in Nat, n \in I PROVE n + 1 \in I
    <3>1. CASE k <= n
      BY <1>4, <2>2, <3>1
    <3>2. CASE ~(k <= n)
      <4>1. k <= n + 1 => k = n + 1
        BY <3>2
      <4> QED BY <4>1
    <3> QED BY <3>1, <3>2
  <2> HIDE DEF I
  <2>3. m \in I
    BY <2>1, <2>2, Induction
  <2> QED BY <1>5, <2>3 DEF I
<1>6. ASSUME NEW k \in 0..N, R[k + 1] = R[k] PROVE R[N + 1] = R[N]
  <2> DEFINE I == {n \in Nat : k <= n => R[n] = R[k]}
  <2>1. 0 \in I
    OBVIOUS
  <2>2. ASSUME NEW n \in Nat, n \in I PROVE n + 1 \in I
    <3>1. CASE k <= n
      <4>1. R[n] = R[k]
        BY <2>2, <3>1
      <4>2. k \in Nat
        BY <1>3
      <4>3. R[n + 1] = after(R[n]) /\ R[k + 1] = after(R[k])
        <5> HIDE DEF after
        <5> QED BY <1>1, <4>2
      <4> HIDE DEF after
      <4>4. R[n + 1] = R[k]
        BY <1>6, <4>1, <4>3
      <4> QED BY <4>4
    <3>2. CASE ~(k <= n)
      <4>1. k <= n + 1 => k = n + 1
        BY <1>3, <3>2
      <4> QED BY <4>1
    <3> QED BY <3>1, <3>2
  <2>3. N \in I /\ N + 1 \in I
    <3> HIDE DEF I
    <3> QED BY <1>3, <2>1, <2>2, Induction
  <2> QED BY <1>3, <2>3
<1>7. R[N + 1] = R[N]
  <2> SUFFICES ASSUME \A k \in 0..N : R[k + 1] # R[k] PROVE FALSE
    BY <1>6
  <2> DEFINE e == [k \in 0..N |-> CHOOSE s \in steps : s.dst \in R[k + 1] \ R[k]]
  <2>1. ASSUME NEW k \in 0..N PROVE \E s \in steps : s.dst \in R[k + 1] \ R[k]
    <3>1. k \in Nat
      BY <1>3
    <3>2. R[k + 1] = after(R[k])
      BY <1>1, <3>1
    <3>3. PICK y : y \in R[k + 1] /\ y \notin R[k]
      BY <1>4, <3>1
    <3> QED BY <3>2, <3>3
  <2>2. \A k \in 0..N : e[k] \in steps /\ e[k].dst \in R[k + 1] /\ e[k].dst \notin R[k]
    BY <2>1
  <2> HIDE DEF e
  <2>3. e \in [0..N -> steps]
    BY <2>2 DEF e
  <2>4. IsFiniteSet(0..N) /\ Cardinality(0..N) = N + 1
    BY <1>3, FS_Interval
  <2>5. PICK x \in 0..N, y \in 0..N : x # y /\ e[x] = e[y]
    BY <1>3, <2>3, <2>4, FS_PigeonHole DEF N
  <2>6. ASSUME NEW i \in 0..N, NEW j \in 0..N, i < j, e[i] = e[j] PROVE FALSE
    <3>1. R[i + 1] \subseteq R[j]
      BY <1>3, <1>5, <2>6
    <3> QED BY <2>2, <2>6, <3>1
  <2> QED BY <1>3, <2>5, <2>6
<1>8. from \subseteq R[N]
  BY <1>1, <1>3, <1>5
<1>9. ASSUME NEW s \in steps, s.src \in R[N] PROVE s.dst \in R[N]
  <2>1. R[N] = after(R[N])
    BY <1>1, <1>3, <1>7
  <2> QED BY <1>9, <2>1
<1>10. ASSUME NEW Z, from \subseteq Z, \A s \in steps : s.src \in Z => s.dst \in Z
       PROVE  R[N] \subseteq Z
  <2> DEFINE I == {n \in Nat : R[n] \subseteq Z}
  <2>1. 0 \in I
    BY <1>1, <1>10
  <2>2. ASSUME NEW n \in Nat, n \in I PROVE n + 1 \in I
    BY <1>1, <1>10, <2>2
  <2> HIDE DEF I
  <2>3. N \in I
    BY <1>3, <2>1, <2>2, Induction
  <2> QED BY <2>3 DEF I
<1> QED BY <1>2, <1>8, <1>9, <1>10

(* Everything reached from what is reached is reached. *)
LEMMA ReachedOnwards ==
  ASSUME NEW steps, IsFiniteSet(steps), NEW x, NEW y \in Reached(steps, {x})
  PROVE  Reached(steps, {y}) \subseteq Reached(steps, {x})
<1>1. {y} \subseteq Reached(steps, {x})
  OBVIOUS
<1> QED BY <1>1, ReachedIsLeast

(* A relation walked backwards reaches what the same relation walked        *)
(* forwards comes from.                                                    *)
LEMMA ReversedTwice ==
  ASSUME NEW A, NEW B, NEW C,
         NEW steps \in SUBSET [src : A, rel : B, dst : A, role : C]
  PROVE  /\ Reversed(steps) \in SUBSET [src : A, rel : B, dst : A, role : C]
         /\ Reversed(Reversed(steps)) = steps
         /\ \A s \in steps : \E e \in Reversed(steps) : e.src = s.dst /\ e.dst = s.src
         /\ IsFiniteSet(steps) => IsFiniteSet(Reversed(steps))
<1> DEFINE back(e) == [e EXCEPT !.src = e.dst, !.dst = e.src]
<1>1. \A e \in [src : A, rel : B, dst : A, role : C] :
        /\ back(e) \in [src : A, rel : B, dst : A, role : C]
        /\ back(e).src = e.dst /\ back(e).dst = e.src
        /\ back(back(e)) = e
  OBVIOUS
<1>2. Reversed(steps) = {back(e) : e \in steps}
  BY DEF Reversed
<1>3. Reversed(Reversed(steps)) = {back(e) : e \in {back(f) : f \in steps}}
  BY <1>2 DEF Reversed
<1>4. IsFiniteSet(steps) => IsFiniteSet(Reversed(steps))
  <2> DEFINE f == [e \in steps |-> back(e)]
  <2>1. f \in Surjection(steps, {back(e) : e \in steps})
    BY DEF Surjection
  <2> HIDE DEF f
  <2> QED BY <1>2, <2>1, FS_Surjection
<1> HIDE DEF back
<1>5. Reversed(Reversed(steps)) = steps
  BY <1>1, <1>3
<1> QED BY <1>1, <1>2, <1>4, <1>5

(* One half of that. *)
LEMMA ReachedBackwardsOnce ==
  ASSUME NEW A, NEW B, NEW C,
         NEW steps \in SUBSET [src : A, rel : B, dst : A, role : C], IsFiniteSet(steps),
         NEW x, NEW y \in Reached(steps, {x})
  PROVE  x \in Reached(Reversed(steps), {y})
<1> DEFINE Z == {z \in Reached(steps, {x}) : x \in Reached(Reversed(steps), {z})}
<1>1. IsFiniteSet(Reversed(steps))
  BY ReversedTwice
<1>2. \A z : z \in Reached(Reversed(steps), {z})
  BY <1>1, ReachedIsLeast
<1>3. x \in Z
  BY <1>2, ReachedIsLeast
<1>4. ASSUME NEW s \in steps, s.src \in Z PROVE s.dst \in Z
  <2>1. s.dst \in Reached(steps, {x})
    BY <1>4, ReachedIsLeast
  <2>2. PICK e \in Reversed(steps) : e.src = s.dst /\ e.dst = s.src
    BY ReversedTwice
  <2>3. s.src \in Reached(Reversed(steps), {s.dst})
    BY <1>1, <1>2, <2>2, ReachedIsLeast
  <2>4. Reached(Reversed(steps), {s.src}) \subseteq Reached(Reversed(steps), {s.dst})
    BY <1>1, <2>3, ReachedOnwards
  <2> QED BY <1>4, <2>1, <2>4
<1> HIDE DEF Z
<1>5. Reached(steps, {x}) \subseteq Z
  BY <1>3, <1>4, ReachedIsLeast
<1> QED BY <1>5 DEF Z

(* Both halves. *)
LEMMA ReachedBackwards ==
  ASSUME NEW A, NEW B, NEW C,
         NEW steps \in SUBSET [src : A, rel : B, dst : A, role : C], IsFiniteSet(steps),
         NEW x, NEW y
  PROVE  y \in Reached(steps, {x}) <=> x \in Reached(Reversed(steps), {y})
<1>1. /\ Reversed(steps) \in SUBSET [src : A, rel : B, dst : A, role : C]
      /\ IsFiniteSet(Reversed(steps)) /\ Reversed(Reversed(steps)) = steps
  BY ReversedTwice
<1>2. y \in Reached(steps, {x}) => x \in Reached(Reversed(steps), {y})
  BY ReachedBackwardsOnce
<1>3. x \in Reached(Reversed(steps), {y}) => y \in Reached(Reversed(Reversed(steps)), {x})
  BY <1>1, ReachedBackwardsOnce
<1> QED BY <1>1, <1>2, <1>3

-----------------------------------------------------------------------------
(* What WITH RECURSIVE ... UNION ALL with a depth returns, without the      *)
(* recursion: the sequences of at most d steps, the first from x and each   *)
(* from where the one before it ends.                                      *)
LEMMA WalksByRound ==
  ASSUME NEW steps, NEW x
  PROVE  /\ \A w : w \in Walks(steps, x, 0) <=> w = <<>>
         /\ \A n \in Nat : \A w \in Walks(steps, x, n) : w \in Seq(steps)
         /\ \A n \in Nat : \A w :
              w \in Walks(steps, x, n + 1) <=>
                \/ w \in Walks(steps, x, n)
                \/ \E v \in Walks(steps, x, n), s \in steps : s.src = End(x, v) /\ w = Append(v, s)
<1> DEFINE D == SUBSET Seq(steps)
           after(B) == B \cup {Append(we[1], we[2]) :
                         we \in {p \in B \X steps : p[2].src = End(x, p[1])}}
           F == [B \in D |-> after(B)]
           R == CHOOSE walks : walks = [n \in Nat |-> IF n = 0 THEN {<<>>} ELSE LET before == walks[n - 1] IN after(before)]
<1>1. \A B \in D : after(B) \in D
  <2> SUFFICES ASSUME NEW B \in D, NEW w \in after(B) PROVE w \in Seq(steps)
    OBVIOUS
  <2>1. CASE w \in B
    BY <2>1
  <2>2. CASE w \notin B
    <3>1. PICK p \in B \X steps : w = Append(p[1], p[2])
      BY <2>2
    <3> QED BY <3>1
  <2> QED BY <2>1, <2>2
<1>2. {<<>>} \in D
  OBVIOUS
<1>2a. F \in [D -> D]
  BY <1>1
<1> HIDE DEF F, D, after
<1>3. PICK f \in [Nat -> D] : f[0] = {<<>>} /\ \A n \in Nat : f[n + 1] = F[f[n]]
  <2> DEFINE a == {<<>>}
  <2> HIDE DEF a
  <2>1. a \in D
    BY <1>2 DEF a
  <2>2. \E f \in [Nat -> D] : f[0] = a /\ \A n \in Nat : f[n + 1] = F[f[n]]
    BY <1>2a, <2>1, Iteration
  <2> QED BY <2>2 DEF a
<1>4. ASSUME NEW n \in Nat, n # 0 PROVE f[n] = after(f[n - 1])
  <2>1. n - 1 \in Nat /\ (n - 1) + 1 = n
    BY <1>4
  <2>2. f[n - 1] \in D /\ f[n] = F[f[n - 1]]
    BY <1>3, <2>1
  <2> QED BY <2>2 DEF F
<1>5. f = [n \in Nat |-> IF n = 0 THEN {<<>>} ELSE LET before == f[n - 1] IN after(before)]
  BY <1>3, <1>4
<1>6. R = [n \in Nat |-> IF n = 0 THEN {<<>>} ELSE LET before == R[n - 1] IN after(before)]
  BY <1>5
<1>7. \A n \in Nat : Walks(steps, x, n) = R[n]
  BY DEF Walks, after
<1> HIDE DEF R
<1>8. R[0] = {<<>>}
  BY <1>6
<1>9. ASSUME NEW n \in Nat PROVE R[n + 1] = after(R[n])
  <2>1. n + 1 \in Nat /\ n + 1 # 0 /\ (n + 1) - 1 = n
    OBVIOUS
  <2>2. R[n + 1] = after(R[(n + 1) - 1])
    BY <1>6, <2>1
  <2> QED BY <2>1, <2>2
<1>10. \A n \in Nat : R[n] \in D
  <2> DEFINE I == {n \in Nat : R[n] \in D}
  <2>1. 0 \in I
    BY <1>2, <1>8
  <2>2. ASSUME NEW n \in Nat, n \in I PROVE n + 1 \in I
    <3>1. R[n] \in D /\ R[n + 1] = after(R[n])
      BY <1>9, <2>2
    <3>2. R[n + 1] \in D
      BY <1>1, <3>1
    <3> QED BY <3>2
  <2> HIDE DEF I
  <2>3. \A n \in Nat : n \in I
    BY <2>1, <2>2, Induction
  <2> QED BY <2>3 DEF I
<1>11. Walks(steps, x, 0) = {<<>>}
  BY <1>7, <1>8
<1>12. \A n \in Nat : Walks(steps, x, n + 1) = after(Walks(steps, x, n))
  BY <1>7, <1>9
<1>13. \A n \in Nat : Walks(steps, x, n) \in SUBSET Seq(steps)
  BY <1>7, <1>10 DEF D
<1>14. \A B, w : w \in after(B) <=>
         \/ w \in B
         \/ \E v \in B, s \in steps : s.src = End(x, v) /\ w = Append(v, s)
  <2> SUFFICES ASSUME NEW B, NEW w
               PROVE  w \in after(B) <=>
                        \/ w \in B
                        \/ \E v \in B, s \in steps : s.src = End(x, v) /\ w = Append(v, s)
    OBVIOUS
  <2>1. ASSUME NEW v \in B, NEW s \in steps, s.src = End(x, v), w = Append(v, s)
        PROVE  w \in after(B)
    <3>1. <<v, s>> \in {p \in B \X steps : p[2].src = End(x, p[1])}
      BY <2>1
    <3> QED BY <2>1, <3>1 DEF after
  <2>2. ASSUME w \in after(B), w \notin B
        PROVE  \E v \in B, s \in steps : s.src = End(x, v) /\ w = Append(v, s)
    BY <2>2 DEF after
  <2>3. w \in B => w \in after(B)
    BY DEF after
  <2> QED BY <2>1, <2>2, <2>3
<1>15. \A w : w \in Walks(steps, x, 0) <=> w = <<>>
  BY <1>11
<1>16. \A n \in Nat : \A w \in Walks(steps, x, n) : w \in Seq(steps)
  BY <1>13
<1>17. \A n \in Nat : \A w :
         w \in Walks(steps, x, n + 1) <=>
           \/ w \in Walks(steps, x, n)
           \/ \E v \in Walks(steps, x, n), s \in steps : s.src = End(x, v) /\ w = Append(v, s)
  <2> SUFFICES ASSUME NEW n \in Nat, NEW w
               PROVE  w \in Walks(steps, x, n + 1) <=>
                        \/ w \in Walks(steps, x, n)
                        \/ \E v \in Walks(steps, x, n), s \in steps : s.src = End(x, v) /\ w = Append(v, s)
    OBVIOUS
  <2> DEFINE B == Walks(steps, x, n)
  <2>1. Walks(steps, x, n + 1) = after(B)
    BY <1>12
  <2> HIDE DEF B
  <2>2. w \in Walks(steps, x, n + 1) <=>
          \/ w \in B
          \/ \E v \in B, s \in steps : s.src = End(x, v) /\ w = Append(v, s)
    BY <1>14, <2>1
  <2> QED BY <2>2 DEF B
<1> QED BY <1>15, <1>16, <1>17

(* A round, for one walk. *)
LEMMA OneStepMore ==
  ASSUME NEW steps, NEW x, NEW n \in Nat, NEW w
  PROVE  w \in Walks(steps, x, n + 1) <=>
           \/ w \in Walks(steps, x, n)
           \/ \E v \in Walks(steps, x, n), s \in steps : s.src = End(x, v) /\ w = Append(v, s)
<1>1. \A m \in Nat : \A v :
        v \in Walks(steps, x, m + 1) <=>
          \/ v \in Walks(steps, x, m)
          \/ \E u \in Walks(steps, x, m), s \in steps : s.src = End(x, u) /\ v = Append(u, s)
  BY WalksByRound, ZenonT(40)
<1> QED BY <1>1

(* A walk by its places: as long as the depth allows, each step from where *)
(* the one before it ends.                                                 *)
LEMMA WalksAre ==
  ASSUME NEW steps, NEW x, NEW d \in Nat, NEW w
  PROVE  w \in Walks(steps, x, d) <=>
           /\ w \in Seq(steps) /\ Len(w) <= d
           /\ \A i \in 1..Len(w) : w[i].src = IF i = 1 THEN x ELSE w[i - 1].dst
<1> DEFINE IsWalk(v) == v \in Seq(steps) /\ \A i \in 1..Len(v) : v[i].src = IF i = 1 THEN x ELSE v[i - 1].dst
           I == {n \in Nat : \A v : v \in Walks(steps, x, n) <=> IsWalk(v) /\ Len(v) <= n}
<1>1. 0 \in I
  <2>1. \A v : v \in Walks(steps, x, 0) <=> v = <<>>
    BY WalksByRound
  <2>2. \A v \in Seq(steps) : Len(v) <= 0 => v = <<>>
    OBVIOUS
  <2>3. IsWalk(<<>>) /\ Len(<<>>) <= 0
    OBVIOUS
  <2> QED BY <2>1, <2>2, <2>3
<1>2. ASSUME NEW n \in Nat, n \in I PROVE n + 1 \in I
  <2>1. \A v : v \in Walks(steps, x, n + 1) <=>
          \/ v \in Walks(steps, x, n)
          \/ \E u \in Walks(steps, x, n), s \in steps : s.src = End(x, u) /\ v = Append(u, s)
    BY OneStepMore
  <2>2. \A v : v \in Walks(steps, x, n) <=> IsWalk(v) /\ Len(v) <= n
    BY <1>2
  <2>3. ASSUME NEW v \in Walks(steps, x, n), NEW s \in steps, s.src = End(x, v)
        PROVE  IsWalk(Append(v, s)) /\ Len(Append(v, s)) <= n + 1
    <3>1. v \in Seq(steps) /\ IsWalk(v) /\ Len(v) <= n
      BY <2>2
    <3>2. /\ Append(v, s) \in Seq(steps) /\ Len(Append(v, s)) = Len(v) + 1
          /\ Append(v, s)[Len(v) + 1] = s
          /\ \A i \in 1..Len(v) : Append(v, s)[i] = v[i]
      BY <3>1
    <3>3. s.src = IF Len(v) + 1 = 1 THEN x ELSE v[Len(v)].dst
      BY <2>3, <3>1 DEF End
    <3>4. ASSUME NEW i \in 1..(Len(v) + 1)
          PROVE  Append(v, s)[i].src = IF i = 1 THEN x ELSE Append(v, s)[i - 1].dst
      <4>1. CASE i = Len(v) + 1
        BY <3>1, <3>2, <3>3, <4>1
      <4>2. CASE i # Len(v) + 1
        <5>1. i \in 1..Len(v) /\ (i # 1 => i - 1 \in 1..Len(v))
          BY <3>1, <4>2
        <5> QED BY <3>1, <3>2, <5>1
      <4> QED BY <4>1, <4>2
    <3> QED BY <3>1, <3>2, <3>4
  <2>4. ASSUME NEW v, IsWalk(v), Len(v) = n + 1
        PROVE  \E u \in Walks(steps, x, n), s \in steps : s.src = End(x, u) /\ v = Append(u, s)
    <3> DEFINE u == SubSeq(v, 1, n)
               s == v[n + 1]
    <3>1. u \in Seq(steps) /\ Len(u) = n /\ \A i \in 1..n : u[i] = v[i]
      BY <2>4
    <3>2. s \in steps /\ s.src = IF n + 1 = 1 THEN x ELSE v[n].dst
      BY <2>4
    <3> HIDE DEF u
    <3>3. IsWalk(u)
      <4> SUFFICES ASSUME NEW i \in 1..n PROVE u[i].src = IF i = 1 THEN x ELSE u[i - 1].dst
        BY <3>1
      <4>1. i \in 1..Len(v) /\ (i # 1 => i - 1 \in 1..n)
        BY <2>4
      <4>2. v[i].src = IF i = 1 THEN x ELSE v[i - 1].dst
        BY <2>4, <4>1
      <4> QED BY <3>1, <4>1, <4>2
    <3>4. s.src = End(x, u)
      <4>1. CASE n = 0
        <5>1. u = <<>>
          BY <3>1, <4>1
        <5> QED BY <3>2, <4>1, <5>1 DEF End
      <4>2. CASE n # 0
        BY <3>1, <3>2, <4>2 DEF End
      <4> QED BY <4>1, <4>2
    <3>5. v = Append(u, s)
      BY <2>4, <3>1 DEF u
    <3> HIDE DEF s
    <3>6. u \in Walks(steps, x, n)
      BY <2>2, <3>1, <3>3
    <3> QED BY <3>2, <3>4, <3>5, <3>6
  <2>5. ASSUME NEW v, IsWalk(v), Len(v) <= n + 1 PROVE v \in Walks(steps, x, n + 1)
    <3>1. CASE Len(v) <= n
      BY <2>1, <2>2, <2>5, <3>1
    <3>2. CASE Len(v) = n + 1
      <4>1. PICK u \in Walks(steps, x, n), s \in steps : s.src = End(x, u) /\ v = Append(u, s)
        BY <2>4, <2>5, <3>2
      <4> QED BY <2>1, <4>1, Zenon
    <3>3. Len(v) \in Nat
      BY <2>5
    <3> QED BY <2>5, <3>1, <3>2, <3>3
  <2>6. ASSUME NEW v \in Walks(steps, x, n + 1) PROVE IsWalk(v) /\ Len(v) <= n + 1
    <3>1. CASE v \in Walks(steps, x, n)
      <4>1. IsWalk(v) /\ Len(v) <= n /\ Len(v) \in Nat
        BY <2>2, <3>1
      <4> QED BY <4>1
    <3>2. CASE v \notin Walks(steps, x, n)
      <4>1. PICK u \in Walks(steps, x, n), s \in steps : s.src = End(x, u) /\ v = Append(u, s)
        BY <2>1, <2>6, <3>2
      <4> QED BY <2>3, <4>1
    <3> QED BY <3>1, <3>2
  <2> HIDE DEF IsWalk
  <2> QED BY <2>5, <2>6
<1> HIDE DEF I
<1>3. d \in I
  BY <1>1, <1>2, Induction
<1> QED BY <1>3 DEF I

(* Taking no step is a walk. *)
LEMMA NoSteps == ASSUME NEW steps, NEW x, NEW d \in Nat PROVE <<>> \in Walks(steps, x, d)
<1> DEFINE none == <<>>
<1>1. none \in Seq(steps) /\ Len(none) = 0
  OBVIOUS
<1> HIDE DEF none
<1>2. \A i \in 1..Len(none) : none[i].src = IF i = 1 THEN x ELSE none[i - 1].dst
  BY <1>1
<1>3. Len(none) <= d
  BY <1>1
<1>4. none \in Walks(steps, x, d)
  BY <1>1, <1>2, <1>3, WalksAre
<1> QED BY <1>4 DEF none

(* Walks lead to what is reached. *)
LEMMA WalksReach ==
  ASSUME NEW steps, IsFiniteSet(steps), NEW x, NEW d \in Nat
  PROVE  \A w \in Walks(steps, x, d) : End(x, w) \in Reached(steps, {x})
<1> DEFINE I == {n \in Nat : \A w \in Walks(steps, x, n) : End(x, w) \in Reached(steps, {x})}
<1>1. 0 \in I
  <2>1. x \in Reached(steps, {x})
    BY ReachedIsLeast
  <2>2. \A w \in Walks(steps, x, 0) : w = <<>>
    BY WalksByRound
  <2> QED BY <2>1, <2>2 DEF End
<1>2. ASSUME NEW n \in Nat, n \in I PROVE n + 1 \in I
  <2> SUFFICES ASSUME NEW w \in Walks(steps, x, n + 1) PROVE End(x, w) \in Reached(steps, {x})
    OBVIOUS
  <2>1. CASE w \in Walks(steps, x, n)
    BY <1>2, <2>1
  <2>2. CASE w \notin Walks(steps, x, n)
    <3>2. PICK v \in Walks(steps, x, n), s \in steps : s.src = End(x, v) /\ w = Append(v, s)
      BY <2>2, OneStepMore
    <3>3. v \in Seq(steps)
      BY <3>2, WalksByRound
    <3>4. s.dst \in Reached(steps, {x})
      BY <1>2, <3>2, ReachedIsLeast
    <3>5. w # <<>> /\ w[Len(w)] = s
      BY <3>2, <3>3
    <3> QED BY <3>4, <3>5 DEF End
  <2> QED BY <2>1, <2>2
<1> HIDE DEF I
<1>3. d \in I
  BY <1>1, <1>2, Induction
<1> QED BY <1>3 DEF I

(* No walk of d + 1 steps: then walks of d steps lead to all that is        *)
(* reached.                                                                *)
Short(steps, x, d) == \A w \in Walks(steps, x, d + 1) : Len(w) <= d

(* Where no walk is longer than d, nothing is out of reach at depth d. *)
LEMMA ShortWalks ==
  ASSUME NEW steps, IsFiniteSet(steps), NEW x, NEW d \in Nat, Short(steps, x, d)
  PROVE  /\ Walks(steps, x, d + 1) = Walks(steps, x, d)
         /\ \A y \in Reached(steps, {x}) : \E w \in Walks(steps, x, d) : y = End(x, w)
<1>1. Walks(steps, x, d + 1) \subseteq Walks(steps, x, d)
  <2>1. \A w \in Walks(steps, x, d + 1) : w \in Walks(steps, x, d)
    BY WalksAre DEF Short
  <2> QED BY <2>1
<1>2. Walks(steps, x, d) \subseteq Walks(steps, x, d + 1)
  BY OneStepMore
<1> DEFINE Z == {End(x, w) : w \in Walks(steps, x, d)}
<1>3. x \in Z
  <2>1. <<>> \in Walks(steps, x, d)
    BY NoSteps
  <2>2. End(x, <<>>) = x
    BY DEF End
  <2> QED BY <2>1, <2>2
<1>4. ASSUME NEW s \in steps, s.src \in Z PROVE s.dst \in Z
  <2>1. PICK w \in Walks(steps, x, d) : End(x, w) = s.src
    BY <1>4
  <2>3. Append(w, s) \in Walks(steps, x, d + 1)
    BY <2>1, OneStepMore
  <2>4. Append(w, s) \in Walks(steps, x, d)
    BY <1>1, <2>3
  <2>5. w \in Seq(steps)
    BY WalksByRound
  <2>6. End(x, Append(w, s)) = s.dst
    BY <2>5 DEF End
  <2> QED BY <2>4, <2>6
<1> HIDE DEF Z
<1>5. Reached(steps, {x}) \subseteq Z
  BY <1>3, <1>4, ReachedIsLeast
<1> QED BY <1>1, <1>2, <1>5 DEF Z

(* There are finitely many walks of at most d steps. *)
LEMMA WalksFinite ==
  ASSUME NEW steps, IsFiniteSet(steps), NEW x, NEW d \in Nat
  PROVE  IsFiniteSet(Walks(steps, x, d))
<1> DEFINE I == {n \in Nat : IsFiniteSet(Walks(steps, x, n))}
<1>1. 0 \in I
  <2> DEFINE none == <<>>
  <2> HIDE DEF none
  <2>1. Walks(steps, x, 0) = {none}
    BY WalksByRound DEF none
  <2>2. IsFiniteSet({none})
    BY FS_Singleton
  <2> QED BY <2>1, <2>2
<1>2. ASSUME NEW n \in Nat, n \in I PROVE n + 1 \in I
  <2> DEFINE W == Walks(steps, x, n)
             longer == [we \in W \X steps |-> Append(we[1], we[2])]
             image == {longer[we] : we \in W \X steps}
  <2>1. IsFiniteSet(W \X steps)
    BY <1>2, FS_Product
  <2>2. longer \in Surjection(W \X steps, image)
    BY DEF Surjection
  <2>3. IsFiniteSet(image)
    <3> HIDE DEF longer, image, W
    <3> QED BY <2>1, <2>2, FS_Surjection
  <2>4. IsFiniteSet(W \cup image)
    <3> HIDE DEF image
    <3> QED BY <1>2, <2>3, FS_Union
  <2>5. Walks(steps, x, n + 1) \subseteq W \cup image
    <3> SUFFICES ASSUME NEW w \in Walks(steps, x, n + 1), w \notin W PROVE w \in image
      OBVIOUS
    <3>1. PICK v \in W, s \in steps : s.src = End(x, v) /\ w = Append(v, s)
      BY OneStepMore
    <3>2. <<v, s>> \in W \X steps /\ longer[<<v, s>>] = w
      BY <3>1
    <3> HIDE DEF longer, W
    <3> QED BY <3>2
  <2> HIDE DEF W, image
  <2>6. Walks(steps, x, n + 1) \in SUBSET (W \cup image)
    BY <2>5
  <2> QED BY <2>4, <2>6, FS_Subset
<1> HIDE DEF I
<1>3. d \in I
  BY <1>1, <1>2, Induction
<1> QED BY <1>3 DEF I

(* A walk from its end to its beginning. *)
Turned(e) == [e EXCEPT !.src = e.dst, !.dst = e.src]
Back(w) == [i \in 1..Len(w) |-> Turned(w[Len(w) - i + 1])]

(* Steps that can be turned around and back. *)
Turnable(steps) ==
  \A e \in steps : /\ Turned(Turned(e)) = e
                   /\ Turned(e).src = e.dst /\ Turned(e).dst = e.src

(* Edges can. *)
LEMMA StepsTurn ==
  ASSUME NEW A, NEW B, NEW C,
         NEW steps \in SUBSET [src : A, rel : B, dst : A, role : C]
  PROVE  Turnable(steps) /\ Turnable(Reversed(steps))
<1>1. \A e \in [src : A, rel : B, dst : A, role : C] :
        /\ Turned(e) \in [src : A, rel : B, dst : A, role : C] /\ Turned(Turned(e)) = e
        /\ Turned(e).src = e.dst /\ Turned(e).dst = e.src
  BY DEF Turned
<1>2. Reversed(steps) = {Turned(e) : e \in steps}
  BY DEF Reversed, Turned
<1> QED BY <1>1, <1>2 DEF Turnable

(* Walked backwards over the reversed steps, a walk ends where it began. *)
LEMMA WalkBack ==
  ASSUME NEW steps, Turnable(steps),
         NEW x, NEW d \in Nat, NEW w \in Walks(steps, x, d), NEW y, y = End(x, w)
  PROVE  Back(w) \in Walks(Reversed(steps), y, d) /\ End(y, Back(w)) = x /\ Back(Back(w)) = w
<1> DEFINE n == Len(w)
           v == Back(w)
<1>1. /\ w \in Seq(steps) /\ n \in Nat /\ n <= d
      /\ \A i \in 1..n : w[i].src = IF i = 1 THEN x ELSE w[i - 1].dst
  BY WalksAre
<1>n. n \in Nat
  BY <1>1
<1>2. \A e \in steps : /\ Turned(e) \in Reversed(steps) /\ Turned(Turned(e)) = e
                       /\ Turned(e).src = e.dst /\ Turned(e).dst = e.src
  BY DEF Turned, Reversed, Turnable
<1>3. \A i \in 1..n : w[i] \in steps
  BY <1>1
<1>4. v = [i \in 1..n |-> Turned(w[n - i + 1])]
  BY DEF Back
<1>5. y = IF n = 0 THEN x ELSE w[n].dst
  BY <1>1 DEF End
<1> HIDE DEF n, v
<1>6. \A i \in 1..n : n - i + 1 \in 1..n
  BY <1>n
<1>7. /\ v \in Seq(Reversed(steps)) /\ Len(v) = n
      /\ \A i \in 1..n : v[i] = Turned(w[n - i + 1])
  <2>1. \A i \in 1..n : Turned(w[n - i + 1]) \in Reversed(steps)
    BY <1>2, <1>3, <1>6
  <2>2. v \in [1..n -> Reversed(steps)]
    BY <1>4, <2>1
  <2>3. Len(v) = n
    BY <1>n, <2>2
  <2> QED BY <1>n, <1>4, <2>2, <2>3
<1>8. ASSUME NEW i \in 1..n PROVE v[i].src = IF i = 1 THEN y ELSE v[i - 1].dst
  <2>1. v[i].src = w[n - i + 1].dst
    BY <1>2, <1>3, <1>6, <1>7
  <2>2. CASE i = 1
    <3>1. n - i + 1 = n /\ n # 0
      BY <1>n, <2>2
    <3> QED BY <1>5, <2>1, <2>2, <3>1
  <2>3. CASE i # 1
    <3> DEFINE k == n - i + 1
    <3>1. i - 1 \in 1..n /\ n - (i - 1) + 1 = k + 1 /\ k + 1 \in 1..n /\ k \in 1..n /\ k + 1 # 1 /\ (k + 1) - 1 = k
      BY <1>n, <2>3
    <3> HIDE DEF k
    <3>2. v[i - 1].dst = w[k + 1].src
      <4>1. v[i - 1] = Turned(w[k + 1])
        BY <1>7, <3>1
      <4>2. w[k + 1] \in steps
        BY <1>3, <3>1
      <4> QED BY <1>2, <4>1, <4>2
    <3>3. w[k + 1].src = w[k].dst
      BY <1>1, <3>1
    <3> QED BY <2>1, <2>3, <3>2, <3>3 DEF k
  <2> QED BY <2>2, <2>3
<1>9. v \in Walks(Reversed(steps), y, d)
  BY <1>1, <1>7, <1>8, WalksAre
<1>10. End(y, v) = x
  <2>1. CASE n = 0
    <3>1. v = <<>>
      BY <1>7, <2>1
    <3> QED BY <1>5, <2>1, <3>1 DEF End
  <2>2. CASE n # 0
    <3>1. v # <<>> /\ n \in 1..n /\ n - n + 1 = 1 /\ 1 \in 1..n
      BY <1>n, <1>7, <2>2
    <3>2. v[n].dst = w[1].src
      BY <1>2, <1>3, <1>7, <3>1
    <3>3. w[1].src = x
      BY <1>1, <3>1
    <3> QED BY <1>7, <3>1, <3>2, <3>3 DEF End
  <2> QED BY <2>1, <2>2
<1>11. Back(v) = w
  <2>1. Back(v) = [i \in 1..n |-> Turned(v[n - i + 1])]
    BY <1>7 DEF Back
  <2>2. ASSUME NEW i \in 1..n PROVE Turned(v[n - i + 1]) = w[i]
    <3>1. n - i + 1 \in 1..n /\ n - (n - i + 1) + 1 = i
      BY <1>n
    <3>2. v[n - i + 1] = Turned(w[i])
      BY <1>7, <3>1
    <3> QED BY <1>2, <1>3, <3>2
  <2>3. w = [i \in 1..n |-> w[i]]
    BY <1>1 DEF n
  <2>4. Back(v) = [i \in 1..n |-> w[i]]
    BY <2>1, <2>2
  <2> QED BY <2>3, <2>4
<1> QED BY <1>9, <1>10, <1>11 DEF v

(* More steps, more walks. *)
LEMMA WalksGrow ==
  ASSUME NEW few, NEW many, few \subseteq many, NEW x, NEW d \in Nat
  PROVE  Walks(few, x, d) \subseteq Walks(many, x, d)
<1> SUFFICES ASSUME NEW w \in Walks(few, x, d) PROVE w \in Walks(many, x, d)
  OBVIOUS
<1>1. /\ w \in Seq(few) /\ Len(w) <= d
      /\ \A i \in 1..Len(w) : w[i].src = IF i = 1 THEN x ELSE w[i - 1].dst
  BY WalksAre
<1>2. w \in Seq(many)
  BY <1>1
<1> QED BY <1>1, <1>2, WalksAre

(* Where every node has one step at most and none leads back, there is one *)
(* walk at most to each node.                                              *)
LEMMA OneWay ==
  ASSUME NEW steps, NEW N, NEW rank \in [N -> Nat],
         \A e \in steps : e.src \in N /\ e.dst \in N /\ rank[e.dst] < rank[e.src],
         \A e, f \in steps : e.src = f.src => e = f,
         NEW x, NEW d \in Nat, NEW a \in Walks(steps, x, d), NEW b \in Walks(steps, x, d),
         End(x, a) = End(x, b), Len(a) <= Len(b)
  PROVE  a = b
<1>1. /\ a \in Seq(steps) /\ \A i \in 1..Len(a) : a[i].src = IF i = 1 THEN x ELSE a[i - 1].dst
      /\ b \in Seq(steps) /\ \A i \in 1..Len(b) : b[i].src = IF i = 1 THEN x ELSE b[i - 1].dst
  BY WalksAre
<1> DEFINE n == Len(a)
           m == Len(b)
<1>n. n \in Nat /\ m \in Nat /\ n <= m
  BY <1>1
<1>2. (\A i \in 1..n : a[i] \in steps) /\ (\A i \in 1..m : b[i] \in steps)
  BY <1>1
<1>e. /\ End(x, a) = IF n = 0 THEN x ELSE a[n].dst
      /\ End(x, b) = IF m = 0 THEN x ELSE b[m].dst
  BY <1>1 DEF End
<1> HIDE DEF n, m
<1>3. \A i \in 1..n : a[i] = b[i]
  <2> DEFINE I == {i \in Nat : i \in 1..n => a[i] = b[i]}
  <2>1. 0 \in I
    OBVIOUS
  <2>2. ASSUME NEW i \in Nat, i \in I PROVE i + 1 \in I
    <3> SUFFICES ASSUME i + 1 \in 1..n PROVE a[i + 1] = b[i + 1]
      OBVIOUS
    <3>1. i + 1 \in 1..m /\ (i + 1) - 1 = i /\ (i + 1 # 1 => i \in 1..n)
      BY <1>n
    <3>2. /\ a[i + 1].src = IF i + 1 = 1 THEN x ELSE a[(i + 1) - 1].dst
          /\ b[i + 1].src = IF i + 1 = 1 THEN x ELSE b[(i + 1) - 1].dst
      BY <1>1, <3>1 DEF n, m
    <3>3. i + 1 # 1 => a[i] = b[i]
      BY <2>2, <3>1
    <3>4. a[i + 1].src = b[i + 1].src
      BY <3>1, <3>2, <3>3
    <3>5. a[i + 1] \in steps /\ b[i + 1] \in steps
      BY <1>2, <3>1
    <3> QED BY <3>4, <3>5
  <2> HIDE DEF I
  <2>3. \A i \in Nat : i \in I
    BY <2>1, <2>2, Induction
  <2> QED BY <2>3 DEF I
<1>4. n = m
  <2> SUFFICES ASSUME n < m PROVE FALSE
    BY <1>n
  <2> DEFINE I == {j \in Nat : j \in (n + 1)..m => rank[b[j].dst] < rank[b[n + 1].src]}
  <2>1. 0 \in I
    BY <1>n
  <2>2. ASSUME NEW j \in Nat, j \in I PROVE j + 1 \in I
    <3> SUFFICES ASSUME j + 1 \in (n + 1)..m PROVE rank[b[j + 1].dst] < rank[b[n + 1].src]
      OBVIOUS
    <3>1. j + 1 \in 1..m /\ n + 1 \in 1..m /\ (j + 1) - 1 = j
      BY <1>n
    <3>2. /\ rank[b[j + 1].dst] < rank[b[j + 1].src] /\ rank[b[j + 1].dst] \in Nat
          /\ rank[b[j + 1].src] \in Nat /\ rank[b[n + 1].src] \in Nat
      BY <1>2, <3>1
    <3>3. CASE j = n
      BY <3>2, <3>3
    <3>4. CASE j # n
      <4>1. j \in (n + 1)..m /\ j + 1 # 1
        BY <1>n, <3>4
      <4>2. b[j + 1].src = b[j].dst
        BY <1>1, <3>1, <4>1 DEF m
      <4>3. rank[b[j].dst] < rank[b[n + 1].src]
        BY <2>2, <4>1
      <4> QED BY <3>2, <4>2, <4>3
    <3> QED BY <3>3, <3>4
  <2> HIDE DEF I
  <2>3. m \in I
    BY <1>n, <2>1, <2>2, Induction
  <2>4. rank[b[m].dst] < rank[b[n + 1].src]
    BY <1>n, <2>3 DEF I
  <2>5. b[n + 1].src = End(x, a)
    <3>1. n + 1 \in 1..m /\ (n + 1) - 1 = n /\ (n # 0 => n \in 1..n)
      BY <1>n
    <3>2. b[n + 1].src = IF n + 1 = 1 THEN x ELSE b[n].dst
      BY <1>1, <3>1 DEF m
    <3>3. CASE n = 0
      BY <1>e, <3>2, <3>3
    <3>4. CASE n # 0
      BY <1>e, <1>n, <1>3, <3>1, <3>2, <3>4
    <3> QED BY <3>3, <3>4
  <2>6. m # 0 /\ m \in 1..m
    BY <1>n
  <2>7. rank[b[m].dst] \in Nat
    BY <1>2, <2>6
  <2>8. End(x, b) = b[m].dst
    BY <1>e, <2>6
  <2>9. b[n + 1].src = b[m].dst
    BY <2>5, <2>8
  <2> QED BY <2>4, <2>7, <2>9
<1> QED BY <1>1, <1>3, <1>4 DEF n, m
=============================================================================
