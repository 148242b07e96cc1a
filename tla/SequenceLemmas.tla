--------------------------- MODULE SequenceLemmas ---------------------------
(***************************************************************************)
(* What the proofs need of natural numbers and of the operators of         *)
(* SequencesExt: induction as a fact about sets, what a recursive function *)
(* over 0 .. n is, and FlattenSeq by the positions of its parts.           *)
(***************************************************************************)
EXTENDS Integers, Sequences, SequencesExt, SequenceTheorems, WellFoundedInduction, TLAPS

\* A set of naturals has a least element.
LEMMA LeastNatural ==
    ASSUME NEW T \in SUBSET Nat, T # {}
    PROVE  \E m \in T : \A n \in T : m <= n
  <1> DEFINE R == OpToRel(<, Nat)
  <1>1. IsWellFoundedOn(R, Nat)
    BY NatLessThanWellFounded
  <1>2. \A m, n \in Nat : n < m => <<n, m>> \in R
    BY DEF OpToRel
  <1> HIDE DEF R
  <1>3. PICK m \in T : \A n \in T : ~ (<<n, m>> \in R)
    BY <1>1, WFMin
  <1>4. ASSUME NEW n \in T PROVE m <= n
    <2>1. ~(n < m)
      BY <1>2, <1>3
    <2> QED BY <2>1
  <1> QED BY <1>4

\* Induction: the naturals for which something holds, as a set.
LEMMA Induction ==
    ASSUME NEW S, 0 \in S, \A n \in Nat : n \in S => n + 1 \in S
    PROVE  Nat \subseteq S
  <1> SUFFICES ASSUME Nat \ S # {} PROVE FALSE
    OBVIOUS
  <1>1. PICK m \in Nat \ S : \A n \in Nat \ S : m <= n
    BY LeastNatural
  <1>2. m # 0 /\ m - 1 \in Nat
    BY <1>1
  <1>3. m - 1 \in S
    BY <1>1, <1>2
  <1> QED BY <1>1, <1>2, <1>3

\* Induction up to a bound.
LEMMA InductionUpTo ==
    ASSUME NEW S, NEW last \in Nat, 0 \in S,
           \A n \in 0 .. last - 1 : n \in S => n + 1 \in S
    PROVE  0 .. last \subseteq S
  <1> DEFINE T == {n \in Nat : n <= last => n \in S}
  <1>1. 0 \in T
    OBVIOUS
  <1>2. ASSUME NEW n \in Nat, n \in T PROVE n + 1 \in T
    <2>1. CASE n + 1 <= last
      <3>1. n \in S /\ n \in 0 .. last - 1
        BY <1>2, <2>1
      <3> QED BY <3>1
    <2>2. CASE ~(n + 1 <= last)
      BY <2>2
    <2> QED BY <2>1, <2>2
  <1>3. Nat \subseteq T
    <2> HIDE DEF T
    <2> QED BY <1>1, <1>2, Induction
  <1> QED BY <1>3

\* f is defined by recursion: from base, with step, up to last.
Recursive(f, last, base, step) ==
    f = [k \in 0 .. last |-> IF k = 0 THEN base ELSE step[<<k, f[k - 1]>>]]

\* Such a function exists.
LEMMA Recursion ==
    ASSUME NEW last \in Nat, NEW A, NEW base \in A, NEW step \in [(1 .. last) \X A -> A]
    PROVE  \E f \in [0 .. last -> A] : Recursive(f, last, base, step)
  <1> DEFINE D(n) == \E f \in [0 .. n -> A] :
                       /\ f[0] = base
                       /\ \A k \in 1 .. n : f[k] = step[<<k, f[k - 1]>>]
             S == {n \in Nat : D(n)}
  <1>1. D(0)
    <2> DEFINE g == [k \in 0 .. 0 |-> base]
    <2>1. g \in [0 .. 0 -> A] /\ g[0] = base /\ 1 .. 0 = {}
      OBVIOUS
    <2> HIDE DEF g
    <2> QED BY <2>1
  <1>2. ASSUME NEW n \in 0 .. last - 1, D(n) PROVE D(n + 1)
    <2>1. PICK f \in [0 .. n -> A] : f[0] = base /\ \A k \in 1 .. n : f[k] = step[<<k, f[k - 1]>>]
      BY <1>2
    <2> DEFINE g == [k \in 0 .. n + 1 |-> IF k <= n THEN f[k] ELSE step[<<n + 1, f[n]>>]]
    <2>2. f[n] \in A /\ n + 1 \in 1 .. last /\ step[<<n + 1, f[n]>>] \in A
      OBVIOUS
    <2>3. g \in [0 .. n + 1 -> A] /\ g[0] = base
      BY <2>1, <2>2
    <2>4. ASSUME NEW k \in 1 .. n + 1 PROVE g[k] = step[<<k, g[k - 1]>>]
      <3>1. CASE k <= n
        <4>1. k \in 1 .. n /\ k - 1 \in 0 .. n + 1 /\ k - 1 <= n /\ g[k] = f[k] /\ g[k - 1] = f[k - 1]
          BY <3>1
        <4> QED BY <2>1, <4>1
      <3>2. CASE k = n + 1
        <4>1. g[k] = step[<<n + 1, f[n]>>] /\ g[k - 1] = f[n]
          BY <3>2
        <4> QED BY <3>2, <4>1
      <3> QED BY <3>1, <3>2
    <2> HIDE DEF g
    <2> QED BY <2>3, <2>4
  <1> HIDE DEF D
  <1>3. D(last)
    <2>1. 0 \in S /\ \A n \in 0 .. last - 1 : n \in S => n + 1 \in S
      BY <1>1, <1>2
    <2> HIDE DEF S
    <2>2. 0 .. last \subseteq S
      BY <2>1, InductionUpTo
    <2> QED BY <2>2 DEF S
  <1>4. PICK f \in [0 .. last -> A] : f[0] = base /\ \A k \in 1 .. last : f[k] = step[<<k, f[k - 1]>>]
    BY <1>3 DEF D
  <1>5. f = [k \in 0 .. last |-> IF k = 0 THEN base ELSE step[<<k, f[k - 1]>>]]
    <2>1. \A k \in 0 .. last : f[k] = IF k = 0 THEN base ELSE step[<<k, f[k - 1]>>]
      BY <1>4
    <2>2. f = [k \in 0 .. last |-> f[k]]
      OBVIOUS
    <2> QED BY <2>1, <2>2
  <1> QED BY <1>5 DEF Recursive
-----------------------------------------------------------------------------
(* Concatenations, by the positions of their parts.                        *)

LEMMA JoinPositions ==
    ASSUME NEW m \in Nat, NEW l \in Nat
    PROVE  /\ \A b \in 1 .. m : b \in 1 .. m + l /\ b <= m
           /\ \A b \in 1 .. l : m + b \in 1 .. m + l /\ ~(m + b <= m) /\ (m + b) - m = b
           /\ \A b \in 1 .. m + l : (b \in 1 .. m \/ b - m \in 1 .. l) /\ m + (b - m) = b
  OBVIOUS

\* One sequence after another, by the positions in each.
Joins(w, s, t) ==
    /\ Len(w) = Len(s) + Len(t) /\ Len(s) \in Nat /\ Len(t) \in Nat
    /\ \A b \in 1 .. Len(s) : w[b] = s[b]
    /\ \A b \in 1 .. Len(t) : w[Len(s) + b] = t[b]

LEMMA ConcatParts ==
    ASSUME NEW X, NEW s \in Seq(X), NEW t \in Seq(X)
    PROVE  s \o t \in Seq(X) /\ Joins(s \o t, s, t)
  <1>1. /\ s \o t \in Seq(X) /\ Len(s \o t) = Len(s) + Len(t)
        /\ \A b \in 1 .. Len(s) + Len(t) : (s \o t)[b] = IF b <= Len(s) THEN s[b] ELSE t[b - Len(s)]
    BY ConcatProperties, Zenon
  <1> PICK m \in Nat, l \in Nat : m = Len(s) /\ l = Len(t)
    OBVIOUS
  <1>2. \A b \in 1 .. m + l : (s \o t)[b] = IF b <= m THEN s[b] ELSE t[b - m]
    BY <1>1, Zenon
  <1>3. /\ \A b \in 1 .. m : b \in 1 .. m + l /\ b <= m
        /\ \A b \in 1 .. l : m + b \in 1 .. m + l /\ ~(m + b <= m) /\ (m + b) - m = b
    BY JoinPositions
  <1>4. ASSUME NEW b \in 1 .. m PROVE (s \o t)[b] = s[b]
    BY <1>2, <1>3, Zenon
  <1>5. ASSUME NEW b \in 1 .. l PROVE (s \o t)[m + b] = t[b]
    <2>1. (s \o t)[m + b] = t[(m + b) - m]
      BY <1>2, <1>3, Zenon
    <2> QED BY <1>3, <2>1, Zenon
  <1> QED BY <1>1, <1>4, <1>5, Zenon DEF Joins

\* Parts of these lengths follow one another: part k begins behind position
\* at[k], the last one ends at the end.
Layout(at, parts) ==
    /\ at \in [1 .. Len(parts) + 1 -> Nat] /\ at[1] = 0
    /\ \A k \in 1 .. Len(parts) : at[k + 1] = at[k] + Len(parts[k])

\* w is the parts, one after another.
Concatenates(w, at, parts) ==
    /\ Layout(at, parts) /\ Len(w) = at[Len(parts) + 1]
    /\ \A k \in 1 .. Len(parts) : \A b \in 1 .. Len(parts[k]) : w[at[k] + b] = parts[k][b]

\* The sequences that are put together.
Lists(X) == Seq(Seq(X))

LEMMA ListParts ==
    ASSUME NEW X, NEW parts \in Lists(X)
    PROVE  /\ Len(parts) \in Nat /\ \A k \in 1 .. Len(parts) : parts[k] \in Seq(X)
           /\ parts = <<>> <=> Len(parts) = 0
  BY DEF Lists

\* FlattenSeq is what its recursive definition says, if it has parts.
LEMMA FlattenDef ==
    ASSUME NEW X, NEW parts \in Lists(X), parts # <<>>
    PROVE  \E f \in [1 .. Len(parts) -> Seq(X)] :
             /\ f[1] = parts[1]
             /\ \A k \in 2 .. Len(parts) : f[k] = f[k - 1] \o parts[k]
             /\ FlattenSeq(parts) = f[Len(parts)]
  <1> PICK n \in Nat \ {0} : n = Len(parts)
    BY ListParts
  <1>1. \A k \in 1 .. n : parts[k] \in Seq(X)
    BY ListParts
  <1> SUFFICES \E f \in [1 .. n -> Seq(X)] : /\ f[1] = parts[1]
                                             /\ \A k \in 2 .. n : f[k] = f[k - 1] \o parts[k]
                                             /\ FlattenSeq(parts) = f[n]
    OBVIOUS
  <1> DEFINE A == Seq(X)
             step == [p \in (1 .. n) \X A |-> IF p[1] = 1 THEN parts[p[1]] ELSE p[2] \o parts[p[1]]]
  <1>2. ASSUME NEW p \in (1 .. n) \X A
        PROVE  (IF p[1] = 1 THEN parts[p[1]] ELSE p[2] \o parts[p[1]]) \in A
    BY <1>1
  <1>3. step \in [(1 .. n) \X A -> A] /\ <<>> \in A
    BY <1>2
  <1>4. \A k \in 1 .. n : \A s \in A : step[<<k, s>>] = IF k = 1 THEN parts[k] ELSE s \o parts[k]
    OBVIOUS
  <1> HIDE DEF step, A
  <1>5. PICK g \in [0 .. n -> A] : Recursive(g, n, <<>>, step)
    <2>1. n \in Nat
      OBVIOUS
    <2> QED BY <1>3, <2>1, Recursion, Zenon
  <1> DEFINE f == [k \in 1 .. n |-> g[k]]
  <1>6. ASSUME NEW k \in 1 .. n
        PROVE  f[k] = IF k = 1 THEN parts[k] ELSE f[k - 1] \o parts[k]
    <2>1. k - 1 \in 0 .. n /\ k \in 0 .. n /\ k # 0
      BY <1>1
    <2>2. g[k] = step[<<k, g[k - 1]>>] /\ g[k - 1] \in A
      BY <1>5, <2>1 DEF Recursive
    <2>3. k # 1 => k - 1 \in 1 .. n
      BY <1>1
    <2> QED BY <1>4, <2>2, <2>3
  <1>7. f \in [1 .. n -> A] /\ f = [k \in 1 .. n |-> f[k]]
    BY <1>5
  <1> HIDE DEF f
  <1>8. f = [k \in 1 .. n |-> IF k = 1 THEN parts[k] ELSE f[k - 1] \o parts[k]]
    BY <1>6, <1>7
  <1> DEFINE F == CHOOSE h : h = [k \in 1 .. n |-> IF k = 1 THEN parts[k] ELSE h[k - 1] \o parts[k]]
  <1>9. F = [k \in 1 .. n |-> IF k = 1 THEN parts[k] ELSE F[k - 1] \o parts[k]]
    BY <1>8
  <1>10. FlattenSeq(parts) = F[n]
    BY <1>1 DEF FlattenSeq
  <1> HIDE DEF F
  <1>11. \A k \in 1 .. n : F[k] = IF k = 1 THEN parts[k] ELSE F[k - 1] \o parts[k]
    BY <1>9
  <1> DEFINE S == {k \in Nat : k + 1 \in 1 .. n => F[k + 1] \in Seq(X)}
  <1>12. 0 \in S
    BY <1>1, <1>11
  <1>13. ASSUME NEW k \in Nat, k \in S PROVE k + 1 \in S
    <2> SUFFICES ASSUME k + 2 \in 1 .. n PROVE F[k + 2] \in Seq(X)
      OBVIOUS
    <2>1. F[k + 1] \in Seq(X)
      BY <1>1, <1>13
    <2>2. F[k + 2] = F[k + 1] \o parts[k + 2]
      <3>1. (k + 2) - 1 = k + 1 /\ k + 2 # 1
        OBVIOUS
      <3>2. F[k + 2] = F[(k + 2) - 1] \o parts[k + 2]
        BY <1>11, <3>1, Zenon
      <3> QED BY <3>1, <3>2
    <2> QED BY <1>1, <2>1, <2>2
  <1>14. ASSUME NEW k \in 1 .. n PROVE F[k] \in Seq(X)
    <2>1. k - 1 \in Nat
      BY <1>1
    <2>2. Nat \subseteq S
      <3> HIDE DEF S
      <3> QED BY <1>12, <1>13, Induction
    <2>3. k - 1 \in S
      BY <2>1, <2>2
    <2> QED BY <1>1, <2>3
  <1> DEFINE H == [k \in 1 .. n |-> F[k]]
  <1>15. H \in [1 .. n -> Seq(X)]
    BY <1>14
  <1>16. H[1] = parts[1] /\ FlattenSeq(parts) = H[n]
    BY <1>1, <1>10, <1>11
  <1>17. ASSUME NEW k \in 2 .. n PROVE H[k] = H[k - 1] \o parts[k]
    <2>1. k \in 1 .. n /\ k - 1 \in 1 .. n /\ k # 1
      OBVIOUS
    <2>2. F[k] = F[k - 1] \o parts[k] /\ H[k] = F[k] /\ H[k - 1] = F[k - 1]
      BY <1>11, <2>1
    <2> QED BY <2>2
  <1> HIDE DEF H
  <1> QED BY <1>15, <1>16, <1>17

\* What is laid out like the parts is their concatenation.
LEMMA FlattenIs ==
    ASSUME NEW X, NEW parts \in Lists(X), NEW w \in Seq(X), NEW at, Concatenates(w, at, parts)
    PROVE  FlattenSeq(parts) = w
  <1>1. /\ Len(w) \in Nat /\ Len(parts) \in Nat /\ \A k \in 1 .. Len(parts) : parts[k] \in Seq(X)
        /\ parts = <<>> <=> Len(parts) = 0
    BY ListParts
  <1>2. CASE parts = <<>>
    <2>1. Len(w) = 0
      BY <1>2 DEF Concatenates, Layout
    <2>2. w = <<>> /\ Len(parts) = 0
      BY <1>2, <2>1
    <2> QED BY <1>2, <2>2 DEF FlattenSeq
  <1>3. CASE parts # <<>>
    <2> PICK n \in Nat \ {0} : n = Len(parts)
      BY <1>1, <1>3
    <2>1. n \in Nat /\ n # 0 /\ at \in [1 .. n + 1 -> Nat]
      BY <1>1, <1>3 DEF Concatenates, Layout
    <2>2. /\ at[1] = 0 /\ at[n + 1] = Len(w)
          /\ \A k \in 1 .. n : at[k + 1] = at[k] + Len(parts[k]) /\ at[k] \in Nat
          /\ \A k \in 1 .. n : \A b \in 1 .. Len(parts[k]) : w[at[k] + b] = parts[k][b]
      <3>1. Layout(at, parts) /\ Len(w) = at[n + 1]
        BY DEF Concatenates
      <3>2. at[1] = 0 /\ \A k \in 1 .. n : at[k + 1] = at[k] + Len(parts[k])
        BY <3>1 DEF Layout
      <3>3. \A k \in 1 .. n : at[k] \in Nat
        BY <2>1
      <3>4. \A k \in 1 .. n : \A b \in 1 .. Len(parts[k]) : w[at[k] + b] = parts[k][b]
        BY DEF Concatenates
      <3> QED BY <3>1, <3>2, <3>3, <3>4
    <2>3. PICK f \in [1 .. n -> Seq(X)] : /\ f[1] = parts[1]
                                          /\ \A k \in 2 .. n : f[k] = f[k - 1] \o parts[k]
                                          /\ FlattenSeq(parts) = f[n]
      BY <1>3, FlattenDef
    <2> DEFINE Good(k) == Len(f[k]) = at[k + 1] /\ \A b \in 1 .. at[k + 1] : f[k][b] = w[b]
               S == {k \in Nat : k + 1 \in 1 .. n => Good(k + 1)}
    <2>4. Good(1)
      <3>1. at[2] = Len(parts[1]) /\ 1 \in 1 .. n /\ parts[1] \in Seq(X)
        BY <1>1, <2>1, <2>2
      <3> QED BY <2>2, <2>3, <3>1
    <2>5. ASSUME NEW k \in Nat, k + 2 \in 1 .. n, Good(k + 1) PROVE Good(k + 2)
      <3>1. k + 1 \in 1 .. n /\ k + 2 \in 2 .. n /\ (k + 2) - 1 = k + 1
        BY <2>1, <2>5
      <3>2. PICK u \in Seq(X), p \in Seq(X) : u = f[k + 1] /\ p = parts[k + 2]
        <4>1. f[k + 1] \in Seq(X)
          BY <3>1
        <4>2. parts[k + 2] \in Seq(X)
          BY <1>1, <3>1
        <4> QED BY <4>1, <4>2
      <3>3. PICK m \in Nat, l \in Nat : m = at[k + 2] /\ l = Len(p)
        BY <2>2, <2>5, <3>2
      <3>4. f[k + 2] = u \o p /\ at[k + 3] = m + l
        <4>1. f[k + 2] = f[k + 1] \o parts[k + 2]
          BY <2>3, <3>1
        <4>2. at[(k + 2) + 1] = at[k + 2] + Len(parts[k + 2])
          BY <2>2, <2>5
        <4>3. (k + 2) + 1 = k + 3
          OBVIOUS
        <4> QED BY <3>2, <3>3, <4>1, <4>2, <4>3
      <3>5. Len(u) = m /\ \A b \in 1 .. m : u[b] = w[b]
        BY <2>5, <3>2, <3>3
      <3>6. \A b \in 1 .. l : w[m + b] = p[b]
        BY <2>2, <2>5, <3>2, <3>3
      <3>7. /\ Len(u \o p) = m + l
            /\ \A b \in 1 .. m : (u \o p)[b] = u[b]
            /\ \A b \in 1 .. l : (u \o p)[m + b] = p[b]
        <4>1. /\ Len(u \o p) = Len(u) + Len(p)
              /\ \A b \in 1 .. Len(u) : (u \o p)[b] = u[b]
              /\ \A b \in 1 .. Len(p) : (u \o p)[Len(u) + b] = p[b]
          <5>1. Joins(u \o p, u, p)
            BY ConcatParts, Zenon
          <5> QED BY <5>1 DEF Joins
        <4> QED BY <3>3, <3>5, <4>1, Zenon
      <3>8. ASSUME NEW b \in 1 .. m + l PROVE (u \o p)[b] = w[b]
        <4>1. CASE b \in 1 .. m
          BY <3>5, <3>7, <4>1
        <4>2. CASE b - m \in 1 .. l /\ m + (b - m) = b
          <5>1. (u \o p)[m + (b - m)] = p[b - m] /\ w[m + (b - m)] = p[b - m]
            BY <3>6, <3>7, <4>2, Zenon
          <5> QED BY <4>2, <5>1, Zenon
        <4>3. \A c \in 1 .. m + l : c \in 1 .. m \/ (c - m \in 1 .. l /\ m + (c - m) = c)
          BY JoinPositions
        <4> QED BY <4>1, <4>2, <4>3, Zenon
      <3> QED BY <3>4, <3>7, <3>8
    <2>6. Good(n)
      <3>1. 0 \in S
        BY <2>4
      <3>2. ASSUME NEW k \in Nat, k \in S PROVE k + 1 \in S
        <4> SUFFICES ASSUME k + 2 \in 1 .. n PROVE Good(k + 2)
          OBVIOUS
        <4> HIDE DEF Good
        <4>1. Good(k + 1)
          BY <2>1, <3>2
        <4> QED BY <2>5, <4>1
      <3>3. Nat \subseteq S
        <4> HIDE DEF S
        <4> QED BY <3>1, <3>2, Induction
      <3>4. n - 1 \in Nat
        BY <2>1
      <3>5. n - 1 \in S
        BY <3>3, <3>4
      <3> HIDE DEF Good
      <3> QED BY <2>1, <3>5
    <2>7. f[n] \in Seq(X) /\ Len(f[n]) = Len(w) /\ \A b \in 1 .. Len(w) : f[n][b] = w[b]
      BY <2>1, <2>2, <2>6
    <2>8. f[n] = w
      BY <2>7, SeqEqual
    <2> QED BY <2>3, <2>8
  <1> QED BY <1>2, <1>3

\* A concatenation is laid out like its parts.
LEMMA FlattenHas ==
    ASSUME NEW X, NEW parts \in Lists(X)
    PROVE  FlattenSeq(parts) \in Seq(X) /\ \E at : Concatenates(FlattenSeq(parts), at, parts)
  <1>1. CASE parts = <<>>
    <2>1. FlattenSeq(parts) = <<>> /\ Len(parts) = 0
      BY <1>1 DEF FlattenSeq
    <2> DEFINE at == [k \in 1 .. 1 |-> 0]
    <2>2. at \in [1 .. 0 + 1 -> Nat] /\ at[1] = 0 /\ at[0 + 1] = 0 /\ 1 .. 0 = {}
      OBVIOUS
    <2> HIDE DEF at
    <2>3. <<>> \in Seq(X) /\ Len(<<>>) = 0
      OBVIOUS
    <2>4. Layout(at, parts)
      BY <2>1, <2>2 DEF Layout
    <2>5. Concatenates(<<>>, at, parts)
      BY <2>1, <2>2, <2>3, <2>4 DEF Concatenates
    <2> QED BY <2>1, <2>3, <2>5
  <1>2. CASE parts # <<>>
    <2> PICK n \in Nat \ {0} : n = Len(parts)
      BY <1>2, ListParts
    <2>1. PICK f \in [1 .. n -> Seq(X)] : /\ f[1] = parts[1]
                                          /\ \A k \in 2 .. n : f[k] = f[k - 1] \o parts[k]
                                          /\ FlattenSeq(parts) = f[n]
      BY <1>2, FlattenDef
    <2> DEFINE at == [k \in 1 .. n + 1 |-> IF k = 1 THEN 0 ELSE Len(f[k - 1])]
    <2>2. ASSUME NEW k \in 1 .. n
          PROVE  /\ f[k] \in Seq(X) /\ Len(f[k]) \in Nat /\ parts[k] \in Seq(X)
                 /\ Len(parts[k]) \in Nat
      <3>1. f[k] \in Seq(X) /\ parts[k] \in Seq(X)
        BY ListParts
      <3> QED BY <3>1
    <2>3. at \in [1 .. n + 1 -> Nat] /\ at[1] = 0 /\ \A k \in 1 .. n : at[k + 1] = Len(f[k])
      <3>1. ASSUME NEW k \in 1 .. n + 1 PROVE (IF k = 1 THEN 0 ELSE Len(f[k - 1])) \in Nat
        <4>1. k # 1 => k - 1 \in 1 .. n
          OBVIOUS
        <4> QED BY <2>2, <4>1
      <3>2. ASSUME NEW k \in 1 .. n PROVE at[k + 1] = Len(f[k])
        <4>1. k + 1 \in 1 .. n + 1 /\ k + 1 # 1 /\ (k + 1) - 1 = k
          OBVIOUS
        <4> QED BY <4>1
      <3> QED BY <3>1, <3>2
    <2> HIDE DEF at
    <2>4. ASSUME NEW k \in 1 .. n, k # 1
          PROVE  /\ Len(f[k]) = Len(f[k - 1]) + Len(parts[k]) /\ k - 1 \in 1 .. n
                 /\ \A b \in 1 .. Len(f[k - 1]) : f[k][b] = f[k - 1][b]
                 /\ \A b \in 1 .. Len(parts[k]) : f[k][Len(f[k - 1]) + b] = parts[k][b]
      <3>1. k - 1 \in 1 .. n /\ k \in 2 .. n
        BY <2>4
      <3> PICK u \in Seq(X), p \in Seq(X) : u = f[k - 1] /\ p = parts[k]
        BY <2>2, <3>1
      <3>2. f[k] = u \o p
        BY <2>1, <3>1
      <3>3. /\ Len(u \o p) = Len(u) + Len(p)
            /\ \A b \in 1 .. Len(u) : (u \o p)[b] = u[b]
            /\ \A b \in 1 .. Len(p) : (u \o p)[Len(u) + b] = p[b]
        <4>1. Joins(u \o p, u, p)
          BY ConcatParts, Zenon
        <4> QED BY <4>1 DEF Joins
      <3> QED BY <3>1, <3>2, <3>3, Zenon
    <2>5. ASSUME NEW k \in 1 .. n PROVE at[k + 1] = at[k] + Len(parts[k])
      <3>1. CASE k = 1
        BY <2>1, <2>2, <2>3, <3>1
      <3>2. CASE k # 1
        <4>0. k - 1 \in 1 .. n /\ (k - 1) + 1 = k
          BY <3>2
        <4>1. at[k + 1] = Len(f[k]) /\ at[(k - 1) + 1] = Len(f[k - 1]) /\ (k - 1) + 1 = k
          BY <2>3, <4>0
        <4> QED BY <2>4, <3>2, <4>1
      <3> QED BY <3>1, <3>2
    <2> DEFINE Good(k) == \A j \in 1 .. k : /\ at[j + 1] <= Len(f[k])
                                            /\ \A b \in 1 .. Len(parts[j]) : f[k][at[j] + b] = parts[j][b]
               S == {k \in Nat : k + 1 \in 1 .. n => Good(k + 1)}
    <2>6. Good(1)
      <3>1. 1 \in 1 .. n /\ at[1] = 0 /\ at[1 + 1] = Len(f[1]) /\ f[1] = parts[1]
        BY <2>1, <2>3
      <3>2. \A b \in 1 .. Len(parts[1]) : f[1][0 + b] = parts[1][b]
        BY <2>2, <3>1
      <3>3. \A j \in 1 .. 1 : j = 1
        OBVIOUS
      <3>4. Len(f[1]) \in Nat
        BY <2>2, <3>1
      <3> QED BY <3>1, <3>2, <3>3, <3>4
    <2>7. ASSUME NEW k \in Nat, k + 2 \in 1 .. n, Good(k + 1) PROVE Good(k + 2)
      <3>1. k + 2 # 1 /\ (k + 2) - 1 = k + 1 /\ k + 1 \in 1 .. n
        BY <2>7
      <3>2. /\ Len(f[k + 2]) = Len(f[k + 1]) + Len(parts[k + 2])
            /\ \A b \in 1 .. Len(f[k + 1]) : f[k + 2][b] = f[k + 1][b]
            /\ \A b \in 1 .. Len(parts[k + 2]) : f[k + 2][Len(f[k + 1]) + b] = parts[k + 2][b]
        <4>1. /\ Len(f[k + 2]) = Len(f[(k + 2) - 1]) + Len(parts[k + 2])
              /\ \A b \in 1 .. Len(f[(k + 2) - 1]) : f[k + 2][b] = f[(k + 2) - 1][b]
              /\ \A b \in 1 .. Len(parts[k + 2]) :
                   f[k + 2][Len(f[(k + 2) - 1]) + b] = parts[k + 2][b]
          BY <2>4, <2>7, <3>1, Zenon
        <4> QED BY <3>1, <4>1, Zenon
      <3>3. Len(f[k + 1]) \in Nat /\ Len(parts[k + 2]) \in Nat /\ Len(f[k + 2]) \in Nat
        BY <2>2, <2>7, <3>1
      <3>4. ASSUME NEW j \in 1 .. k + 1
            PROVE  /\ at[j + 1] <= Len(f[k + 2])
                   /\ \A b \in 1 .. Len(parts[j]) : f[k + 2][at[j] + b] = parts[j][b]
        <4>1. /\ at[j + 1] <= Len(f[k + 1]) /\ \A b \in 1 .. Len(parts[j]) : f[k + 1][at[j] + b] = parts[j][b]
          BY <2>7
        <4>2. j \in 1 .. n /\ at[j] \in Nat /\ at[j + 1] = at[j] + Len(parts[j]) /\ Len(parts[j]) \in Nat
          BY <2>2, <2>3, <2>5, <3>1
        <4>3. ASSUME NEW b \in 1 .. Len(parts[j]) PROVE at[j] + b \in 1 .. Len(f[k + 1])
          BY <3>3, <4>1, <4>2
        <4>4. \A b \in 1 .. Len(parts[j]) : f[k + 2][at[j] + b] = parts[j][b]
          BY <3>2, <4>1, <4>3, Zenon
        <4>5. at[j + 1] <= Len(f[k + 2])
          <5>1. \A a, u, v, w \in Nat : a <= u /\ v = u + w => a <= v
            OBVIOUS
          <5>2. at[j + 1] \in Nat
            BY <2>3, <4>2
          <5>3. at[j + 1] <= Len(f[k + 1]) /\ Len(f[k + 2]) = Len(f[k + 1]) + Len(parts[k + 2])
            BY <3>2, <4>1, Zenon
          <5> QED BY <3>3, <5>1, <5>2, <5>3, Zenon
        <4> QED BY <4>4, <4>5
      <3>5. /\ at[(k + 2) + 1] = Len(f[k + 2]) /\ at[(k + 1) + 1] = Len(f[k + 1])
            /\ (k + 1) + 1 = k + 2
        BY <2>3, <2>7, <3>1
      <3>6. \A b \in 1 .. Len(parts[k + 2]) : f[k + 2][at[k + 2] + b] = parts[k + 2][b]
        BY <3>2, <3>5
      <3>7. \A j \in 1 .. k + 2 : j \in 1 .. k + 1 \/ j = k + 2
        OBVIOUS
      <3>8. at[(k + 2) + 1] <= Len(f[k + 2])
        BY <3>3, <3>5
      <3> QED BY <3>4, <3>6, <3>7, <3>8
    <2>8. Good(n)
      <3>1. 0 \in S
        BY <2>6
      <3>2. ASSUME NEW k \in Nat, k \in S PROVE k + 1 \in S
        <4> SUFFICES ASSUME k + 2 \in 1 .. n PROVE Good(k + 2)
          OBVIOUS
        <4> HIDE DEF Good
        <4>1. Good(k + 1)
          BY <3>2
        <4> QED BY <2>7, <4>1
      <3>3. Nat \subseteq S
        <4> HIDE DEF S
        <4> QED BY <3>1, <3>2, Induction
      <3>4. n - 1 \in Nat
        OBVIOUS
      <3>5. n - 1 \in S
        BY <3>3, <3>4
      <3> HIDE DEF Good
      <3> QED BY <3>5
    <2>9. n \in 1 .. n /\ f[n] \in Seq(X) /\ Len(f[n]) = at[n + 1]
      BY <2>2, <2>3
    <2>10. Layout(at, parts)
      BY <2>3, <2>5 DEF Layout
    <2>11. Concatenates(f[n], at, parts)
      BY <2>8, <2>9, <2>10 DEF Concatenates
    <2> QED BY <2>1, <2>9, <2>11
  <1> QED BY <1>1, <1>2
-----------------------------------------------------------------------------
(* A sequence by its place in another.                                     *)

\* s is what stands in w from behind position p.
Stands(s, w, p) == p + Len(s) <= Len(w) /\ \A b \in 1 .. Len(s) : s[b] = w[p + b]

\* Two sequences stand in what they are joined to.
LEMMA StandsJoined ==
    ASSUME NEW X, NEW s \in Seq(X), NEW t \in Seq(X)
    PROVE  /\ s \o t \in Seq(X) /\ Len(s \o t) = Len(s) + Len(t)
           /\ Stands(s, s \o t, 0) /\ Stands(t, s \o t, Len(s))
  <1> PICK m \in Nat, l \in Nat : m = Len(s) /\ l = Len(t)
    OBVIOUS
  <1>1. s \o t \in Seq(X) /\ Joins(s \o t, s, t)
    BY ConcatParts
  <1> DEFINE w == s \o t
  <1> HIDE DEF w
  <1>2. /\ Len(w) = m + l
        /\ \A b \in 1 .. m : w[b] = s[b]
        /\ \A b \in 1 .. l : w[m + b] = t[b]
    BY <1>1 DEF Joins, w
  <1>3. Stands(s, w, 0)
    BY <1>2 DEF Stands
  <1>4. Stands(t, w, m)
    BY <1>2 DEF Stands
  <1> QED BY <1>1, <1>2, <1>3, <1>4 DEF w

\* What stands in w stands where w stands.
LEMMA StandsWithin ==
    ASSUME NEW X, NEW s \in Seq(X), NEW w \in Seq(X), NEW all \in Seq(X), NEW p \in Nat, NEW q \in Nat,
           Stands(s, w, q), Stands(w, all, p)
    PROVE  Stands(s, all, p + q)
  <1> PICK m \in Nat, l \in Nat, n \in Nat : m = Len(s) /\ l = Len(w) /\ n = Len(all)
    OBVIOUS
  <1>1. q + m <= l /\ p + l <= n
    BY DEF Stands
  <1>2. ASSUME NEW b \in 1 .. m PROVE s[b] = all[(p + q) + b]
    <2>1. q + b \in 1 .. l /\ p + (q + b) = (p + q) + b
      BY <1>1
    <2>2. s[b] = w[q + b] /\ w[q + b] = all[p + (q + b)]
      BY <2>1 DEF Stands
    <2> QED BY <2>1, <2>2
  <1>3. (p + q) + m <= n
    BY <1>1
  <1> QED BY <1>2, <1>3 DEF Stands

\* In one place stands one sequence of a length.
LEMMA StandsOne ==
    ASSUME NEW X, NEW s \in Seq(X), NEW t \in Seq(X), NEW all, NEW p,
           Stands(s, all, p), Stands(t, all, p), Len(s) = Len(t)
    PROVE  s = t
  <1>1. \A b \in 1 .. Len(s) : s[b] = t[b]
    BY DEF Stands
  <1> QED BY <1>1, SeqEqual, Zenon

\* Later parts are further behind.
LEMMA LayoutGrows ==
    ASSUME NEW X, NEW parts \in Lists(X), NEW at, Layout(at, parts),
           NEW j \in 1 .. Len(parts) + 1, NEW k \in j .. Len(parts) + 1
    PROVE  at[j] \in Nat /\ at[k] \in Nat /\ at[j] <= at[k]
  <1>1. /\ Len(parts) \in Nat /\ at \in [1 .. Len(parts) + 1 -> Nat]
        /\ \A l \in 1 .. Len(parts) : at[l + 1] = at[l] + Len(parts[l]) /\ Len(parts[l]) \in Nat
    <2>1. Len(parts) \in Nat /\ \A l \in 1 .. Len(parts) : parts[l] \in Seq(X)
      BY ListParts
    <2>2. \A l \in 1 .. Len(parts) : Len(parts[l]) \in Nat
      BY <2>1
    <2> QED BY <2>1, <2>2 DEF Layout
  <1> PICK n \in Nat : n = Len(parts)
    BY <1>1
  <1>2. at \in [1 .. n + 1 -> Nat] /\ \A l \in 1 .. n : at[l + 1] >= at[l]
    <2>1. at \in [1 .. n + 1 -> Nat]
      BY <1>1
    <2>2. \A l \in 1 .. n : at[l] \in Nat
      BY <2>1
    <2> QED BY <1>1, <2>1, <2>2
  <1>3. j \in 1 .. n + 1 /\ k \in j .. n + 1
    OBVIOUS
  <1> DEFINE S == {d \in Nat : j + d <= n + 1 => at[j] <= at[j + d]}
  <1>4. 0 \in S
    <2>1. at[j] \in Nat /\ j + 0 = j
      BY <1>2, <1>3
    <2> QED BY <2>1
  <1>5. ASSUME NEW d \in Nat, d \in S PROVE d + 1 \in S
    <2> SUFFICES ASSUME j + (d + 1) <= n + 1 PROVE at[j] <= at[j + (d + 1)]
      OBVIOUS
    <2>1. j + d \in 1 .. n /\ (j + d) + 1 = j + (d + 1) /\ j + (d + 1) \in 1 .. n + 1 /\ j + d \in 1 .. n + 1
      BY <1>3
    <2>2. at[j] <= at[j + d] /\ at[j + d] <= at[(j + d) + 1]
      BY <1>2, <1>3, <1>5, <2>1
    <2>3. at[j] \in Nat /\ at[j + d] \in Nat /\ at[j + (d + 1)] \in Nat
      BY <1>2, <1>3, <2>1
    <2> QED BY <2>1, <2>2, <2>3
  <1>6. Nat \subseteq S
    <2> HIDE DEF S
    <2> QED BY <1>4, <1>5, Induction
  <1>7. k - j \in Nat /\ j + (k - j) = k
    BY <1>3
  <1>8. k - j \in S
    BY <1>6, <1>7
  <1> QED BY <1>2, <1>3, <1>7, <1>8

\* The two ways of reading b, u, v and t in one order.
Regroup(b, u, v, t) == (b \o (u \o v)) \o t = (b \o u) \o (v \o t)

LEMMA Regrouped ==
    ASSUME NEW X, NEW b \in Seq(X), NEW u \in Seq(X), NEW v \in Seq(X), NEW t \in Seq(X)
    PROVE  Regroup(b, u, v, t)
  <1>1. b \o u \in Seq(X)
    OBVIOUS
  <1>2. (b \o u) \o v = b \o (u \o v)
    BY ConcatAssociative
  <1> PICK p \in Seq(X) : p = b \o u
    BY <1>1
  <1>3. (p \o v) \o t = p \o (v \o t)
    BY ConcatAssociative
  <1> QED BY <1>2, <1>3 DEF Regroup

\* The first n of s, and the others.
FirstOf(s, n) == SubSeq(s, 1, n)
RestOf(s, n) == SubSeq(s, n + 1, Len(s))

\* The first n of s go over to what is before it.
Splits(X, b, s, t, n) ==
    /\ FirstOf(s, n) \in Seq(X) /\ RestOf(s, n) \in Seq(X)
    /\ Len(FirstOf(s, n)) = n /\ Len(RestOf(s, n)) = Len(s) - n
    /\ FirstOf(s, n) \o RestOf(s, n) = s
    /\ (b \o s) \o t = (b \o FirstOf(s, n)) \o (RestOf(s, n) \o t)

\* What is left of the stream when the first bytes that are wanted are taken.
LEMMA StreamSplit ==
    ASSUME NEW X, NEW b \in Seq(X), NEW s \in Seq(X), NEW t \in Seq(X), NEW n \in 0 .. Len(s)
    PROVE  Splits(X, b, s, t, n)
  <1> DEFINE u == SubSeq(s, 1, n)
             v == SubSeq(s, n + 1, Len(s))
  <1>1. u \in Seq(X) /\ v \in Seq(X) /\ Len(u) = n /\ Len(v) = Len(s) - n
    <2> PICK m \in Nat : m = Len(s)
      OBVIOUS
    <2>1. s \in [1 .. m -> X] /\ n \in 0 .. m
      BY LenProperties
    <2>2. /\ \A k \in 1 .. n : s[k] \in X
          /\ \A k \in n + 1 .. m : s[k] \in X
          /\ n \in Int /\ n + 1 \in Int /\ m \in Int /\ 1 \in Int
      BY <2>1
    <2>3. u \in Seq(X) /\ Len(u) = n
      BY <2>1, <2>2, SubSeqProperties
    <2>4. SubSeq(s, n + 1, m) \in Seq(X) /\ Len(SubSeq(s, n + 1, m)) = m - n
      BY <2>1, <2>2, SubSeqProperties
    <2> QED BY <2>3, <2>4
  <1>2. u \o v = s
    <2>1. 1 \in 1 .. Len(s) + 1 /\ n \in 1 - 1 .. Len(s) /\ Len(s) \in n .. Len(s)
      OBVIOUS
    <2>2. SubSeq(s, 1, n) \o SubSeq(s, n + 1, Len(s)) = SubSeq(s, 1, Len(s))
      BY <2>1, ConcatAdjacentSubSeq, Zenon
    <2> QED BY <2>2, SubSeqFull
  <1> HIDE DEF u, v
  <1>3. (b \o (u \o v)) \o t = (b \o u) \o (v \o t)
    <2>1. u \in Seq(X) /\ v \in Seq(X)
      BY <1>1
    <2>2. Regroup(b, u, v, t)
      BY <2>1, Regrouped, Zenon
    <2> QED BY <2>2 DEF Regroup
  <1> QED BY <1>1, <1>2, <1>3 DEF Splits, FirstOf, RestOf, u, v

\* u is what stands in all from behind position p to the end.
Ends(u, all, p) == Stands(u, all, p) /\ p + Len(u) = Len(all)

\* Both grow by e at the end.
LEMMA StandsExtended ==
    ASSUME NEW X, NEW v \in Seq(X), NEW e \in Seq(X), NEW all \in Seq(X), NEW q \in Nat,
           Ends(v, all, q)
    PROVE  Ends(v \o e, all \o e, q)
  <1> PICK m \in Nat, l \in Nat, n \in Nat : m = Len(v) /\ l = Len(e) /\ n = Len(all)
    OBVIOUS
  <1>1. Joins(v \o e, v, e) /\ Joins(all \o e, all, e)
    BY ConcatParts, Zenon
  <1> DEFINE w == v \o e
             u == all \o e
  <1>2. Joins(w, v, e) /\ Joins(u, all, e)
    BY <1>1
  <1> HIDE DEF w, u
  <1>3. /\ Len(w) = m + l
        /\ \A b \in 1 .. m : w[b] = v[b]
        /\ \A b \in 1 .. l : w[m + b] = e[b]
    BY <1>2 DEF Joins
  <1>4. /\ Len(u) = n + l
        /\ \A b \in 1 .. n : u[b] = all[b]
        /\ \A b \in 1 .. l : u[n + b] = e[b]
    BY <1>2 DEF Joins
  <1>5. \A b \in 1 .. m : v[b] = all[q + b]
    BY DEF Ends, Stands
  <1>6. q + m = n
    BY DEF Ends
  <1>7. ASSUME NEW b \in 1 .. m + l PROVE w[b] = u[q + b]
    <2>1. CASE b \in 1 .. m
      <3>1. q + b \in 1 .. n
        BY <1>6, <2>1
      <3> QED BY <1>3, <1>4, <1>5, <2>1, <3>1
    <2>2. CASE b - m \in 1 .. l
      <3>d. PICK d \in 1 .. l : d = b - m
        BY <2>2
      <3>1. m + d = b /\ n + d = q + b
        BY <1>6, <3>d
      <3>2. w[m + d] = e[d] /\ u[n + d] = e[d]
        BY <1>3, <1>4
      <3> QED BY <3>1, <3>2
    <2> QED BY <2>1, <2>2
  <1>8. q + Len(w) <= Len(u) /\ q + Len(w) = Len(u)
    <2>1. q + (m + l) <= n + l /\ q + (m + l) = n + l
      BY <1>6
    <2> QED BY <1>3, <1>4, <2>1
  <1>9. Stands(w, u, q)
    BY <1>3, <1>7, <1>8 DEF Stands
  <1> QED BY <1>8, <1>9 DEF Ends, w, u

\* One part more.
LEMMA ConcatenatesMore ==
    ASSUME NEW X, NEW all \in Seq(X), NEW parts \in Lists(X), NEW at, Concatenates(all, at, parts),
           NEW e \in Seq(X), NEW parts2 \in Lists(X), Len(parts2) = Len(parts) + 1,
           parts2[Len(parts) + 1] = e, \A k \in 1 .. Len(parts) : parts2[k] = parts[k]
    PROVE  \E place : /\ Concatenates(all \o e, place, parts2)
                      /\ \A k \in 1 .. Len(parts) + 1 : place[k] = at[k]
  <1>1. Len(parts) \in Nat /\ \A k \in 1 .. Len(parts) : parts[k] \in Seq(X)
    BY ListParts
  <1> PICK n \in Nat : n = Len(parts)
    BY <1>1
  <1>2. /\ at \in [1 .. n + 1 -> Nat] /\ at[1] = 0 /\ Len(all) = at[n + 1]
        /\ \A k \in 1 .. n : at[k + 1] = at[k] + Len(parts[k])
    BY DEF Concatenates, Layout
  <1>3. \A k \in 1 .. n : \A b \in 1 .. Len(parts[k]) : all[at[k] + b] = parts[k][b]
    BY DEF Concatenates
  <1> PICK l \in Nat : l = Len(e)
    OBVIOUS
  <1>4. Joins(all \o e, all, e)
    BY ConcatParts, Zenon
  <1> DEFINE w == all \o e
             place == [k \in 1 .. n + 2 |-> IF k = n + 2 THEN at[n + 1] + l ELSE at[k]]
  <1>5. Joins(w, all, e)
    BY <1>4
  <1> HIDE DEF w
  <1>6. \A k \in 1 .. n + 1 : at[k] \in Nat /\ k \in 1 .. n + 2 /\ k # n + 2
    BY <1>2
  <1>7. /\ place \in [1 .. n + 2 -> Nat] /\ place[n + 2] = at[n + 1] + l
        /\ \A k \in 1 .. n + 1 : place[k] = at[k]
    <2>1. at[n + 1] + l \in Nat /\ n + 2 \in 1 .. n + 2
      BY <1>6
    <2>2. \A k \in 1 .. n + 2 : k = n + 2 \/ k \in 1 .. n + 1
      OBVIOUS
    <2> QED BY <1>6, <2>1, <2>2
  <1> HIDE DEF place
  <1>8. /\ Len(w) = at[n + 1] + l
        /\ \A b \in 1 .. at[n + 1] : w[b] = all[b]
        /\ \A b \in 1 .. l : w[at[n + 1] + b] = e[b]
    BY <1>2, <1>5 DEF Joins
  <1>9. \A k \in 1 .. n + 1 : k \in 1 .. n \/ k = n + 1
    OBVIOUS
  <1>10. \A k \in 1 .. n : k \in 1 .. n + 1 /\ k + 1 \in 1 .. n + 1
    OBVIOUS
  <1>11. ASSUME NEW k \in 1 .. n + 1 PROVE place[k + 1] = place[k] + Len(parts2[k])
    <2>1. CASE k \in 1 .. n
      BY <1>2, <1>7, <1>10, <2>1
    <2>2. CASE k = n + 1
      <3>1. k + 1 = n + 2 /\ n + 1 \in 1 .. n + 1
        BY <2>2
      <3> QED BY <1>7, <2>2, <3>1
    <2> QED BY <1>9, <2>1, <2>2
  <1>12. ASSUME NEW k \in 1 .. n + 1, NEW b \in 1 .. Len(parts2[k])
         PROVE  w[place[k] + b] = parts2[k][b]
    <2>1. CASE k \in 1 .. n
      <3>1. place[k] = at[k] /\ at[k] \in Nat /\ parts2[k] = parts[k]
        BY <1>6, <1>7, <1>10, <2>1
      <3>2. Len(parts[k]) \in Nat
        BY <1>1, <2>1
      <3>3. at[k] + Len(parts[k]) <= at[n + 1] /\ at[n + 1] \in Nat
        <4>1. Layout(at, parts) /\ k + 1 \in 1 .. n + 1 /\ n + 1 \in k + 1 .. n + 1
          BY <2>1 DEF Concatenates
        <4>2. at[k + 1] <= at[n + 1] /\ at[n + 1] \in Nat
          BY <4>1, LayoutGrows
        <4> QED BY <1>2, <2>1, <4>2
      <3>4. at[k] + b \in 1 .. at[n + 1] /\ b \in 1 .. Len(parts[k])
        BY <1>12, <3>1, <3>2, <3>3
      <3>5. all[at[k] + b] = parts[k][b] /\ w[at[k] + b] = all[at[k] + b]
        BY <1>3, <1>8, <2>1, <3>4
      <3> QED BY <3>1, <3>5
    <2>2. CASE k = n + 1
      <3>1. place[k] = at[n + 1] /\ parts2[k] = e /\ b \in 1 .. l
        BY <1>7, <1>12, <2>2
      <3> QED BY <1>8, <3>1
    <2> QED BY <1>9, <2>1, <2>2
  <1>13. /\ place \in [1 .. Len(parts2) + 1 -> Nat] /\ place[1] = 0
         /\ Len(w) = place[Len(parts2) + 1]
    <2>1. Len(parts2) + 1 = n + 2 /\ 1 \in 1 .. n + 1
      OBVIOUS
    <2> QED BY <1>2, <1>7, <1>8, <2>1
  <1>14. Concatenates(w, place, parts2)
    BY <1>11, <1>12, <1>13 DEF Concatenates, Layout
  <1> QED BY <1>7, <1>14 DEF w

\* The parts from number r + 1 on are what stands behind at[r + 1].
HasParts(parts, n) == n = Len(parts)
Rest(parts, n, r) == [k \in 1 .. n - r |-> parts[r + k]]

LEMMA RestFlattened ==
    ASSUME NEW X, NEW all \in Seq(X), NEW parts \in Lists(X), NEW at, Concatenates(all, at, parts),
           NEW n \in Nat, HasParts(parts, n), NEW r \in 0 .. n, NEW u \in Seq(X),
           Ends(u, all, at[r + 1])
    PROVE  FlattenSeq(Rest(parts, n, r)) = u
  <1>1. Len(parts) = n /\ \A k \in 1 .. n : parts[k] \in Seq(X)
    BY ListParts DEF HasParts
  <1>p. PICK m \in Nat : m = n - r
    OBVIOUS
  <1>q. n = r + m /\ r \in Nat
    BY <1>p
  <1>2. /\ at \in [1 .. n + 1 -> Nat] /\ Len(all) = at[n + 1] /\ Layout(at, parts)
        /\ \A k \in 1 .. n : at[k + 1] = at[k] + Len(parts[k])
        /\ \A k \in 1 .. n : \A b \in 1 .. Len(parts[k]) : all[at[k] + b] = parts[k][b]
    BY <1>1 DEF Concatenates, Layout
  <1>o. PICK o \in Nat : o = at[r + 1]
    <2>1. r + 1 \in 1 .. n + 1
      OBVIOUS
    <2> QED BY <1>2, <2>1
  <1>u. PICK last \in Nat : /\ last = Len(u) /\ o + last = Len(all)
                            /\ \A b \in 1 .. last : u[b] = all[o + b]
    BY <1>o DEF Ends, Stands
  <1>3. ASSUME NEW k \in 1 .. m + 1 PROVE at[r + k] \in Nat /\ o <= at[r + k]
    <2>1. r + 1 \in 1 .. n + 1 /\ r + k \in r + 1 .. n + 1
      BY <1>q
    <2>2. at[r + 1] <= at[r + k] /\ at[r + k] \in Nat
      BY <1>1, <1>2, <2>1, LayoutGrows
    <2> QED BY <1>o, <2>2
  <1> DEFINE rest == [k \in 1 .. m |-> parts[r + k]]
             place == [k \in 1 .. m + 1 |-> at[r + k] - o]
  <1>4. ASSUME NEW k \in 1 .. m PROVE r + k \in 1 .. n /\ parts[r + k] \in Seq(X)
    <2>1. r + k \in 1 .. n
      BY <1>q
    <2> QED BY <1>1, <2>1
  <1>5. /\ rest \in Lists(X) /\ Len(rest) = m
        /\ \A k \in 1 .. m : rest[k] = parts[r + k]
    <2>1. \A k \in 1 .. m : rest[k] \in Seq(X)
      BY <1>4
    <2>2. rest = [k \in 1 .. m |-> rest[k]]
      OBVIOUS
    <2>3. \A k \in 1 .. m : rest[k] = parts[r + k]
      OBVIOUS
    <2> HIDE DEF rest, place
    <2>4. rest \in Seq(Seq(X)) /\ Len(rest) = m
      BY <2>1, <2>2
    <2> QED BY <2>3, <2>4 DEF Lists
  <1>6. place \in [1 .. m + 1 -> Nat] /\ \A k \in 1 .. m + 1 : place[k] + o = at[r + k] /\ place[k] \in Nat
    <2>1. ASSUME NEW k \in 1 .. m + 1 PROVE at[r + k] - o \in Nat /\ (at[r + k] - o) + o = at[r + k]
      <3>1. PICK v \in Nat : v = at[r + k] /\ o <= v
        BY <1>3
      <3>2. v - o \in Nat /\ (v - o) + o = v
        BY <3>1
      <3> QED BY <3>1, <3>2
    <2> QED BY <2>1
  <1>7. FlattenSeq(rest) = u
    <2> HIDE DEF rest, place
    <2>1. place[1] = 0 /\ last = place[m + 1]
      <3>1. 1 \in 1 .. m + 1 /\ m + 1 \in 1 .. m + 1 /\ r + (m + 1) = n + 1
        BY <1>q
      <3>2. place[1] + o = o /\ place[1] \in Nat
        BY <1>o, <1>6, <3>1
      <3>3. place[m + 1] + o = o + last /\ place[m + 1] \in Nat
        BY <1>u, <1>2, <1>6, <3>1
      <3>4. PICK p \in Nat, q \in Nat : p = place[1] /\ q = place[m + 1]
        BY <3>2, <3>3
      <3>5. p + o = o /\ q + o = o + last
        BY <3>2, <3>3, <3>4
      <3>6. p = 0 /\ q = last
        BY <3>5
      <3> QED BY <3>4, <3>6
    <2>2. ASSUME NEW k \in 1 .. m
          PROVE  /\ place[k + 1] = place[k] + Len(rest[k])
                 /\ \A b \in 1 .. Len(rest[k]) : u[place[k] + b] = rest[k][b]
      <3>1. /\ r + k \in 1 .. n /\ k \in 1 .. m + 1 /\ k + 1 \in 1 .. m + 1
            /\ (r + k) + 1 = r + (k + 1) /\ (r + k) + 1 \in 1 .. n + 1 /\ m + 1 \in 1 .. m + 1
            /\ n + 1 \in (r + k) + 1 .. n + 1
        BY <1>q
      <3>l. PICK l \in Nat : l = Len(rest[k])
        BY <1>4, <1>5
      <3>p. PICK p \in Nat, q \in Nat : p = place[k] /\ q = place[k + 1]
        BY <1>6, <3>1
      <3>2. at[(r + k) + 1] = at[r + k] + l
        BY <1>2, <1>5, <3>1, <3>l
      <3>3. p + o = at[r + k] /\ q + o = at[(r + k) + 1]
        BY <1>6, <3>1, <3>p
      <3>4. q = p + l
        BY <3>2, <3>3
      <3>5. q <= last
        <4>1. at[(r + k) + 1] <= at[n + 1] /\ at[n + 1] \in Nat
          BY <1>1, <1>2, <3>1, LayoutGrows
        <4>2. q + o <= o + last
          BY <1>2, <1>u, <3>3, <4>1
        <4> QED BY <4>2
      <3>6. ASSUME NEW b \in 1 .. l PROVE u[p + b] = rest[k][b]
        <4>1. p + b \in 1 .. last /\ o + (p + b) = (p + o) + b
          BY <3>4, <3>5
        <4>2. u[p + b] = all[o + (p + b)]
          BY <1>u, <4>1
        <4>3. all[at[r + k] + b] = parts[r + k][b]
          <5>1. b \in 1 .. Len(parts[r + k])
            BY <1>5, <3>l
          <5> QED BY <1>2, <3>1, <5>1
        <4> QED BY <1>5, <3>3, <4>1, <4>2, <4>3
      <3>7. place[k + 1] = place[k] + Len(rest[k])
        BY <3>l, <3>p, <3>4
      <3> QED BY <3>l, <3>p, <3>6, <3>7
    <2>3. Concatenates(u, place, rest)
      BY <1>5, <1>6, <1>u, <2>1, <2>2 DEF Concatenates, Layout
    <2> QED BY <1>5, <2>3, FlattenIs
  <1> QED BY <1>p, <1>7 DEF Rest

\* A pair of two elements.
LEMMA PairJoined ==
    ASSUME NEW X, NEW a \in X, NEW c \in X
    PROVE  <<a>> \o <<c>> = <<a, c>>
  <1> DEFINE s == <<a>>
             t == <<c>>
             u == <<a, c>>
  <1>1. s \in Seq(X) /\ t \in Seq(X) /\ Len(s) = 1 /\ Len(t) = 1 /\ s[1] = a /\ t[1] = c
    OBVIOUS
  <1>2. u \in Seq(X) /\ Len(u) = 2 /\ u[1] = a /\ u[2] = c
    OBVIOUS
  <1> HIDE DEF s, t, u
  <1>3. /\ s \o t \in Seq(X) /\ Len(s \o t) = Len(s) + Len(t)
        /\ Stands(s, s \o t, 0) /\ Stands(t, s \o t, Len(s))
    BY <1>1, StandsJoined, Zenon
  <1> DEFINE w == s \o t
  <1>4. w \in Seq(X) /\ Len(w) = Len(s) + Len(t) /\ Stands(s, w, 0) /\ Stands(t, w, Len(s))
    BY <1>3
  <1> HIDE DEF w
  <1>5. Len(w) = 2 /\ w[1] = a /\ w[2] = c
    <2>1. s[1] = w[0 + 1] /\ t[1] = w[1 + 1]
      BY <1>1, <1>4 DEF Stands
    <2> QED BY <1>1, <1>4, <2>1
  <1>6. \A k \in 1 .. Len(w) : w[k] = u[k]
    BY <1>2, <1>5
  <1>7. w = u
    BY <1>2, <1>4, <1>5, <1>6, SeqEqual
  <1> QED BY <1>7 DEF w, s, t, u

\* A second element after one.
LEMMA AppendTwo ==
    ASSUME NEW x, NEW y
    PROVE  Append(<<x>>, y) = <<x, y>>
  <1> DEFINE X == {x, y}
  <1>1. PICK s : s = <<x>> /\ s \in Seq(X) /\ Len(s) = 1 /\ s[1] = x
    <2>1. <<x>> \in Seq(X) /\ Len(<<x>>) = 1 /\ <<x>>[1] = x
      OBVIOUS
    <2> QED BY <2>1, Zenon
  <1>2. PICK t : t = <<x, y>> /\ t \in Seq(X) /\ Len(t) = 2 /\ t[1] = x /\ t[2] = y
    <2>1. <<x, y>> \in Seq(X) /\ Len(<<x, y>>) = 2 /\ <<x, y>>[1] = x /\ <<x, y>>[2] = y
      OBVIOUS
    <2> QED BY <2>1, Zenon
  <1>3. y \in X
    OBVIOUS
  <1> HIDE DEF X
  <1>4. /\ Append(s, y) \in Seq(X) /\ Len(Append(s, y)) = 2
        /\ Append(s, y)[1] = x /\ Append(s, y)[2] = y
    BY <1>1, <1>3
  <1>5. \A k \in 1 .. 2 : k = 1 \/ k = 2
    OBVIOUS
  <1>6. \A k \in 1 .. 2 : Append(s, y)[k] = t[k]
    BY <1>2, <1>4, <1>5, Zenon
  <1>7. Append(s, y) = t
    BY <1>2, <1>4, <1>6, SeqEqual, Zenon
  <1> QED BY <1>1, <1>2, <1>7

\* One sequence put together.
LEMMA FlattenOne ==
    ASSUME NEW X, NEW b \in Seq(X)
    PROVE  FlattenSeq(<<b>>) = b
  <1>1. PICK m \in Nat : m = Len(b)
    OBVIOUS
  <1>2. PICK parts : parts = <<b>>
    OBVIOUS
  <1>3. PICK at : at = [k \in 1 .. 2 |-> IF k = 1 THEN 0 ELSE m]
    OBVIOUS
  <1>4. parts \in Lists(X) /\ Len(parts) = 1 /\ parts[1] = b
    BY <1>2 DEF Lists
  <1>5. /\ at \in [1 .. 2 -> Nat] /\ at[1] = 0 /\ at[2] = m
        /\ 1 + 1 = 2 /\ 0 + m = m /\ \A j \in 1 .. 1 : j = 1
    BY <1>3
  <1>6. Layout(at, parts)
    BY <1>1, <1>4, <1>5, Zenon DEF Layout
  <1>7. \A k \in 1 .. m : b[at[1] + k] = b[k]
    BY <1>5
  <1>8. Concatenates(b, at, parts)
    BY <1>1, <1>4, <1>5, <1>6, <1>7, Zenon DEF Concatenates
  <1>9. FlattenSeq(parts) = b
    BY <1>4, <1>8, FlattenIs, Zenon
  <1> QED BY <1>2, <1>9, Zenon

\* Two sequences put together.
LEMMA FlattenTwo ==
    ASSUME NEW X, NEW b \in Seq(X), NEW c \in Seq(X), NEW w \in Seq(X), Joins(w, b, c)
    PROVE  FlattenSeq(<<b, c>>) = w
  <1>1. PICK m \in Nat, l \in Nat : m = Len(b) /\ l = Len(c)
    OBVIOUS
  <1>2. PICK parts : parts = <<b, c>>
    OBVIOUS
  <1>3. PICK at : at = [k \in 1 .. 3 |-> IF k = 1 THEN 0 ELSE IF k = 2 THEN m ELSE m + l]
    OBVIOUS
  <1>4. parts \in Lists(X) /\ Len(parts) = 2 /\ parts[1] = b /\ parts[2] = c
    BY <1>2 DEF Lists
  <1>5. /\ at \in [1 .. 3 -> Nat] /\ at[1] = 0 /\ at[2] = m /\ at[3] = m + l
        /\ 1 + 1 = 2 /\ 2 + 1 = 3 /\ 0 + m = m /\ \A j \in 1 .. 2 : j = 1 \/ j = 2
    BY <1>3
  <1>6. Layout(at, parts)
    BY <1>1, <1>4, <1>5, Zenon DEF Layout
  <1>7. Len(w) = m + l
    BY <1>1, Zenon DEF Joins
  <1>8. /\ \A k \in 1 .. m : w[k] = b[k]
        /\ \A k \in 1 .. l : w[at[2] + k] = c[k]
    BY <1>1, <1>5, Zenon DEF Joins
  <1>9. \A k \in 1 .. m : at[1] + k = k
    BY <1>5
  <1>10. Concatenates(w, at, parts)
    <2>1. Len(w) = at[Len(parts) + 1]
      BY <1>4, <1>5, <1>7, Zenon
    <2>2. \A k \in 1 .. Len(parts[1]) : w[at[1] + k] = parts[1][k]
      BY <1>1, <1>4, <1>8, <1>9, Zenon
    <2>3. \A k \in 1 .. Len(parts[2]) : w[at[2] + k] = parts[2][k]
      BY <1>1, <1>4, <1>8, Zenon
    <2>4. ASSUME NEW j \in 1 .. Len(parts)
          PROVE  \A k \in 1 .. Len(parts[j]) : w[at[j] + k] = parts[j][k]
      <3>1. j = 1 \/ j = 2
        BY <1>4, <1>5, Zenon
      <3>2. CASE j = 1
        BY <2>2, <3>2, Zenon
      <3>3. CASE j = 2
        BY <2>3, <3>3, Zenon
      <3> QED BY <3>1, <3>2, <3>3, Zenon
    <2> QED BY <1>6, <2>1, <2>4, Zenon DEF Concatenates
  <1>11. FlattenSeq(parts) = w
    BY <1>4, <1>10, FlattenIs, Zenon
  <1> QED BY <1>2, <1>11, Zenon
=============================================================================
