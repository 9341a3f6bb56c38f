-------------------------------- MODULE Lemas --------------------------------
(***************************************************************************)
(* Facts about numbers, sets and sequences that the proofs of several      *)
(* components rest on.  Induction is stated about sets: the least element  *)
(* of a set of naturals exists because < is well founded on Nat.           *)
(***************************************************************************)
EXTENDS Integers, SequencesExt, SequenceTheorems, WellFoundedInduction, TLAPS

-----------------------------------------------------------------------------
(* Induction *)

\* A set of naturals that is not empty has a least element.
LEMMA MenorNatural ==
    ASSUME NEW T, T \subseteq Nat, T # {}
    PROVE  \E x \in T : \A y \in T : x <= y
<1> DEFINE R == OpToRel(<, Nat)
<1>1. IsWellFoundedOn(R, Nat)
  BY NatLessThanWellFounded
<1>2. \A x, y \in Nat : y < x => <<y, x>> \in R
  BY DEF OpToRel
<1> HIDE DEF R
<1>3. PICK x \in T : \A y \in T : ~(<<y, x>> \in R)
  BY <1>1, WFMin
<1>4. \A y \in T : ~(y < x)
  BY <1>2, <1>3, Zenon
<1> QED  BY <1>4

\* A set that contains 0 and the successor of each of its naturals contains
\* every natural.
LEMMA Induccion ==
    ASSUME NEW T, 0 \in T, \A n \in Nat : n \in T => n + 1 \in T
    PROVE  Nat \subseteq T
<1> SUFFICES ASSUME ~(Nat \subseteq T) PROVE FALSE
  OBVIOUS
<1> DEFINE U == Nat \ T
<1>1. U # {} /\ U \subseteq Nat
  OBVIOUS
<1>2. PICK x \in U : \A y \in U : x <= y
  <2> HIDE DEF U
  <2> QED  BY <1>1, MenorNatural
<1>3. x # 0 /\ x \in Nat /\ x - 1 \in Nat
  BY <1>2
<1>4. x - 1 \in T
  BY <1>2, <1>3
<1> QED  BY <1>2, <1>3, <1>4

\* The largest of some numbers up to n is one of them.
LEMMA MaximoDe ==
    ASSUME NEW n \in Nat, NEW S, S \subseteq 1..n, S # {}
    PROVE  Max(S) \in S
<1> DEFINE T == {k \in Nat : n - k \in S}
<1>1. T \subseteq Nat
  OBVIOUS
<1>2. T # {}
  <2>1. PICK s \in S : TRUE
    OBVIOUS
  <2>2. n - s \in Nat /\ n - (n - s) = s
    OBVIOUS
  <2>3. n - s \in T
    BY <2>1, <2>2
  <2> QED  BY <2>3
<1>3. PICK k \in T : \A j \in T : k <= j
  <2> HIDE DEF T
  <2> QED  BY <1>1, <1>2, MenorNatural
<1>4. n - k \in S
  BY <1>3
<1>5. \A y \in S : n - k >= y
  <2> SUFFICES ASSUME NEW y \in S PROVE n - k >= y
    OBVIOUS
  <2>1. n - y \in T
    <3>1. n - y \in Nat /\ n - (n - y) = y
      OBVIOUS
    <3> QED  BY <3>1
  <2>2. k <= n - y /\ k \in Nat /\ y \in Nat
    BY <1>3, <2>1
  <2> QED  BY <2>2
<1> QED  BY <1>4, <1>5 DEF Max

-----------------------------------------------------------------------------
(* Counting modulo n *)

\* x % n, for an x that is at most n away from the range.
LEMMA Modulo ==
    ASSUME NEW n \in Nat, n > 0, NEW x \in Int
    PROVE  /\ x \in 0..(n - 1) => x % n = x
           /\ x \in n..(2 * n - 1) => x % n = x - n
           /\ x \in (-n)..(-1) => x % n = x + n
           /\ x % n \in 0..(n - 1)
<1>1. x \in 0..(n - 1) => x % n = x
  OBVIOUS
<1>2. x \in n..(2 * n - 1) => x % n = x - n
  OBVIOUS
<1>3. x \in (-n)..(-1) => x % n = x + n
  OBVIOUS
<1>4. x % n \in 0..(n - 1)
  OBVIOUS
<1> QED  BY <1>1, <1>2, <1>3, <1>4

-----------------------------------------------------------------------------
(* Sequences *)

\* A function on 1..n is a sequence of length n.
LEMMA Secuencia ==
    ASSUME NEW S, NEW n \in Nat, NEW f \in [1..n -> S]
    PROVE  f \in Seq(S) /\ Len(f) = n
<1>1. f \in Seq(S)
  BY SeqDef, Zenon
<1>2. 1..n = 1..Len(f) /\ Len(f) \in Nat
  BY <1>1, LenProperties
<1>3. ~(n < Len(f))
  <2>1. n < Len(f) => Len(f) \in 1..Len(f) /\ Len(f) \notin 1..n
    BY <1>2
  <2> QED  BY <1>2, <2>1
<1>4. ~(Len(f) < n)
  <2>1. Len(f) < n => n \in 1..n /\ n \notin 1..Len(f)
    BY <1>2
  <2> QED  BY <1>2, <2>1
<1> QED  BY <1>1, <1>2, <1>3, <1>4

\* Numbers of a range are integers.
LEMMA DeEnteros ==
    ASSUME NEW a \in Int, NEW b \in Int, NEW s \in Seq(a..b)
    PROVE  s \in Seq(Int)
<1>1. a..b \subseteq Int
  OBVIOUS
<1> QED  BY <1>1, SeqMonotonic

\* The empty sequence has no elements.
LEMMA RangoVacio == Range(<<>>) = {} /\ Len(<<>>) = 0
BY EmptySeq DEF Range

\* Concatenation of sequences of numbers is associative.
LEMMA Asociativa ==
    ASSUME NEW s \in Seq(Int), NEW t \in Seq(Int), NEW u \in Seq(Int)
    PROVE  (s \o t) \o u = s \o (t \o u)
OBVIOUS

\* The same the other way round, and its elements are those of its parts.
LEMMA Concatenar ==
    ASSUME NEW s \in Seq(Int), NEW t \in Seq(Int), NEW u \in Seq(Int)
    PROVE  /\ s \o t \in Seq(Int)
           /\ s \o (t \o u) = (s \o t) \o u
           /\ Range(s \o t) = Range(s) \cup Range(t)
<1>1. s \o t \in Seq(Int)
  BY ConcatProperties
<1>2. s \o (t \o u) = (s \o t) \o u
  BY Asociativa, Zenon
<1>3. Range(s \o t) = Range(s) \cup Range(t)
  BY RangeConcatenation
<1> QED  BY <1>1, <1>2, <1>3

\* A sequence is its first element and the rest.
LEMMA PrimeroYResto ==
    ASSUME NEW s \in Seq(Int), s # <<>>
    PROVE  /\ Head(s) = s[1] /\ s[1] \in Int /\ <<s[1]>> \in Seq(Int)
           /\ Tail(s) \in Seq(Int) /\ <<s[1]>> \o Tail(s) = s
<1>1. 1 \in 1..Len(s) /\ Len(s) \in Nat
  BY EmptySeq
<1>2. Head(s) = s[1] /\ s[1] \in Int
  BY <1>1, ElementOfSeq
<1>3. <<s[1]>> \in Seq(Int) /\ Tail(s) \in Seq(Int)
  BY <1>2, HeadTailProperties
<1>4. s = <<s[1]>> \o SubSeq(s, 2, Len(s))
  <2>1. SubSeq(s, 1, Len(s)) = s
    BY SubSeqFull
  <2>2. Len(s) \in 1..Len(s) /\ 1 + 1 = 2
    BY <1>1
  <2>3. SubSeq(s, 1, Len(s)) = <<s[1]>> \o SubSeq(s, 1 + 1, Len(s))
    BY <1>1, <2>2, SubSeqRecursiveFirst
  <2> QED  BY <2>1, <2>2, <2>3
<1>5. Tail(s) = SubSeq(s, 2, Len(s))
  BY TailIsSubSeq
<1> QED  BY <1>2, <1>3, <1>4, <1>5

\* A sequence is the first k of its elements and the others.
LEMMA Partir ==
    ASSUME NEW a \in Int, NEW b \in Int, NEW s \in Seq(a..b), NEW k \in 0..Len(s)
    PROVE  /\ SubSeq(s, 1, k) \in Seq(a..b) /\ Len(SubSeq(s, 1, k)) = k
           /\ SubSeq(s, k + 1, Len(s)) \in Seq(a..b)
           /\ SubSeq(s, 1, k) \o SubSeq(s, k + 1, Len(s)) = s
<1>0. Len(s) \in Nat /\ \A i \in 1..Len(s) : s[i] \in a..b
  BY LenProperties, ElementOfSeq
<1>1. /\ 1 \in 1..(Len(s) + 1) /\ k \in 0..Len(s) /\ Len(s) \in k..Len(s)
      /\ k \in (1 - 1)..Len(s)
  BY <1>0
<1>2. SubSeq(s, 1, k) \o SubSeq(s, k + 1, Len(s)) = SubSeq(s, 1, Len(s))
  BY <1>1, ConcatAdjacentSubSeq
<1>3. SubSeq(s, 1, Len(s)) = s
  BY SubSeqFull
<1>4. SubSeq(s, 1, k) \in Seq(a..b) /\ Len(SubSeq(s, 1, k)) = k
  <2>1. k \in Int /\ \A i \in 1..k : s[i] \in a..b
    BY <1>0
  <2>2. /\ SubSeq(s, 1, k) \in Seq(a..b)
        /\ Len(SubSeq(s, 1, k)) = IF 1 <= k THEN k - 1 + 1 ELSE 0
    BY <2>1, SubSeqProperties
  <2> QED  BY <1>0, <2>2
<1>5. SubSeq(s, k + 1, Len(s)) \in Seq(a..b)
  <2>1. /\ k + 1 \in Int /\ Len(s) \in Int
        /\ \A i \in (k + 1)..Len(s) : s[i] \in a..b
    BY <1>0
  <2> QED  BY <2>1, SubSeqProperties
<1> QED  BY <1>2, <1>3, <1>4, <1>5

-----------------------------------------------------------------------------
(* FlattenSeq *)

\* g[i] is the concatenation of the first i sequences of s, up to n.
Plano(s, n, g) ==
    g = [i \in 1..n |-> IF i = 1 THEN s[i] ELSE g[i - 1] \o s[i]]

\* The equation, element by element.
LEMMA PlanoPunto ==
    ASSUME NEW s, NEW n, NEW g, Plano(s, n, g)
    PROVE  /\ DOMAIN g = 1..n
           /\ g = [i \in 1..n |-> g[i]]
           /\ \A i \in 1..n : g[i] = IF i = 1 THEN s[i] ELSE g[i - 1] \o s[i]
<1> DEFINE e == [i \in 1..n |-> IF i = 1 THEN s[i] ELSE g[i - 1] \o s[i]]
<1>1. g = e
  BY DEF Plano
<1>2. DOMAIN e = 1..n /\ e = [i \in 1..n |-> e[i]]
  OBVIOUS
<1>3. \A i \in 1..n : e[i] = IF i = 1 THEN s[i] ELSE g[i - 1] \o s[i]
  OBVIOUS
<1> HIDE DEF e
<1> QED  BY <1>1, <1>2, <1>3

\* t begins with the first n elements of s.
Empieza(s, t, n) == \A i \in 1..n : t[i] = s[i]

\* There are such partial concatenations ...
LEMMA PlanoExiste ==
    ASSUME NEW S, NEW s \in Seq(Seq(S)), NEW n \in 0..Len(s)
    PROVE  \E g \in [1..n -> Seq(S)] : Plano(s, n, g)
<1> DEFINE Hay(k) == \E g \in [1..k -> Seq(S)] : Plano(s, k, g)
           T == {k \in Nat : k <= Len(s) => Hay(k)}
<1>0. Len(s) \in Nat /\ \A i \in 1..Len(s) : s[i] \in Seq(S)
  BY LenProperties, ElementOfSeq
<1>1. 0 \in T
  <2>1. [i \in 1..0 |-> <<>>] \in [1..0 -> Seq(S)]
    OBVIOUS
  <2>2. Plano(s, 0, [i \in 1..0 |-> <<>>])
    BY DEF Plano
  <2> QED  BY <2>1, <2>2
<1>2. ASSUME NEW k \in Nat, k \in T
      PROVE  k + 1 \in T
  <2>0. SUFFICES ASSUME k + 1 <= Len(s) PROVE Hay(k + 1)
    <3> HIDE DEF Hay
    <3> QED  OBVIOUS
  <2>1. PICK g : g \in [1..k -> Seq(S)] /\ Plano(s, k, g)
    <3>1. k <= Len(s)
      BY <1>0, <2>0
    <3>2. Hay(k)
      <4> HIDE DEF Hay
      <4> QED  BY <1>2, <3>1
    <3> QED  BY <3>2
  <2> DEFINE h == [i \in 1..(k + 1) |->
                     IF i <= k THEN g[i]
                     ELSE IF i = 1 THEN s[i] ELSE g[i - 1] \o s[i]]
  <2>2. ASSUME NEW i \in 1..(k + 1)
        PROVE  h[i] \in Seq(S) /\ h[i] = IF i = 1 THEN s[i] ELSE h[i - 1] \o s[i]
    <3>1. s[i] \in Seq(S)
      BY <1>0, <2>0
    <3>2. CASE i <= k
      <4>1. i \in 1..k /\ (i # 1 => i - 1 \in 1..k /\ i - 1 <= k)
        BY <3>2
      <4>2. g[i] \in Seq(S) /\ g[i] = IF i = 1 THEN s[i] ELSE g[i - 1] \o s[i]
        <5>0. Plano(s, k, g)
          BY <2>1
        <5>1. \A j \in 1..k : g[j] = IF j = 1 THEN s[j] ELSE g[j - 1] \o s[j]
          BY <5>0, PlanoPunto
        <5> QED  BY <2>1, <4>1, <5>1
      <4>3. h[i] = g[i] /\ (i # 1 => h[i - 1] = g[i - 1])
        BY <4>1
      <4> QED  BY <4>2, <4>3
    <3>3. CASE i = k + 1
      <4>1. ~(i <= k) /\ (i # 1 => i - 1 \in 1..k /\ i - 1 <= k /\ i - 1 \in 1..(k + 1))
        BY <3>3
      <4>2. h[i] = IF i = 1 THEN s[i] ELSE g[i - 1] \o s[i]
        BY <4>1
      <4>3. i # 1 => h[i - 1] = g[i - 1] /\ g[i - 1] \in Seq(S)
        BY <2>1, <4>1
      <4>4. i # 1 => g[i - 1] \o s[i] \in Seq(S)
        BY <3>1, <4>3, ConcatProperties
      <4> QED  BY <3>1, <4>2, <4>3, <4>4
    <3> QED  BY <3>2, <3>3
  <2>3. h \in [1..(k + 1) -> Seq(S)]
    BY <2>2
  <2>4. Plano(s, k + 1, h)
    <3> HIDE DEF h
    <3> QED  BY <2>2, <2>3 DEF Plano
  <2> QED  BY <2>3, <2>4
<1>3. Nat \subseteq T
  <2> HIDE DEF T
  <2> QED  BY <1>1, <1>2, Induccion
<1>4. n \in T /\ n <= Len(s)
  BY <1>0, <1>3
<1>5. Hay(n)
  <2> HIDE DEF Hay
  <2> QED  BY <1>4
<1> QED  BY <1>5

\* ... and those of a longer sequence begin with those of a shorter one.
LEMMA PlanoUnico ==
    ASSUME NEW n \in Nat, NEW m \in Nat, n <= m,
           NEW s, NEW t, Empieza(s, t, n),
           NEW g, Plano(s, n, g), NEW h, Plano(t, m, h)
    PROVE  Empieza(g, h, n)
<1> USE DEF Empieza
<1> DEFINE T == {k \in Nat : k \in 1..n => h[k] = g[k]}
<1>1. 0 \in T
  OBVIOUS
<1>2. ASSUME NEW k \in Nat, k \in T
      PROVE  k + 1 \in T
  <2> SUFFICES ASSUME k + 1 \in 1..n PROVE h[k + 1] = g[k + 1]
    OBVIOUS
  <2>1. k + 1 \in 1..m /\ t[k + 1] = s[k + 1] /\ (k + 1) - 1 = k
    OBVIOUS
  <2>2. h[k + 1] = IF k + 1 = 1 THEN t[k + 1] ELSE h[k] \o t[k + 1]
    <3>1. \A i \in 1..m : h[i] = IF i = 1 THEN t[i] ELSE h[i - 1] \o t[i]
      BY PlanoPunto
    <3> QED  BY <2>1, <3>1
  <2>3. g[k + 1] = IF k + 1 = 1 THEN s[k + 1] ELSE g[k] \o s[k + 1]
    <3>1. \A i \in 1..n : g[i] = IF i = 1 THEN s[i] ELSE g[i - 1] \o s[i]
      BY PlanoPunto
    <3> QED  BY <2>1, <3>1
  <2>4. k + 1 # 1 => h[k] = g[k]
    <3>1. k + 1 # 1 => k \in 1..n
      OBVIOUS
    <3> QED  BY <1>2, <3>1
  <2> QED  BY <2>1, <2>2, <2>3, <2>4
<1>3. Nat \subseteq T
  <2> HIDE DEF T
  <2> QED  BY <1>1, <1>2, Induccion
<1> QED  BY <1>3

\* FlattenSeq is the last partial concatenation.
LEMMA PlanoUltimo ==
    ASSUME NEW S, NEW s \in Seq(Seq(S)), s # <<>>
    PROVE  \E g \in [1..Len(s) -> Seq(S)] :
             Plano(s, Len(s), g) /\ FlattenSeq(s) = g[Len(s)]
<1> DEFINE n == Len(s)
           c == CHOOSE g : Plano(s, n, g)
<1>1. n # 0 /\ n \in Nat /\ n \in 0..Len(s)
  BY EmptySeq, LenProperties
<1>2. FlattenSeq(s) = c[n]
  BY <1>1 DEF FlattenSeq, Plano
<1>3. PICK g \in [1..n -> Seq(S)] : Plano(s, n, g)
  BY <1>1, PlanoExiste
<1>4. Plano(s, n, c)
  <2> HIDE DEF n
  <2> QED  BY <1>3
<1> HIDE DEF c
<1>5. Empieza(g, c, n)
  <2>1. Empieza(s, s, n) /\ n <= n
    BY <1>1 DEF Empieza
  <2> QED  BY <1>1, <1>3, <1>4, <2>1, PlanoUnico
<1>6. c[n] = g[n]
  BY <1>1, <1>5 DEF Empieza
<1> QED  BY <1>2, <1>3, <1>6

\* Flattening a sequence of sequences gives a sequence, and one more sequence
\* at the end is one more part at the end.
LEMMA Aplanar ==
    ASSUME NEW S, NEW s \in Seq(Seq(S)), NEW x \in Seq(S)
    PROVE  /\ FlattenSeq(<<>>) = <<>>
           /\ FlattenSeq(s) \in Seq(S)
           /\ FlattenSeq(Append(s, x)) = FlattenSeq(s) \o x
<1>1. FlattenSeq(<<>>) = <<>>
  BY DEF FlattenSeq
<1>2. FlattenSeq(s) \in Seq(S)
  <2>1. CASE s = <<>>
    BY <1>1, <2>1, EmptySeq
  <2>2. CASE s # <<>>
    <3>1. Len(s) \in 1..Len(s)
      BY <2>2, EmptySeq
    <3> QED  BY <2>2, <3>1, PlanoUltimo
  <2> QED  BY <2>1, <2>2
<1> DEFINE t == Append(s, x)
           n == Len(s)
<1>3. /\ t \in Seq(Seq(S)) /\ t # <<>> /\ Len(t) = n + 1 /\ n \in Nat
      /\ t[n + 1] = x /\ \A i \in 1..n : t[i] = s[i]
  BY LenProperties, AppendProperties
<1> HIDE DEF t, n
<1>4. PICK h : Plano(t, Len(t), h) /\ FlattenSeq(t) = h[Len(t)]
  BY <1>3, PlanoUltimo
<1>5. FlattenSeq(t) = IF n + 1 = 1 THEN x ELSE h[n] \o x
  <2>1. n + 1 \in 1..Len(t) /\ (n + 1) - 1 = n
    BY <1>3
  <2>2. \A i \in 1..Len(t) : h[i] = IF i = 1 THEN t[i] ELSE h[i - 1] \o t[i]
    BY <1>4, PlanoPunto
  <2> QED  BY <1>3, <1>4, <2>1, <2>2
<1>6. CASE s = <<>>
  <2>1. n = 0
    BY <1>6 DEF n
  <2> QED  BY <1>1, <1>5, <1>2, <1>6, <2>1, ConcatEmptySeq DEF t
<1>7. CASE s # <<>>
  <2>1. n \in 1..n
    BY <1>3, <1>7, EmptySeq DEF n
  <2>2. PICK g : Plano(s, n, g) /\ FlattenSeq(s) = g[n]
    BY <1>7, PlanoUltimo DEF n
  <2>3. Empieza(g, h, n)
    <3>1. n <= Len(t) /\ Len(t) \in Nat /\ n \in Nat
      BY <1>3
    <3>2. Plano(s, n, g) /\ Plano(t, Len(t), h)
      BY <1>4, <2>2
    <3>3. Empieza(s, t, n)
      BY <1>3 DEF Empieza
    <3> QED  BY <3>1, <3>2, <3>3, PlanoUnico
  <2>4. h[n] = FlattenSeq(s) /\ n + 1 # 1
    BY <2>1, <2>2, <2>3 DEF Empieza
  <2> QED  BY <1>2, <1>5, <2>4, <1>1 DEF t
<1> QED  BY <1>2, <1>6, <1>7, <1>1 DEF t

-----------------------------------------------------------------------------
(* Increasing sequences of numbers *)

Creciente(s) == \A i, j \in 1..Len(s) : i < j => s[i] < s[j]

Antes(s, t) == \A i \in 1..Len(s), j \in 1..Len(t) : s[i] < t[j]

\* A concatenation increases when its parts do and the first lies before the
\* second.
LEMMA CrecienteConcat ==
    ASSUME NEW s \in Seq(Int), NEW t \in Seq(Int)
    PROVE  Creciente(s \o t) <=> Creciente(s) /\ Creciente(t) /\ Antes(s, t)
<1> DEFINE n == Len(s)
           m == Len(t)
           u == s \o t
<1>0. /\ n \in Nat /\ m \in Nat /\ Len(u) = n + m
      /\ \A i \in 1..n : s[i] \in Int /\ u[i] = s[i]
      /\ \A i \in 1..m : t[i] \in Int /\ u[n + i] = t[i]
      /\ \A i \in 1..(n + m) : i > n => u[i] = t[i - n]
  <2>1. n \in Nat /\ m \in Nat
    BY LenProperties
  <2>2. /\ \A i \in 1..n : s[i] \in Int
        /\ \A i \in 1..m : t[i] \in Int
    BY ElementOfSeq
  <2>3. /\ Len(u) = n + m
        /\ \A i \in 1..(n + m) : u[i] = IF i <= n THEN s[i] ELSE t[i - n]
    BY ConcatProperties
  <2> HIDE DEF n, m, u
  <2>4. \A i \in 1..n : i \in 1..(n + m) /\ i <= n
    BY <2>1
  <2>5. \A i \in 1..m : n + i \in 1..(n + m) /\ ~(n + i <= n) /\ (n + i) - n = i
    BY <2>1
  <2>6. \A i \in 1..m : u[n + i] = t[i]
    BY <2>3, <2>5
  <2>7. \A i \in 1..n : u[i] = s[i]
    BY <2>3, <2>4
  <2>8. \A i \in 1..(n + m) : i > n => u[i] = t[i - n]
    BY <2>1, <2>3
  <2> QED  BY <2>1, <2>2, <2>3, <2>6, <2>7, <2>8
<1> HIDE DEF n, m, u
<1>1. ASSUME Creciente(u)
      PROVE  Creciente(s) /\ Creciente(t) /\ Antes(s, t)
  <2>1. \A i, j \in 1..(n + m) : i < j => u[i] < u[j]
    BY <1>0, <1>1 DEF Creciente
  <2>2. ASSUME NEW i \in 1..n, NEW j \in 1..n, i < j
        PROVE  s[i] < s[j]
    <3>1. i \in 1..(n + m) /\ j \in 1..(n + m)
      BY <1>0
    <3> QED  BY <1>0, <2>1, <2>2, <3>1
  <2>3. ASSUME NEW i \in 1..m, NEW j \in 1..m, i < j
        PROVE  t[i] < t[j]
    <3>1. n + i \in 1..(n + m) /\ n + j \in 1..(n + m) /\ n + i < n + j
      BY <1>0, <2>3
    <3>2. u[n + i] < u[n + j]
      BY <2>1, <3>1
    <3> QED  BY <1>0, <3>2
  <2>4. ASSUME NEW i \in 1..n, NEW j \in 1..m
        PROVE  s[i] < t[j]
    <3>1. i \in 1..(n + m) /\ n + j \in 1..(n + m) /\ i < n + j
      BY <1>0
    <3>2. u[i] < u[n + j]
      BY <2>1, <3>1
    <3> QED  BY <1>0, <3>2
  <2> QED  BY <2>2, <2>3, <2>4 DEF Creciente, Antes, n, m
<1>2. ASSUME Creciente(s), Creciente(t), Antes(s, t)
      PROVE  Creciente(u)
  <2>1. /\ \A i, j \in 1..n : i < j => s[i] < s[j]
        /\ \A i, j \in 1..m : i < j => t[i] < t[j]
        /\ \A i \in 1..n, j \in 1..m : s[i] < t[j]
    BY <1>2 DEF Creciente, Antes, n, m
  <2>2. ASSUME NEW i \in 1..(n + m), NEW j \in 1..(n + m), i < j
        PROVE  u[i] < u[j]
    <3>1. CASE j <= n
      <4>1. i \in 1..n /\ j \in 1..n
        BY <1>0, <2>2, <3>1
      <4> QED  BY <1>0, <2>1, <2>2, <4>1
    <3>2. CASE i <= n /\ j > n
      <4>1. i \in 1..n /\ j - n \in 1..m
        BY <1>0, <3>2
      <4> QED  BY <1>0, <2>1, <3>2, <4>1
    <3>3. CASE i > n
      <4>1. /\ i - n \in 1..m /\ j - n \in 1..m /\ i - n < j - n
            /\ j > n
        BY <1>0, <2>2, <3>3
      <4> QED  BY <1>0, <2>1, <3>3, <4>1
    <3> QED  BY <1>0, <2>2, <3>1, <3>2, <3>3
  <2> QED  BY <1>0, <2>2 DEF Creciente
<1> QED  BY <1>1, <1>2 DEF u

\* Sequences that lie one before the other have no element in common.
LEMMA Apartadas ==
    ASSUME NEW s \in Seq(Int), NEW t \in Seq(Int), Antes(s, t)
    PROVE  Range(s) \cap Range(t) = {}
<1>1. /\ Range(s) = {s[i] : i \in 1..Len(s)}
      /\ Range(t) = {t[i] : i \in 1..Len(t)}
  BY RangeEquality
<1>2. /\ \A i \in 1..Len(s) : s[i] \in Int
      /\ \A i \in 1..Len(t) : t[i] \in Int
  BY ElementOfSeq
<1>3. \A i \in 1..Len(s), j \in 1..Len(t) : s[i] # t[j]
  BY <1>2 DEF Antes
<1> QED  BY <1>1, <1>3

-----------------------------------------------------------------------------
(* Ring buffers of N slots, between a place r to read and a place w to write *)

\* How far w is ahead of r, and the i-th place from r on.
Largo(N, r, w) == (w - r) % N

Lugar(N, r, i) == (r + i - 1) % N

LEMMA LargoDe ==
    ASSUME NEW N \in Nat, N > 0, NEW r \in 0..(N - 1), NEW w \in 0..(N - 1)
    PROVE  /\ Largo(N, r, w) = IF w >= r THEN w - r ELSE (w - r) + N
           /\ Largo(N, r, w) \in 0..(N - 1)
<1>1. CASE w >= r
  BY <1>1, Modulo DEF Largo
<1>2. CASE w < r
  BY <1>2, Modulo DEF Largo
<1> QED  BY <1>1, <1>2

LEMMA LugarDe ==
    ASSUME NEW N \in Nat, N > 0, NEW r \in 0..(N - 1), NEW i \in 1..(N + 1)
    PROVE  /\ Lugar(N, r, i) = IF r + i - 1 < N THEN r + i - 1 ELSE (r + i - 1) - N
           /\ Lugar(N, r, i) \in 0..(N - 1)
<1>1. CASE r + i - 1 < N
  BY <1>1, Modulo DEF Lugar
<1>2. CASE r + i - 1 >= N
  BY <1>2, Modulo DEF Lugar
<1> QED  BY <1>1, <1>2

\* Sequences that agree element by element are the same.
Coinciden(s, t) == Len(s) = Len(t) /\ \A i \in 1..Len(s) : s[i] = t[i]

LEMMA Iguales ==
    ASSUME NEW s \in Seq(Int), NEW t \in Seq(Int), Coinciden(s, t)
    PROVE  s = t
BY SeqEqual DEF Coinciden

\* N slots that hold numbers, and two places in them.
EsAnillo(N, b, r, w) ==
    /\ N \in Nat /\ N > 0 /\ b \in [0..(N - 1) -> Int]
    /\ r \in 0..(N - 1) /\ w \in 0..(N - 1)

\* What is between r and w.
Anillo(N, b, r, w) == [i \in 1..Largo(N, r, w) |-> b[Lugar(N, r, i)]]

\* b after s is written from w on.
Escrito(N, b, w, s) ==
    [i \in 0..(N - 1) |->
       IF Largo(N, w, i) + 1 <= Len(s) THEN s[Largo(N, w, i) + 1] ELSE b[i]]

\* c is what is between r and w, in a way that is easy to reason about.
Contiene(N, b, r, w, c) ==
    /\ c \in Seq(Int) /\ Len(c) = Largo(N, r, w)
    /\ \A i \in 1..Largo(N, r, w) : c[i] = b[Lugar(N, r, i)]

\* There is only one such sequence.
LEMMA AnilloTipo ==
    ASSUME NEW N, NEW b, NEW r, NEW w, EsAnillo(N, b, r, w)
    PROVE  /\ Contiene(N, b, r, w, Anillo(N, b, r, w))
           /\ \A c : Contiene(N, b, r, w, c) => c = Anillo(N, b, r, w)
<1> DEFINE n == Largo(N, r, w)
           A == Anillo(N, b, r, w)
<1>0. /\ N \in Nat /\ N > 0 /\ b \in [0..(N - 1) -> Int]
      /\ r \in 0..(N - 1) /\ w \in 0..(N - 1)
  BY DEF EsAnillo
<1>1. n \in 0..(N - 1) /\ n \in Nat
  BY <1>0, LargoDe
<1>2. \A i \in 1..n : A[i] = b[Lugar(N, r, i)]
  BY DEF Anillo
<1>3. A \in [1..n -> Int]
  <2>1. ASSUME NEW i \in 1..n PROVE Lugar(N, r, i) \in 0..(N - 1)
    <3>1. i \in 1..(N + 1)
      BY <1>0, <1>1
    <3> QED  BY <1>0, <3>1, LugarDe
  <2> QED  BY <1>0, <2>1 DEF Anillo
<1>4. A \in Seq(Int) /\ Len(A) = n
  <2> HIDE DEF n, A
  <2> QED  BY <1>1, <1>3, Secuencia
<1> HIDE DEF n, A
<1>5. Contiene(N, b, r, w, A)
  BY <1>2, <1>4 DEF Contiene, n
<1>6. ASSUME NEW c, Contiene(N, b, r, w, c) PROVE c = A
  <2>1. c \in Seq(Int) /\ Len(c) = n /\ \A i \in 1..n : c[i] = b[Lugar(N, r, i)]
    BY <1>6 DEF Contiene, n
  <2>2. Coinciden(c, A)
    BY <1>2, <1>4, <2>1 DEF Coinciden
  <2> QED  BY <1>4, <2>1, <2>2, Iguales
<1> QED  BY <1>5, <1>6 DEF A

\* It is empty when the places meet; otherwise r holds its first element.
LEMMA AnilloPrimero ==
    ASSUME NEW N, NEW b, NEW r, NEW w, EsAnillo(N, b, r, w)
    PROVE  /\ Anillo(N, b, r, w) = <<>> <=> w = r
           /\ w # r => Anillo(N, b, r, w)[1] = b[r]
<1> DEFINE n == Largo(N, r, w)
           A == Anillo(N, b, r, w)
<1>0. /\ N \in Nat /\ N > 0 /\ r \in 0..(N - 1) /\ w \in 0..(N - 1)
  BY DEF EsAnillo
<1>1. n \in 0..(N - 1) /\ (n = 0 <=> w = r)
  <2>1. n \in 0..(N - 1) /\ n = IF w >= r THEN w - r ELSE (w - r) + N
    BY <1>0, LargoDe
  <2> HIDE DEF n
  <2> QED  BY <1>0, <2>1
<1>2. A \in Seq(Int) /\ Len(A) = n /\ \A i \in 1..n : A[i] = b[Lugar(N, r, i)]
  BY AnilloTipo DEF Contiene
<1>3. Lugar(N, r, 1) = r
  BY <1>0, LugarDe
<1> HIDE DEF n, A
<1>4. A = <<>> <=> n = 0
  BY <1>1, <1>2, EmptySeq
<1>5. w # r => A[1] = b[r]
  <2>1. w # r => 1 \in 1..n
    BY <1>1
  <2> QED  BY <1>2, <1>3, <2>1
<1> QED  BY <1>1, <1>4, <1>5 DEF A

\* Writing into the free slots, of which one stays free, appends.
LEMMA AnilloEscribe ==
    ASSUME NEW N, NEW b, NEW r, NEW w, EsAnillo(N, b, r, w),
           NEW s \in Seq(Int), Len(s) + Largo(N, r, w) < N
    PROVE  LET v == Lugar(N, w, Len(s) + 1)
               e == Escrito(N, b, w, s)
           IN  /\ EsAnillo(N, e, r, v)
               /\ Largo(N, r, v) = Largo(N, r, w) + Len(s)
               /\ Anillo(N, e, r, v) = Anillo(N, b, r, w) \o s
<1> DEFINE n == Largo(N, r, w)
           k == Len(s)
           v == Lugar(N, w, k + 1)
           e == Escrito(N, b, w, s)
           A == Anillo(N, b, r, w)
<1>0. /\ N \in Nat /\ N > 0 /\ b \in [0..(N - 1) -> Int]
      /\ r \in 0..(N - 1) /\ w \in 0..(N - 1)
  BY DEF EsAnillo
<1>1. k \in Nat /\ \A i \in 1..k : s[i] \in Int
  BY LenProperties, ElementOfSeq
<1>2. n \in 0..(N - 1) /\ n = IF w >= r THEN w - r ELSE (w - r) + N
  BY <1>0, LargoDe
<1>3. k + n < N /\ k + 1 \in 1..(N + 1)
  BY <1>0, <1>1, <1>2
<1>4. A \in Seq(Int) /\ Len(A) = n /\ \A i \in 1..n : A[i] = b[Lugar(N, r, i)]
  BY AnilloTipo DEF Contiene
<1>5. ASSUME NEW i \in 0..(N - 1)
      PROVE  /\ e[i] = IF Largo(N, w, i) + 1 <= k THEN s[Largo(N, w, i) + 1] ELSE b[i]
             /\ e[i] \in Int
  <2>1. Largo(N, w, i) \in 0..(N - 1)
    BY <1>0, LargoDe
  <2>2. e[i] = IF Largo(N, w, i) + 1 <= k THEN s[Largo(N, w, i) + 1] ELSE b[i]
    BY DEF Escrito
  <2>3. Largo(N, w, i) + 1 <= k => Largo(N, w, i) + 1 \in 1..k
    BY <1>1, <2>1
  <2>4. b[i] \in Int
    BY <1>0
  <2> HIDE DEF e, k
  <2> QED  BY <1>1, <2>2, <2>3, <2>4
<1>6. e \in [0..(N - 1) -> Int]
  <2>1. e = [i \in 0..(N - 1) |-> e[i]]
    BY DEF Escrito
  <2> HIDE DEF e
  <2> QED  BY <1>5, <2>1
<1> HIDE DEF n, k, e, A
<1>7. v \in 0..(N - 1) /\ v = IF w + k < N THEN w + k ELSE (w + k) - N
  <2>1. v = IF w + (k + 1) - 1 < N THEN w + (k + 1) - 1 ELSE (w + (k + 1) - 1) - N
    BY <1>0, <1>3, LugarDe
  <2> HIDE DEF v
  <2> QED  BY <1>0, <1>1, <1>2, <1>3, <2>1
<1> HIDE DEF v
<1>8. Largo(N, r, v) = n + k
  <2>1. Largo(N, r, v) = IF v >= r THEN v - r ELSE (v - r) + N
    BY <1>0, <1>7, LargoDe
  <2> QED  BY <1>0, <1>1, <1>2, <1>3, <1>7, <2>1
<1>9. EsAnillo(N, e, r, v)
  BY <1>0, <1>6, <1>7 DEF EsAnillo
<1>10. /\ A \o s \in Seq(Int) /\ Len(A \o s) = n + k
       /\ \A i \in 1..(n + k) : (A \o s)[i] = IF i <= n THEN A[i] ELSE s[i - n]
  <2>1. Len(s) = k
    BY DEF k
  <2> QED  BY <1>4, <2>1, ConcatProperties
<1>11. ASSUME NEW i \in 1..(n + k)
       PROVE  (A \o s)[i] = e[Lugar(N, r, i)]
  <2> DEFINE p == Lugar(N, r, i)
             d == Largo(N, w, p)
  <2>1. p \in 0..(N - 1) /\ p = IF r + i - 1 < N THEN r + i - 1 ELSE (r + i - 1) - N
    <3>1. i \in 1..(N + 1)
      BY <1>0, <1>1, <1>2, <1>3
    <3> QED  BY <1>0, <3>1, LugarDe
  <2>2. (A \o s)[i] = IF i <= n THEN A[i] ELSE s[i - n]
    BY <1>10
  <2> HIDE DEF p
  <2>3. d = IF p >= w THEN p - w ELSE (p - w) + N
    BY <1>0, <2>1, LargoDe
  <2>4. e[p] = IF d + 1 <= k THEN s[d + 1] ELSE b[p]
    BY <1>5, <2>1
  <2> HIDE DEF d
  <2>5. i \in Int /\ 1 <= i /\ i <= n + k
    BY <1>1, <1>2
  <2>6. CASE i <= n
    <3>1. ~(d + 1 <= k)
      BY <1>0, <1>1, <1>2, <1>3, <2>1, <2>3, <2>5, <2>6
    <3>2. A[i] = b[p]
      <4>1. i \in 1..n
        BY <1>2, <2>5, <2>6
      <4> QED  BY <1>4, <4>1 DEF p
    <3> QED  BY <2>2, <2>4, <2>6, <3>1, <3>2 DEF p
  <2>7. CASE ~(i <= n)
    <3>1. d = i - n - 1
      BY <1>0, <1>1, <1>2, <1>3, <2>1, <2>3, <2>5, <2>7
    <3>2. d + 1 <= k /\ d + 1 = i - n
      BY <1>1, <1>2, <2>5, <3>1
    <3> QED  BY <2>2, <2>4, <2>7, <3>2 DEF p
  <2> QED  BY <2>6, <2>7
<1>12. Contiene(N, e, r, v, A \o s)
  BY <1>8, <1>10, <1>11 DEF Contiene
<1>13. A \o s = Anillo(N, e, r, v)
  BY <1>9, <1>12, AnilloTipo
<1> QED  BY <1>8, <1>9, <1>13 DEF e, v, A, n, k

\* Advancing r takes the first element away.
LEMMA AnilloLee ==
    ASSUME NEW N, NEW b, NEW r, NEW w, EsAnillo(N, b, r, w), w # r
    PROVE  LET q == Lugar(N, r, 2)
           IN  /\ EsAnillo(N, b, q, w)
               /\ Largo(N, q, w) = Largo(N, r, w) - 1
               /\ Anillo(N, b, q, w) = Tail(Anillo(N, b, r, w))
<1> DEFINE n == Largo(N, r, w)
           q == Lugar(N, r, 2)
           A == Anillo(N, b, r, w)
<1>0. /\ N \in Nat /\ N > 0 /\ b \in [0..(N - 1) -> Int]
      /\ r \in 0..(N - 1) /\ w \in 0..(N - 1)
  BY DEF EsAnillo
<1>1. n \in 1..(N - 1) /\ n = IF w >= r THEN w - r ELSE (w - r) + N
  <2>1. n \in 0..(N - 1) /\ n = IF w >= r THEN w - r ELSE (w - r) + N
    BY <1>0, LargoDe
  <2> HIDE DEF n
  <2> QED  BY <1>0, <2>1
<1>2. q \in 0..(N - 1) /\ q = IF r + 1 < N THEN r + 1 ELSE (r + 1) - N
  <2>1. 2 \in 1..(N + 1) /\ r + 2 - 1 = r + 1
    BY <1>0
  <2> QED  BY <1>0, <2>1, LugarDe
<1>3. A \in Seq(Int) /\ Len(A) = n /\ \A i \in 1..n : A[i] = b[Lugar(N, r, i)]
  BY AnilloTipo DEF Contiene
<1> HIDE DEF n, q, A
<1>4. EsAnillo(N, b, q, w)
  BY <1>0, <1>2 DEF EsAnillo
<1>5. Largo(N, q, w) = n - 1
  <2>1. Largo(N, q, w) = IF w >= q THEN w - q ELSE (w - q) + N
    BY <1>0, <1>2, LargoDe
  <2>2. CASE w > r
    BY <1>0, <1>1, <1>2, <2>1, <2>2
  <2>3. CASE w < r
    <3>1. n = (w - r) + N
      BY <1>0, <1>1, <2>3
    <3>2. CASE r + 1 < N
      <4>1. q = r + 1 /\ w < q
        BY <1>0, <1>2, <2>3, <3>2
      <4> QED  BY <1>0, <2>1, <3>1, <4>1
    <3>3. CASE r = N - 1
      <4>1. q = 0
        BY <1>0, <1>2, <3>3
      <4> QED  BY <1>0, <2>1, <3>1, <3>3, <4>1
    <3> QED  BY <1>0, <3>2, <3>3
  <2> QED  BY <1>0, <2>2, <2>3
<1>6. /\ Tail(A) \in Seq(Int) /\ Len(Tail(A)) = n - 1
      /\ \A i \in 1..(n - 1) : Tail(A)[i] = A[i + 1]
  <2>1. A # <<>>
    BY <1>1, <1>3, EmptySeq
  <2> QED  BY <1>3, <2>1, HeadTailProperties
<1>7. ASSUME NEW i \in 1..(n - 1)
      PROVE  Tail(A)[i] = b[Lugar(N, q, i)]
  <2>1. i + 1 \in 1..n /\ i \in 1..(N + 1) /\ i + 1 \in 1..(N + 1)
    BY <1>0, <1>1
  <2>2. Lugar(N, q, i) = IF q + i - 1 < N THEN q + i - 1 ELSE (q + i - 1) - N
    BY <1>0, <1>2, <2>1, LugarDe
  <2>3. Lugar(N, r, i + 1) = IF r + (i + 1) - 1 < N THEN r + (i + 1) - 1
                             ELSE (r + (i + 1) - 1) - N
    BY <1>0, <2>1, LugarDe
  <2>4. Lugar(N, q, i) = Lugar(N, r, i + 1)
    BY <1>0, <1>1, <1>2, <2>2, <2>3
  <2>5. Tail(A)[i] = A[i + 1] /\ A[i + 1] = b[Lugar(N, r, i + 1)]
    BY <1>3, <1>6, <2>1
  <2> QED  BY <2>4, <2>5
<1>8. Contiene(N, b, q, w, Tail(A))
  BY <1>5, <1>6, <1>7 DEF Contiene
<1>9. Tail(A) = Anillo(N, b, q, w)
  BY <1>4, <1>8, AnilloTipo
<1> QED  BY <1>4, <1>5, <1>9 DEF q, A, n

\* A place that advances by d is d further from where it was, and from what is
\* behind it as long as it does not come round.
LEMMA Avanza ==
    ASSUME NEW N \in Nat, NEW s \in 0..(N - 1), NEW r \in 0..(N - 1),
           NEW d \in Nat, d < N
    PROVE  LET t == Lugar(N, r, d + 1)
           IN  /\ t = (r + d) % N /\ t \in 0..(N - 1)
               /\ Largo(N, r, t) = d
               /\ Largo(N, s, r) + d < N => Largo(N, s, t) = Largo(N, s, r) + d
<1> DEFINE t == Lugar(N, r, d + 1)
           a == Largo(N, s, r)
<1>0. N > 0 /\ d + 1 \in 1..(N + 1) /\ r + (d + 1) - 1 = r + d
  OBVIOUS
<1>1. t \in 0..(N - 1) /\ t = IF r + d < N THEN r + d ELSE (r + d) - N
  BY <1>0, LugarDe
<1>2. a \in 0..(N - 1) /\ a = IF r >= s THEN r - s ELSE (r - s) + N
  BY <1>0, LargoDe
<1>3. t = (r + d) % N
  BY <1>0 DEF Lugar
<1> HIDE DEF t, a
<1>4. Largo(N, r, t) = IF t >= r THEN t - r ELSE (t - r) + N
  BY <1>0, <1>1, LargoDe
<1>5. Largo(N, s, t) = IF t >= s THEN t - s ELSE (t - s) + N
  BY <1>0, <1>1, LargoDe
<1>6. Largo(N, r, t) = d
  BY <1>0, <1>1, <1>4
<1>7. a + d < N => Largo(N, s, t) = a + d
  BY <1>0, <1>1, <1>2, <1>5
<1> QED  BY <1>1, <1>3, <1>6, <1>7 DEF t, a

-----------------------------------------------------------------------------
(* Queues without repetitions *)

\* The head leaves a queue in which it was once.
LEMMA SaleUno ==
    ASSUME NEW S, NEW q \in Seq(S), q # <<>>, IsInjective(q)
    PROVE  /\ Head(q) \in S /\ Head(q) \in Range(q)
           /\ Tail(q) \in Seq(S) /\ IsInjective(Tail(q))
           /\ Range(Tail(q)) = Range(q) \ {Head(q)}
<1> DEFINE t == Tail(q)
           n == Len(q)
<1>1. /\ Head(q) \in S /\ t \in Seq(S) /\ Len(t) = n - 1 /\ Head(q) = q[1]
      /\ \A i \in 1..Len(t) : t[i] = q[i + 1]
  BY HeadTailProperties
<1>2. n \in Nat /\ n > 0 /\ DOMAIN q = 1..n /\ DOMAIN t = 1..Len(t)
  BY <1>1, EmptySeq, LenProperties
<1>3. Range(q) = {q[i] : i \in 1..n} /\ Range(t) = {t[i] : i \in 1..Len(t)}
  BY <1>1, RangeEquality
<1> HIDE DEF t, n
<1>4. \A i \in 1..Len(t) : i + 1 \in 1..n /\ i + 1 # 1
  BY <1>1, <1>2
<1>5. IsInjective(t)
  <2>1. ASSUME NEW i \in 1..Len(t), NEW j \in 1..Len(t), t[i] = t[j] PROVE i = j
    <3>1. q[i + 1] = q[j + 1]
      BY <1>1, <2>1
    <3>2. i + 1 = j + 1
      BY <1>2, <1>4, <3>1 DEF IsInjective
    <3> QED  BY <1>1, <1>2, <3>2
  <2> QED  BY <1>2, <2>1 DEF IsInjective
<1>6. 1 \in 1..n
  BY <1>2
<1>7. ASSUME NEW x \in Range(t) PROVE x \in Range(q) /\ x # q[1]
  <2>1. PICK i \in 1..Len(t) : x = t[i]
    BY <1>3
  <2>2. x = q[i + 1] /\ i + 1 \in 1..n /\ i + 1 # 1
    BY <1>1, <1>4, <2>1
  <2> QED  BY <1>2, <1>3, <1>6, <2>2 DEF IsInjective
<1>8. ASSUME NEW x \in Range(q), x # q[1] PROVE x \in Range(t)
  <2>1. PICK i \in 1..n : x = q[i]
    BY <1>3
  <2>2. i # 1
    BY <1>8, <2>1
  <2>3. i - 1 \in 1..Len(t) /\ (i - 1) + 1 = i
    BY <1>1, <1>2, <2>1, <2>2
  <2>4. t[i - 1] = x
    BY <1>1, <2>1, <2>3
  <2> QED  BY <1>3, <2>3, <2>4
<1> QED  BY <1>1, <1>3, <1>5, <1>6, <1>7, <1>8 DEF t

\* Somebody who was not in the queue enters it.
LEMMA EntraUno ==
    ASSUME NEW S, NEW q \in Seq(S), IsInjective(q), NEW x \in S, x \notin Range(q)
    PROVE  /\ Append(q, x) \in Seq(S) /\ IsInjective(Append(q, x))
           /\ Range(Append(q, x)) = Range(q) \cup {x}
<1> DEFINE t == Append(q, x)
           n == Len(q)
<1>1. /\ t \in Seq(S) /\ Len(t) = n + 1 /\ n \in Nat
      /\ \A i \in 1..n : t[i] = q[i]
      /\ t[n + 1] = x
  BY AppendProperties, LenProperties
<1>2. DOMAIN q = 1..n /\ DOMAIN t = 1..(n + 1)
  BY <1>1, LenProperties
<1>3. Range(q) = {q[i] : i \in 1..n} /\ Range(t) = {t[i] : i \in 1..(n + 1)}
  BY <1>1, RangeEquality
<1> HIDE DEF t, n
<1>4. \A i \in 1..(n + 1) : i \in 1..n \/ i = n + 1
  BY <1>1
<1>5. n + 1 \in 1..(n + 1) /\ \A i \in 1..n : i \in 1..(n + 1)
  BY <1>1
<1>6. \A i \in 1..n : q[i] # x
  BY <1>3
<1>7. IsInjective(t)
  BY <1>1, <1>2, <1>4, <1>6 DEF IsInjective
<1>8. Range(t) = Range(q) \cup {x}
  BY <1>1, <1>3, <1>4, <1>5
<1> QED  BY <1>1, <1>7, <1>8 DEF t

=============================================================================
