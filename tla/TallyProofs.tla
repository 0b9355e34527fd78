----------------------------- MODULE TallyProofs ------------------------------
(***************************************************************************)
(* Sums over finite sets and over sequences: what adding, removing and     *)
(* renaming a member does to them.  The proofs about the components that   *)
(* count bytes rest on these facts.                                        *)
(***************************************************************************)
EXTENDS Tally, Integers, Sequences, Functions, FiniteSetTheorems, TLAPS

Weighs(S, w) == \A x \in S : w[x] \in Nat

\* The units of one member.
LEMMA UnitsOfOne ==
    ASSUME NEW x, NEW n \in Nat
    PROVE  IsFiniteSet({x} \X (1 .. n)) /\ Cardinality({x} \X (1 .. n)) = n
<1>1. IsFiniteSet({x}) /\ Cardinality({x}) = 1
  BY FS_Singleton
<1>2. IsFiniteSet(1 .. n) /\ Cardinality(1 .. n) = n
  BY FS_Interval
<1> DEFINE I == 1 .. n
<1> HIDE DEF I
<1>3. /\ IsFiniteSet({x} \X I)
      /\ Cardinality({x} \X I) = Cardinality({x}) * Cardinality(I)
  BY <1>1, <1>2, FS_Product DEF I
<1>4. Cardinality({x}) * Cardinality(I) = n
  BY <1>1, <1>2 DEF I
<1>5. QED
  BY <1>3, <1>4 DEF I

\* A finite set has finitely many units.
LEMMA UnitsAreFinite ==
    ASSUME NEW S, IsFiniteSet(S), NEW w, Weighs(S, w)
    PROVE  IsFiniteSet(Units(S, w)) /\ Total(S, w) \in Nat
<1> DEFINE f == [x \in S |-> {x} \X (1 .. w[x])]
           T == {{x} \X (1 .. w[x]) : x \in S}
<1>1. f \in Surjection(S, T)
  BY DEF Surjection
<1>2. IsFiniteSet(T)
  <2> HIDE DEF f, T
  <2>1. QED BY <1>1, FS_Surjection
<1>3. \A t \in T : IsFiniteSet(t)
  <2> SUFFICES ASSUME NEW x \in S PROVE IsFiniteSet({x} \X (1 .. w[x]))
    OBVIOUS
  <2>1. QED BY UnitsOfOne DEF Weighs
<1>4. IsFiniteSet(UNION T)
  <2> HIDE DEF T
  <2>1. QED BY <1>2, <1>3, FS_UNION
<1>5. QED
  BY <1>4, FS_CardinalityType DEF Units, Total

\* Only the weights of the members count.
LEMMA TotalSame ==
    ASSUME NEW S, NEW w, NEW v, \A x \in S : w[x] = v[x]
    PROVE  Units(S, w) = Units(S, v) /\ Total(S, w) = Total(S, v)
BY DEF Units, Total

LEMMA TotalEmpty ==
    ASSUME NEW w
    PROVE  Total({}, w) = 0
<1>1. Units({}, w) = {}
  BY DEF Units
<1>2. QED
  BY <1>1, FS_EmptySet DEF Total

\* A new member adds its weight.
LEMMA TotalAdd ==
    ASSUME NEW S, IsFiniteSet(S), NEW w, NEW y, y \notin S, Weighs(S \cup {y}, w)
    PROVE  Total(S \cup {y}, w) = Total(S, w) + w[y]
<1> DEFINE A == Units(S, w)
           B == {y} \X (1 .. w[y])
<1>1. Units(S \cup {y}, w) = A \cup B
  BY DEF Units
<1>2. A \cap B = {}
  BY DEF Units
<1>3. IsFiniteSet(A) /\ Cardinality(A) \in Nat /\ Cardinality(A) = Total(S, w)
  BY UnitsAreFinite DEF Total, Weighs
<1>4. IsFiniteSet(B) /\ Cardinality(B) = w[y] /\ w[y] \in Nat
  BY UnitsOfOne DEF Weighs
<1> HIDE DEF A, B
<1>5. Cardinality(A \cup B) = Cardinality(A) + Cardinality(B) - Cardinality(A \cap B)
  BY <1>3, <1>4, FS_Union
<1>6. Cardinality(A \cap B) = 0
  BY <1>2, FS_EmptySet
<1>7. Cardinality(A \cup B) = Cardinality(A) + w[y]
  BY <1>3, <1>4, <1>5, <1>6
<1>8. QED
  BY <1>1, <1>3, <1>7 DEF Total

\* A member that goes takes its weight with it.
LEMMA TotalRemove ==
    ASSUME NEW S, IsFiniteSet(S), NEW w, Weighs(S, w), NEW y \in S
    PROVE  /\ Total(S, w) = Total(S \ {y}, w) + w[y]
           /\ Total(S \ {y}, w) \in Nat /\ w[y] \in Nat
<1>1. IsFiniteSet(S \ {y}) /\ (S \ {y}) \cup {y} = S
  BY FS_RemoveElement
<1>2. QED
  BY ZenonT(30), <1>1, TotalAdd, UnitsAreFinite DEF Weighs

\* Fewer members weigh no more.
LEMMA TotalOfFewer ==
    ASSUME NEW S, IsFiniteSet(S), NEW w, Weighs(S, w), NEW T \in SUBSET S
    PROVE  /\ Total(T, w) <= Total(S, w)
           /\ Total(T, w) \in Nat /\ Total(S, w) \in Nat
<1>1. Units(T, w) \subseteq Units(S, w)
  BY DEF Units
<1>2. IsFiniteSet(T) /\ Weighs(T, w)
  BY FS_Subset DEF Weighs
<1>3. QED
  BY <1>1, <1>2, UnitsAreFinite, FS_Subset DEF Total

\* Sets without a common member weigh together what they weigh apart.
LEMMA TotalOfBoth ==
    ASSUME NEW S, IsFiniteSet(S), NEW T, IsFiniteSet(T), S \cap T = {}, NEW w, Weighs(S \cup T, w)
    PROVE  /\ Total(S \cup T, w) = Total(S, w) + Total(T, w)
           /\ Total(S, w) \in Nat /\ Total(T, w) \in Nat
<1>1. Units(S \cup T, w) = Units(S, w) \cup Units(T, w)
  BY DEF Units
<1>2. Units(S, w) \cap Units(T, w) = {}
  BY DEF Units
<1>3. /\ IsFiniteSet(Units(S, w)) /\ Total(S, w) \in Nat
      /\ IsFiniteSet(Units(T, w)) /\ Total(T, w) \in Nat
  BY UnitsAreFinite DEF Weighs
<1>4. Cardinality(Units(S, w) \cup Units(T, w))
        = Cardinality(Units(S, w)) + Cardinality(Units(T, w)) - Cardinality(Units(S, w) \cap Units(T, w))
  BY <1>3, FS_Union
<1>5. Cardinality(Units(S, w) \cap Units(T, w)) = 0
  BY <1>2, FS_EmptySet
<1>6. Cardinality(Units(S, w) \cup Units(T, w)) = Total(S, w) + Total(T, w)
  BY <1>3, <1>4, <1>5 DEF Total
<1>7. QED
  BY <1>1, <1>3, <1>6 DEF Total

\* Members may change their names and keep their weights.
LEMMA TotalRenamed ==
    ASSUME NEW S, IsFiniteSet(S), NEW T, NEW w, Weighs(S, w), NEW v,
           NEW f \in Bijection(S, T), \A x \in S : v[f[x]] = w[x]
    PROVE  Total(T, v) = Total(S, w)
<1> DEFINE g == [u \in Units(S, w) |-> <<f[u[1]], u[2]>>]
<1>1. /\ f \in [S -> T] /\ \A y \in T : \E x \in S : f[x] = y
      /\ \A x, y \in S : f[x] = f[y] => x = y
  BY DEF Bijection, Injection, Surjection, IsInjective
<1>2. g \in [Units(S, w) -> Units(T, v)]
  <2>1. ASSUME NEW u \in Units(S, w) PROVE <<f[u[1]], u[2]>> \in Units(T, v)
    <3>1. PICK x \in S : u \in {x} \X (1 .. w[x])
      BY DEF Units
    <3>2. f[x] \in T /\ <<f[u[1]], u[2]>> \in {f[x]} \X (1 .. v[f[x]])
      BY <1>1, <3>1
    <3>3. QED BY <3>2 DEF Units
  <2>2. QED BY <2>1
<1>3. \A t, u \in Units(S, w) : g[t] = g[u] => t = u
  <2> SUFFICES ASSUME NEW t \in Units(S, w), NEW u \in Units(S, w), g[t] = g[u] PROVE t = u
    OBVIOUS
  <2>1. PICK x \in S : t \in {x} \X (1 .. w[x])
    BY DEF Units
  <2>2. PICK y \in S : u \in {y} \X (1 .. w[y])
    BY DEF Units
  <2>3. f[t[1]] = f[u[1]] /\ t[2] = u[2]
    OBVIOUS
  <2>4. QED BY <1>1, <2>1, <2>2, <2>3
<1>4. \A u \in Units(T, v) : \E t \in Units(S, w) : g[t] = u
  <2> SUFFICES ASSUME NEW u \in Units(T, v) PROVE \E t \in Units(S, w) : g[t] = u
    OBVIOUS
  <2>1. PICK y \in T : u \in {y} \X (1 .. v[y])
    BY DEF Units
  <2>2. PICK x \in S : f[x] = y
    BY <1>1
  <2>3. <<x, u[2]>> \in {x} \X (1 .. w[x])
    BY <2>1, <2>2
  <2>4. <<x, u[2]>> \in Units(S, w)
    BY <2>3 DEF Units
  <2>5. g[<<x, u[2]>>] = u
    BY <2>1, <2>2, <2>4
  <2>6. QED BY <2>4, <2>5
<1>5. g \in Bijection(Units(S, w), Units(T, v))
  <2> HIDE DEF g
  <2>1. QED BY <1>2, <1>3, <1>4 DEF Bijection, Injection, Surjection, IsInjective
<1>6. QED
  BY <1>5, UnitsAreFinite, FS_Bijection DEF Total, ExistsBijection

\* One member, or two, weigh no more than all of them.
LEMMA TotalOfOne ==
    ASSUME NEW S, IsFiniteSet(S), NEW w, Weighs(S, w), NEW x \in S
    PROVE  w[x] <= Total(S, w) /\ w[x] \in Nat /\ Total(S, w) \in Nat
<1>1. /\ Total(S, w) = Total(S \ {x}, w) + w[x]
      /\ Total(S \ {x}, w) \in Nat /\ w[x] \in Nat
  BY TotalRemove
<1>2. QED
  BY <1>1

LEMMA TotalOfTwo ==
    ASSUME NEW S, IsFiniteSet(S), NEW w, Weighs(S, w), NEW x \in S, NEW y \in S, x # y
    PROVE  w[x] + w[y] <= Total(S, w)
<1>1. /\ Total(S, w) = Total(S \ {x}, w) + w[x]
      /\ Total(S \ {x}, w) \in Nat /\ w[x] \in Nat /\ w[y] \in Nat
  BY TotalRemove DEF Weighs
<1>2. IsFiniteSet(S \ {x}) /\ Weighs(S \ {x}, w) /\ y \in S \ {x}
  BY FS_RemoveElement DEF Weighs
<1>3. w[y] <= Total(S \ {x}, w)
  BY <1>2, TotalOfOne
<1>4. QED
  BY <1>1, <1>3

-----------------------------------------------------------------------------
(* Sequences of numbers *)

LEMMA SequenceWeighs ==
    ASSUME NEW q \in Seq(Nat)
    PROVE  /\ IsFiniteSet(DOMAIN q) /\ Weighs(DOMAIN q, q)
           /\ TotalOf(q) \in Nat
<1>1. IsFiniteSet(DOMAIN q) /\ Weighs(DOMAIN q, q)
  <2>1. DOMAIN q = 1 .. Len(q) /\ Len(q) \in Nat
    OBVIOUS
  <2>2. IsFiniteSet(1 .. Len(q))
    BY <2>1, FS_Interval
  <2>3. QED BY <2>1, <2>2 DEF Weighs
<1>2. QED
  BY <1>1, UnitsAreFinite DEF TotalOf

\* One more at the end.
LEMMA TotalAppend ==
    ASSUME NEW q \in Seq(Nat), NEW n \in Nat
    PROVE  TotalOf(Append(q, n)) = TotalOf(q) + n
<1> DEFINE r == Append(q, n)
           D == DOMAIN q
           z == Len(q) + 1
<1>1. /\ DOMAIN r = D \cup {z} /\ z \notin D /\ r[z] = n /\ \A i \in D : r[i] = q[i]
      /\ r \in Seq(Nat)
  OBVIOUS
<1>2. IsFiniteSet(D) /\ Weighs(D \cup {z}, r)
  BY <1>1, SequenceWeighs
<1> HIDE DEF r, D, z
<1>3. Total(D \cup {z}, r) = Total(D, r) + r[z]
  BY <1>1, <1>2, TotalAdd
<1>4. Total(D, r) = Total(D, q)
  BY <1>1, TotalSame
<1>5. QED
  BY <1>1, <1>3, <1>4 DEF TotalOf, r, D

\* The first one is taken off.
LEMMA TotalTail ==
    ASSUME NEW q \in Seq(Nat), q # <<>>
    PROVE  /\ TotalOf(q) = TotalOf(Tail(q)) + Head(q)
           /\ TotalOf(Tail(q)) \in Nat /\ Head(q) \in Nat
<1> DEFINE r == Tail(q)
           D == DOMAIN q
           E == DOMAIN r
           f == [i \in D \ {1} |-> i - 1]
<1>1. /\ 1 \in D /\ Head(q) = q[1] /\ q[1] \in Nat /\ r \in Seq(Nat)
      /\ D = 1 .. Len(q) /\ E = 1 .. (Len(q) - 1) /\ Len(q) \in Nat \ {0}
      /\ \A i \in E : r[i] = q[i + 1]
  OBVIOUS
<1>2. f \in Bijection(D \ {1}, E)
  <2>1. f \in [D \ {1} -> E]
    BY <1>1
  <2>2. \A i, j \in D \ {1} : f[i] = f[j] => i = j
    BY <1>1
  <2>3. \A j \in E : \E i \in D \ {1} : f[i] = j
    <3> SUFFICES ASSUME NEW j \in E PROVE \E i \in D \ {1} : f[i] = j
      OBVIOUS
    <3>1. j + 1 \in D \ {1} /\ f[j + 1] = j
      BY <1>1
    <3>2. QED BY <3>1
  <2> HIDE DEF f
  <2>4. QED BY <2>1, <2>2, <2>3 DEF Bijection, Injection, Surjection, IsInjective
<1>3. \A i \in D \ {1} : r[f[i]] = q[i]
  BY <1>1
<1>4. IsFiniteSet(D) /\ Weighs(D, q)
  BY SequenceWeighs
<1>5. IsFiniteSet(D \ {1}) /\ Weighs(D \ {1}, q)
  BY <1>4, FS_RemoveElement DEF Weighs
<1> HIDE DEF f, D, E, r
<1>6. Total(E, r) = Total(D \ {1}, q)
  BY <1>2, <1>3, <1>5, TotalRenamed
<1>7. Total(D, q) = Total(D \ {1}, q) + q[1] /\ Total(D \ {1}, q) \in Nat
  <2>1. \A y \in D : Total(D, q) = Total(D \ {y}, q) + q[y] /\ Total(D \ {y}, q) \in Nat
    BY <1>4, TotalRemove
  <2>2. QED BY <1>1, <2>1
<1>8. TotalOf(q) = Total(D, q) /\ TotalOf(Tail(q)) = Total(E, r)
  BY DEF TotalOf, D, E, r
<1>9. Total(E, r) \in Nat /\ q[1] \in Nat /\ Total(D, q) = Total(E, r) + q[1] /\ Head(q) = q[1]
  BY <1>1, <1>6, <1>7
<1>10. QED
  BY <1>8, <1>9
===============================================================================
