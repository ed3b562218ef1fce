------------------------------ MODULE TfgProofs -----------------------------
(***************************************************************************)
(* Theorems about tfg, for any file, any tree and a screen of any size:    *)
(* the counts of the call tree add up also between two levels of an        *)
(* insertion; every rebuilt tree fits the screen; the browser's cursor,    *)
(* zoom and windows stay on that tree, whatever the keys; what is parsed   *)
(* is what the file says, and what is dumped is what was parsed.           *)
(***************************************************************************)
EXTENDS Tfg, FiniteSetTheorems, SequenceTheorems, TLAPS

(***************************************************************************)
(* Minimal elements, recursive functions and sums.                         *)
(***************************************************************************)

LEMMA LeastNat ==
    ASSUME NEW T, T \subseteq Nat, T # {}
    PROVE  \E n \in T : \A m \in T : n <= m
  <1> DEFINE R == OpToRel(<, Nat)
  <1>1. IsWellFoundedOn(R, Nat)
    BY NatLessThanWellFounded
  <1>2. \A m, n \in Nat : m < n => <<m, n>> \in R
    BY DEF OpToRel
  <1> HIDE DEF R
  <1>3. PICK n \in T : \A m \in T : ~ (<<m, n>> \in R)
    BY <1>1, WFMin
  <1>4. \A m \in T : n <= m
    <2> SUFFICES ASSUME NEW m \in T PROVE ~ (m < n)
      OBVIOUS
    <2> QED
      BY <1>2, <1>3
  <1> QED
    BY <1>4

\* A function that is defined from its value at a point of a smaller rank exists.
Steps(D, V, rank, pred, base, G) ==
    /\ rank \in [D -> Nat] /\ base \in [D -> V] /\ G \in [D -> [V -> V]]
    /\ \A d \in D : rank[d] # 0 => pred[d] \in D /\ rank[pred[d]] < rank[d]
Recursive(g, D, rank, pred, base, G) ==
    \A d \in D : g[d] = IF rank[d] = 0 THEN base[d] ELSE G[d][g[pred[d]]]

LEMMA Recursion ==
    ASSUME NEW D, NEW V, NEW rank, NEW pred, NEW base, NEW G, Steps(D, V, rank, pred, base, G)
    PROVE  \E g : g \in [D -> V] /\ Recursive(g, D, rank, pred, base, G)
  <1>0. /\ rank \in [D -> Nat] /\ base \in [D -> V] /\ G \in [D -> [V -> V]]
        /\ \A d \in D : rank[d] # 0 => pred[d] \in D /\ rank[pred[d]] < rank[d]
    BY DEF Steps
  <1> USE <1>0
  <1> DEFINE Below(n) == {d \in D : rank[d] <= n}
             Sat(h, n) == /\ h \in [Below(n) -> V]
                          /\ \A d \in Below(n) : h[d] = IF rank[d] = 0 THEN base[d] ELSE G[d][h[pred[d]]]
  <1>1. ASSUME NEW m \in Nat, NEW n \in Nat, NEW h, NEW k, Sat(h, m), Sat(k, n)
        PROVE  \A d \in Below(m) \cap Below(n) : h[d] = k[d]
    <2> DEFINE Bad == {x \in Nat : \E d \in Below(m) \cap Below(n) : rank[d] = x /\ h[d] # k[d]}
    <2> SUFFICES ASSUME Bad # {} PROVE FALSE
      <3> SUFFICES ASSUME NEW d \in Below(m) \cap Below(n), h[d] # k[d] PROVE rank[d] \in Bad
        OBVIOUS
      <3> QED
        OBVIOUS
    <2>0. Bad \subseteq Nat
      OBVIOUS
    <2>1. PICK r \in Bad : \A x \in Bad : r <= x
      <3> HIDE DEF Bad
      <3> QED
        BY <2>0, LeastNat
    <2>2. PICK d \in Below(m) \cap Below(n) : h[d] # k[d] /\ r = rank[d]
      BY <2>1
    <2>3. rank[d] # 0
      BY <1>1, <2>2
    <2>4. pred[d] \in Below(m) \cap Below(n) /\ rank[pred[d]] < rank[d] /\ rank[pred[d]] \in Nat
      BY <2>2, <2>3
    <2>5. h[pred[d]] = k[pred[d]]
      <3>1. rank[pred[d]] \notin Bad
        BY <2>0, <2>1, <2>2, <2>4
      <3> QED
        BY <2>4, <3>1
    <2> QED
      BY <1>1, <2>2, <2>3, <2>5
  <1>2. ASSUME NEW n \in Nat PROVE \E h : Sat(h, n)
    <2> DEFINE Bad == {x \in Nat : ~ \E h : Sat(h, x)}
    <2> SUFFICES ASSUME Bad # {} PROVE FALSE
      OBVIOUS
    <2>1. PICK x \in Bad : \A y \in Bad : x <= y
      <3>1. Bad \subseteq Nat
        OBVIOUS
      <3> HIDE DEF Bad
      <3> QED
        BY <3>1, LeastNat
    <2>2. CASE x = 0
      <3> DEFINE h == [d \in Below(0) |-> base[d]]
      <3>1. Sat(h, 0)
        OBVIOUS
      <3> QED
        BY <2>1, <2>2, <3>1
    <2>3. CASE x # 0
      <3>1. x - 1 \in Nat /\ x - 1 \notin Bad
        <4>1. x \in Nat
          BY <2>1
        <4> HIDE DEF Bad
        <4> QED
          BY <2>1, <2>3, <4>1
      <3>2. PICK k : Sat(k, x - 1)
        BY <3>1
      <3> DEFINE h == [d \in Below(x) |-> IF rank[d] = 0 THEN base[d] ELSE G[d][k[pred[d]]]]
      <3>3. \A d \in Below(x) : rank[d] # 0 => pred[d] \in Below(x - 1) /\ pred[d] \in Below(x)
        BY <2>3, <3>1
      <3>4. \A d \in Below(x) : rank[d] # 0 => k[pred[d]] \in V
        BY <3>2, <3>3
      <3>5. h \in [Below(x) -> V]
        BY <3>4
      <3>6. \A d \in Below(x - 1) : h[d] = k[d]
        <4>1. Below(x - 1) \subseteq Below(x)
          BY <3>1
        <4> QED
          BY <3>2, <4>1
      <3>7. \A d \in Below(x) : h[d] = IF rank[d] = 0 THEN base[d] ELSE G[d][h[pred[d]]]
        BY <3>3, <3>6
      <3> HIDE DEF h
      <3>8. Sat(h, x)
        BY <3>5, <3>7
      <3> QED
        BY <2>1, <3>8
    <2> QED
      BY <2>2, <2>3
  <1> DEFINE H == [n \in Nat |-> CHOOSE h : Sat(h, n)]
             g == [d \in D |-> H[rank[d]][d]]
  <1>3. \A n \in Nat : Sat(H[n], n)
    BY <1>2
  <1> HIDE DEF H
  <1>4. \A d \in D : rank[d] \in Nat /\ d \in Below(rank[d])
    OBVIOUS
  <1>5. g \in [D -> V]
    BY <1>3, <1>4
  <1>6. ASSUME NEW d \in D PROVE g[d] = IF rank[d] = 0 THEN base[d] ELSE G[d][g[pred[d]]]
    <2>1. g[d] = IF rank[d] = 0 THEN base[d] ELSE G[d][H[rank[d]][pred[d]]]
      BY <1>3, <1>4
    <2>2. CASE rank[d] # 0
      <3>1. pred[d] \in D /\ pred[d] \in Below(rank[d]) /\ pred[d] \in Below(rank[pred[d]])
        BY <1>4, <2>2
      <3>2. H[rank[d]][pred[d]] = H[rank[pred[d]]][pred[d]]
        <4>1. rank[d] \in Nat /\ rank[pred[d]] \in Nat
          BY <3>1
        <4>2. Sat(H[rank[d]], rank[d]) /\ Sat(H[rank[pred[d]]], rank[pred[d]])
          BY <1>3, <4>1
        <4>3. pred[d] \in Below(rank[d]) \cap Below(rank[pred[d]])
          BY <3>1
        <4> HIDE DEF Sat, Below
        <4> QED
          BY <1>1, <4>1, <4>2, <4>3
      <3> QED
        BY <2>1, <2>2, <3>1, <3>2
    <2> QED
      BY <2>1, <2>2
  <1> QED
    BY <1>5, <1>6 DEF Recursive

\* A property goes up by rank, from an element's predecessor to the element.
Inherited(P, D, rank, pred) ==
    /\ rank \in [D -> Nat]
    /\ \A d \in D : rank[d] = 0 => d \in P
    /\ \A d \in D : rank[d] # 0 => pred[d] \in D /\ rank[pred[d]] < rank[d] /\ (pred[d] \in P => d \in P)

LEMMA Inheritance ==
    ASSUME NEW D, NEW P, NEW rank, NEW pred, Inherited(P, D, rank, pred)
    PROVE  D \subseteq P
  <1> USE DEF Inherited
  <1> DEFINE Bad == {x \in Nat : \E d \in D : rank[d] = x /\ d \notin P}
  <1> SUFFICES ASSUME Bad # {} PROVE FALSE
    OBVIOUS
  <1>0. Bad \subseteq Nat
    OBVIOUS
  <1>1. PICK r \in Bad : \A x \in Bad : r <= x
    <2> HIDE DEF Bad
    <2> QED
      BY <1>0, LeastNat
  <1>2. PICK d \in D : d \notin P /\ r = rank[d]
    BY <1>1
  <1>3. rank[d] # 0
    BY <1>2
  <1>4. pred[d] \in D /\ rank[pred[d]] < rank[d] /\ rank[pred[d]] \in Nat
    BY <1>2, <1>3
  <1>5. pred[d] \in P
    BY <1>1, <1>2, <1>4
  <1> QED
    BY <1>2, <1>3, <1>5

\* The sum of f over the elements of s, one after the other.
Element(s) == CHOOSE x \in s : TRUE
Summable(f, S) == IsFiniteSet(S) /\ \A x \in S : f[x] \in Int
Summed(g, f, S) == \A s \in SUBSET S : g[s] = IF s = {} THEN 0 ELSE f[Element(s)] + g[s \ {Element(s)}]

LEMMA SmallestSet ==
    ASSUME NEW S, IsFiniteSet(S), NEW T, T \subseteq SUBSET S, T # {}
    PROVE  \E s \in T : \A u \in T : Cardinality(s) <= Cardinality(u)
  <1> DEFINE C == {Cardinality(s) : s \in T}
  <1>1. \A s \in T : Cardinality(s) \in Nat
    BY FS_Subset, FS_CardinalityType
  <1>2. C \subseteq Nat /\ C # {}
    BY <1>1
  <1>3. PICK n \in C : \A m \in C : n <= m
    <2> HIDE DEF C
    <2> QED
      BY <1>2, LeastNat
  <1>4. PICK s \in T : n = Cardinality(s)
    BY <1>3
  <1> QED
    BY <1>3, <1>4

LEMMA Smaller ==
    ASSUME NEW S, IsFiniteSet(S), NEW s \in SUBSET S
    PROVE  /\ IsFiniteSet(s) /\ Cardinality(s) \in Nat /\ (Cardinality(s) = 0 <=> s = {})
           /\ \A x \in s : s \ {x} \in SUBSET S /\ Cardinality(s \ {x}) = Cardinality(s) - 1
           /\ s # {} => Element(s) \in s
  <1>1. IsFiniteSet(s)
    BY FS_Subset
  <1>2. s # {} => Element(s) \in s
    BY DEF Element
  <1> QED
    BY <1>1, <1>2, FS_CardinalityType, FS_EmptySet, FS_RemoveElement

LEMMA SumExists ==
    ASSUME NEW S, IsFiniteSet(S), NEW f, \A x \in S : f[x] \in Int
    PROVE  \E g \in [SUBSET S -> Int] : Summed(g, f, S)
  <1> DEFINE D == SUBSET S
             rank == [s \in D |-> Cardinality(s)]
             pred == [s \in D |-> s \ {Element(s)}]
             base == [s \in D |-> 0]
             G == [s \in D |-> [v \in Int |-> IF s = {} THEN 0 ELSE f[Element(s)] + v]]
  <1>1. rank \in [D -> Nat] /\ \A s \in D : rank[s] = 0 <=> s = {}
    BY Smaller
  <1>2. base \in [D -> Int]
    OBVIOUS
  <1>3. G \in [D -> [Int -> Int]]
    <2>1. \A s \in D : s # {} => f[Element(s)] \in Int
      BY Smaller
    <2> QED
      BY <2>1
  <1>4. \A s \in D : rank[s] # 0 => pred[s] \in D /\ rank[pred[s]] < rank[s]
    BY <1>1, Smaller
  <1>5. /\ \A s \in D : pred[s] = s \ {Element(s)} /\ base[s] = 0
        /\ \A s \in D, v \in Int : G[s][v] = IF s = {} THEN 0 ELSE f[Element(s)] + v
    OBVIOUS
  <1> HIDE DEF rank, pred, base, G
  <1>8. Steps(D, Int, rank, pred, base, G)
    BY <1>1, <1>2, <1>3, <1>4 DEF Steps
  <1>9. PICK h : h \in [D -> Int] /\ Recursive(h, D, rank, pred, base, G)
    BY <1>8, Recursion
  <1>6. PICK g \in [D -> Int] : \A s \in D : g[s] = IF rank[s] = 0 THEN base[s] ELSE G[s][g[pred[s]]]
    BY <1>9 DEF Recursive
  <1>7. Summed(g, f, S)
    <2> SUFFICES ASSUME NEW s \in D PROVE g[s] = IF s = {} THEN 0 ELSE f[Element(s)] + g[s \ {Element(s)}]
      BY DEF Summed
    <2>1. CASE s = {}
      BY <1>1, <1>5, <1>6, <2>1
    <2>2. CASE s # {}
      <3>1. rank[s] # 0 /\ pred[s] \in D
        BY <1>1, <1>4, <2>2
      <3>2. g[pred[s]] \in Int
        BY <1>6, <3>1
      <3> QED
        <4>1. g[s] = G[s][g[pred[s]]] /\ pred[s] = s \ {Element(s)}
          BY <1>5, <1>6, <3>1
        <4>2. G[s][g[pred[s]]] = f[Element(s)] + g[pred[s]]
          BY <1>5, <2>2, <3>2
        <4> QED
          BY <2>2, <4>1, <4>2
    <2> QED
      BY <2>1, <2>2
  <1> QED
    BY <1>6, <1>7

\* Two such functions agree.
LEMMA SumsAgree ==
    ASSUME NEW S, IsFiniteSet(S), NEW T \in SUBSET S, NEW f, NEW g, NEW h, Summed(g, f, S), Summed(h, f, T)
    PROVE  \A s \in SUBSET T : g[s] = h[s]
  <1> DEFINE Bad == {s \in SUBSET T : g[s] # h[s]}
  <1> SUFFICES ASSUME Bad # {} PROVE FALSE
    OBVIOUS
  <1>0. IsFiniteSet(T) /\ Bad \subseteq SUBSET T
    BY FS_Subset
  <1>1. PICK s \in Bad : \A u \in Bad : Cardinality(s) <= Cardinality(u)
    <2> HIDE DEF Bad
    <2> QED
      BY <1>0, SmallestSet
  <1>2. s \in SUBSET T /\ s \in SUBSET S /\ g[s] # h[s]
    BY <1>1
  <1>3. s # {}
    BY <1>2 DEF Summed
  <1>4. s \ {Element(s)} \in SUBSET T /\ Cardinality(s \ {Element(s)}) < Cardinality(s)
    BY <1>0, <1>2, <1>3, Smaller
  <1>5. s \ {Element(s)} \notin Bad
    <2>1. Cardinality(s) \in Nat /\ Cardinality(s \ {Element(s)}) \in Nat
      BY <1>0, <1>2, <1>4, Smaller
    <2> HIDE DEF Bad
    <2> QED
      BY <1>1, <1>4, <2>1
  <1>6. g[s \ {Element(s)}] = h[s \ {Element(s)}]
    BY <1>4, <1>5
  <1> QED
    BY <1>2, <1>3, <1>6 DEF Summed

IsSum(g, f, S) ==
    /\ g \in [SUBSET S -> Int] /\ Summed(g, f, S)
    /\ \A T \in SUBSET S : SumFunctionOnSet(f, T) = g[T]

LEMMA SumIs ==
    ASSUME NEW S, NEW f, Summable(f, S)
    PROVE  \E g : IsSum(g, f, S)
  <1>0. IsFiniteSet(S) /\ \A x \in S : f[x] \in Int
    BY DEF Summable
  <1>1. PICK g \in [SUBSET S -> Int] : Summed(g, f, S)
    BY <1>0, SumExists
  <1>2. ASSUME NEW T \in SUBSET S PROVE SumFunctionOnSet(f, T) = g[T]
    <2> DEFINE Iter(h) == h = [s \in SUBSET T |->
                                  IF s = {} THEN 0 ELSE f[CHOOSE x \in s : TRUE] + h[s \ {CHOOSE x \in s : TRUE}]]
               iter == CHOOSE h : Iter(h)
    <2>1. SumFunctionOnSet(f, T) = iter[T]
      BY DEF SumFunctionOnSet, FoldFunctionOnSet, MapThenFoldSet
    <2>2. \E h : Iter(h)
      <3>1. IsFiniteSet(T) /\ \A x \in T : f[x] \in Int
        BY <1>0, FS_Subset
      <3>2. PICK h \in [SUBSET T -> Int] : Summed(h, f, T)
        BY <3>1, SumExists
      <3> QED
        BY <3>2 DEF Summed, Element
    <2>3. Iter(iter)
      BY <2>2
    <2> HIDE DEF iter
    <2>4. Summed(iter, f, T)
      BY <2>3 DEF Summed, Element
    <2> QED
      BY <1>0, <1>1, <2>1, <2>4, SumsAgree
  <1> QED
    BY <1>1, <1>2 DEF IsSum

\* Any element may be taken out first.
LEMMA SumSplits ==
    ASSUME NEW S, NEW f, Summable(f, S)
    PROVE  /\ SumFunctionOnSet(f, S) \in Int /\ SumFunctionOnSet(f, {}) = 0
           /\ \A x \in S : SumFunctionOnSet(f, S) = f[x] + SumFunctionOnSet(f, S \ {x})
  <1>0. IsFiniteSet(S) /\ \A x \in S : f[x] \in Int
    BY DEF Summable
  <1>9. PICK g : IsSum(g, f, S)
    BY SumIs
  <1>1. g \in [SUBSET S -> Int] /\ Summed(g, f, S) /\ \A T \in SUBSET S : SumFunctionOnSet(f, T) = g[T]
    BY <1>9 DEF IsSum
  <1> DEFINE Bad == {s \in SUBSET S : \E x \in s : g[s] # f[x] + g[s \ {x}]}
  <1>2. Bad = {}
    <2> SUFFICES ASSUME Bad # {} PROVE FALSE
      OBVIOUS
    <2>0. Bad \subseteq SUBSET S
      OBVIOUS
    <2>1. PICK s \in Bad : \A u \in Bad : Cardinality(s) <= Cardinality(u)
      <3> HIDE DEF Bad
      <3> QED
        BY <1>0, <2>0, SmallestSet
    <2>2. PICK x \in s : g[s] # f[x] + g[s \ {x}]
      BY <2>1
    <2> DEFINE e == Element(s)
    <2>3. /\ s \in SUBSET S /\ e \in s /\ Cardinality(s) \in Nat
          /\ s \ {e} \in SUBSET S /\ Cardinality(s \ {e}) = Cardinality(s) - 1
          /\ s \ {x} \in SUBSET S /\ Cardinality(s \ {x}) = Cardinality(s) - 1
      BY <1>0, <2>0, <2>1, <2>2, Smaller
    <2>4. g[s] = f[e] + g[s \ {e}]
      BY <1>1, <2>3 DEF Summed
    <2> HIDE DEF e
    <2>5. x # e
      BY <2>2, <2>4
    <2>6. s \ {e} \notin Bad /\ s \ {x} \notin Bad
      <3> HIDE DEF Bad
      <3> QED
        BY <2>1, <2>3
    <2>7. g[s \ {e}] = f[x] + g[(s \ {e}) \ {x}]
      BY <2>2, <2>3, <2>5, <2>6
    <2>8. g[s \ {x}] = f[e] + g[(s \ {x}) \ {e}]
      BY <2>3, <2>5, <2>6
    <2>9. (s \ {e}) \ {x} = (s \ {x}) \ {e} /\ (s \ {x}) \ {e} \in SUBSET S
      BY <2>3
    <2>10. f[x] \in Int /\ f[e] \in Int /\ g[(s \ {x}) \ {e}] \in Int
      BY <1>0, <1>1, <2>2, <2>3, <2>9
    <2> DEFINE k == g[(s \ {x}) \ {e}]
    <2>11. g[s] = f[e] + (f[x] + k) /\ g[s \ {x}] = f[e] + k
      BY <2>4, <2>7, <2>8, <2>9
    <2>12. f[e] + (f[x] + k) = f[x] + (f[e] + k)
      BY <2>10
    <2> QED
      BY <2>2, <2>11, <2>12
  <1>3. g[{}] = 0
    BY <1>1 DEF Summed
  <1>4. \A x \in S : g[S] = f[x] + g[S \ {x}]
    <2>1. S \in SUBSET S /\ S \notin Bad
      BY <1>2
    <2> QED
      BY <2>1
  <1> QED
    BY <1>1, <1>3, <1>4

(***************************************************************************)
(* Paths.                                                                  *)
(***************************************************************************)

LEMMA FrontAndLast ==
    ASSUME NEW S, NEW p \in Seq(S), p # <<>>
    PROVE  /\ Front(p) \in Seq(S) /\ Len(Front(p)) = Len(p) - 1 /\ Last(p) \in S
           /\ \A i \in 1 .. (Len(p) - 1) : Front(p)[i] = p[i]
           /\ Len(p) \in Nat \ {0}
  <1>1. Len(p) \in Nat \ {0}
    OBVIOUS
  <1>2. \A i \in 1 .. (Len(p) - 1) : p[i] \in S
    OBVIOUS
  <1>3. Len(p) - 1 \in Int /\ 1 \in Int /\ Len(p) - 1 >= 0
    BY <1>1
  <1>4. /\ Front(p) \in Seq(S) /\ Len(Front(p)) = Len(p) - 1
        /\ \A i \in 1 .. (Len(p) - 1) : Front(p)[i] = p[i]
    <2> DEFINE n == Len(p) - 1
    <2>1. n \in Int /\ n >= 0 /\ \A i \in 1 .. n : p[i] \in S
      BY <1>2, <1>3
    <2> HIDE DEF n
    <2>2. /\ SubSeq(p, 1, n) \in Seq(S) /\ Len(SubSeq(p, 1, n)) = (IF 1 <= n THEN n - 1 + 1 ELSE 0)
          /\ \A i \in 1 .. (n - 1 + 1) : SubSeq(p, 1, n)[i] = p[1 + i - 1]
      BY <2>1, SubSeqProperties
    <2>3. Front(p) = SubSeq(p, 1, n)
      BY DEF Front, n
    <2>4. /\ Front(p) \in Seq(S) /\ Len(Front(p)) = n
          /\ \A i \in 1 .. n : Front(p)[i] = p[i]
      BY <2>1, <2>2, <2>3
    <2> QED
      BY <2>4 DEF n
  <1> QED
    BY <1>1, <1>4 DEF Last

LEMMA AppendIs ==
    ASSUME NEW S, NEW p \in Seq(S), NEW n \in S
    PROVE  /\ Append(p, n) \in Seq(S) /\ Append(p, n) # <<>> /\ Len(Append(p, n)) = Len(p) + 1
           /\ Front(Append(p, n)) = p /\ Last(Append(p, n)) = n
  <1>1. /\ Append(p, n) \in Seq(S) /\ Len(Append(p, n)) = Len(p) + 1 /\ Append(p, n) # <<>>
        /\ \A i \in 1 .. Len(p) : Append(p, n)[i] = p[i]
        /\ Append(p, n)[Len(p) + 1] = n /\ Len(p) \in Nat
    BY AppendProperties
  <1>2. Front(Append(p, n)) = p
    <2> DEFINE q == Append(p, n)
    <2>1. q \in Seq(S) /\ q # <<>> /\ Len(q) = Len(p) + 1 /\ \A i \in 1 .. Len(p) : q[i] = p[i]
      BY <1>1
    <2> HIDE DEF q
    <2>2. /\ Front(q) \in Seq(S) /\ Len(Front(q)) = Len(q) - 1
          /\ \A i \in 1 .. (Len(q) - 1) : Front(q)[i] = q[i]
      BY <2>1, FrontAndLast
    <2>3. Len(q) - 1 = Len(p)
      BY <1>1, <2>1
    <2>4. Front(q) = p
      BY <1>1, <2>1, <2>2, <2>3, SeqEqual
    <2> QED
      BY <2>4 DEF q
  <1> QED
    BY <1>1, <1>2 DEF Last

LEMMA SamePath ==
    ASSUME NEW S, NEW p \in Seq(S), NEW q \in Seq(S), p # <<>>, q # <<>>,
           Front(p) = Front(q), Last(p) = Last(q)
    PROVE  p = q
  <1>1. Len(p) = Len(q)
    BY FrontAndLast
  <1>2. ASSUME NEW i \in 1 .. Len(p) PROVE p[i] = q[i]
    <2>1. CASE i = Len(p)
      BY <1>1, <2>1 DEF Last
    <2>2. CASE i # Len(p)
      <3>1. i \in 1 .. (Len(p) - 1) /\ i \in 1 .. (Len(q) - 1)
        BY <1>1, <2>2, FrontAndLast
      <3> QED
        BY <3>1, FrontAndLast
    <2> QED
      BY <2>1, <2>2
  <1> QED
    BY <1>1, <1>2, SeqEqual

LEMMA PrefixIs ==
    ASSUME NEW S, NEW p \in Seq(S), NEW q \in Seq(S)
    PROVE  IsPrefix(p, q) <=> Len(p) <= Len(q) /\ \A i \in 1 .. Len(p) : p[i] = q[i]
  <1>1. CASE ~ Len(p) <= Len(q)
    BY <1>1 DEF IsPrefix
  <1>2. CASE Len(p) <= Len(q)
    <2>1. \A i \in 1 .. Len(p) : p[i] \in S /\ q[i] \in S
      BY <1>2
    <2>2. /\ SubSeq(p, 1, Len(p)) \in Seq(S) /\ SubSeq(q, 1, Len(p)) \in Seq(S)
          /\ Len(SubSeq(p, 1, Len(p))) = Len(p) /\ Len(SubSeq(q, 1, Len(p))) = Len(p)
          /\ \A i \in 1 .. Len(p) : SubSeq(p, 1, Len(p))[i] = p[i] /\ SubSeq(q, 1, Len(p))[i] = q[i]
      BY <1>2, <2>1, SubSeqProperties
    <2>3. SubSeq(p, 1, Len(p)) = SubSeq(q, 1, Len(p)) <=> \A i \in 1 .. Len(p) : p[i] = q[i]
      BY <2>2, SeqEqual
    <2> QED
      BY <1>2, <2>3 DEF IsPrefix
  <1> QED
    BY <1>1, <1>2

LEMMA ChildIs ==
    ASSUME NEW S, NEW p \in Seq(S), NEW q \in Seq(S)
    PROVE  Len(q) = Len(p) + 1 /\ IsPrefix(p, q) <=> q # <<>> /\ Front(q) = p
  <1>1. ASSUME Len(q) = Len(p) + 1, IsPrefix(p, q) PROVE q # <<>> /\ Front(q) = p
    <2>1. q # <<>>
      <3>1. Len(p) \in Nat
        BY LenProperties
      <3> QED
        BY <1>1, <3>1, EmptySeq
    <2>2. /\ Front(q) \in Seq(S) /\ Len(Front(q)) = Len(q) - 1
          /\ \A i \in 1 .. (Len(q) - 1) : Front(q)[i] = q[i]
      BY <2>1, FrontAndLast
    <2>3. Len(q) - 1 = Len(p)
      BY <1>1, LenProperties
    <2>4. \A i \in 1 .. Len(p) : p[i] = q[i]
      BY <1>1, PrefixIs
    <2> QED
      BY <2>1, <2>2, <2>3, <2>4, SeqEqual
  <1>2. ASSUME q # <<>>, Front(q) = p PROVE Len(q) = Len(p) + 1 /\ IsPrefix(p, q)
    <2>1. Len(p) = Len(q) - 1 /\ \A i \in 1 .. (Len(q) - 1) : p[i] = q[i]
      BY <1>2, FrontAndLast
    <2>2. Len(q) = Len(p) + 1 /\ Len(p) <= Len(q)
      BY <2>1, LenProperties
    <2> QED
      BY <2>1, <2>2, PrefixIs
  <1> QED
    BY <1>1, <1>2

(***************************************************************************)
(* More about sums.                                                        *)
(***************************************************************************)

LEMMA SumSame ==
    ASSUME NEW S, NEW f, NEW g, Summable(f, S), Summable(g, S), \A x \in S : f[x] = g[x]
    PROVE  SumFunctionOnSet(f, S) = SumFunctionOnSet(g, S)
  <1>1. PICK h : IsSum(h, f, S)
    BY SumIs
  <1>2. PICK k : IsSum(k, g, S)
    BY SumIs
  <1>3. Summed(h, f, S) /\ Summed(k, g, S)
    BY <1>1, <1>2 DEF IsSum
  <1>4. Summed(k, f, S)
    <2> SUFFICES ASSUME NEW s \in SUBSET S
                 PROVE  k[s] = IF s = {} THEN 0 ELSE f[Element(s)] + k[s \ {Element(s)}]
      BY DEF Summed
    <2>1. s # {} => Element(s) \in s
      BY DEF Element
    <2> QED
      BY <1>3, <2>1 DEF Summed
  <1>5. IsFiniteSet(S) /\ S \in SUBSET S
    BY DEF Summable
  <1>6. \A s \in SUBSET S : h[s] = k[s]
    <2>1. PICK T \in SUBSET S : T = S
      BY <1>5
    <2>2. Summed(k, f, T)
      BY <1>4, <2>1
    <2>3. \A s \in SUBSET T : h[s] = k[s]
      BY <1>3, <1>5, <2>2, SumsAgree
    <2> QED
      BY <2>1, <2>3
  <1> QED
    BY <1>1, <1>2, <1>5, <1>6 DEF IsSum

LEMMA SummableBelow ==
    ASSUME NEW S, NEW f, Summable(f, S), NEW T \in SUBSET S
    PROVE  Summable(f, T)
  BY FS_Subset DEF Summable

\* The sum follows the change of one element.
LEMMA SumChanges ==
    ASSUME NEW S, NEW f, NEW g, Summable(f, S), Summable(g, S),
           NEW y \in S, \A x \in S \ {y} : f[x] = g[x]
    PROVE  SumFunctionOnSet(g, S) = SumFunctionOnSet(f, S) + (g[y] - f[y])
  <1>1. S \ {y} \in SUBSET S
    OBVIOUS
  <1>2. Summable(f, S \ {y}) /\ Summable(g, S \ {y})
    BY <1>1, SummableBelow
  <1>3. SumFunctionOnSet(f, S \ {y}) = SumFunctionOnSet(g, S \ {y})
    BY <1>2, SumSame
  <1>4. SumFunctionOnSet(f, S \ {y}) \in Int
    BY <1>2, SumSplits
  <1>5. f[y] \in Int /\ g[y] \in Int
    BY DEF Summable
  <1>6. /\ SumFunctionOnSet(f, S) = f[y] + SumFunctionOnSet(f, S \ {y})
        /\ SumFunctionOnSet(g, S) = g[y] + SumFunctionOnSet(g, S \ {y})
    BY SumSplits
  <1> QED
    BY <1>3, <1>4, <1>5, <1>6

\* And the appearance of one.
LEMMA SumGrows ==
    ASSUME NEW S, NEW f, NEW g, Summable(f, S), NEW y, y \notin S, Summable(g, S \cup {y}),
           \A x \in S : f[x] = g[x]
    PROVE  SumFunctionOnSet(g, S \cup {y}) = SumFunctionOnSet(f, S) + g[y]
  <1>1. S \in SUBSET (S \cup {y}) /\ (S \cup {y}) \ {y} = S /\ y \in S \cup {y}
    OBVIOUS
  <1>2. Summable(g, S)
    BY <1>1, SummableBelow
  <1>3. SumFunctionOnSet(f, S) = SumFunctionOnSet(g, S) /\ SumFunctionOnSet(f, S) \in Int
    BY <1>2, SumSame, SumSplits
  <1>4. SumFunctionOnSet(g, S \cup {y}) = g[y] + SumFunctionOnSet(g, S)
    BY <1>1, SumSplits
  <1>5. g[y] \in Int
    BY DEF Summable
  <1> QED
    BY <1>3, <1>4, <1>5

(***************************************************************************)
(* The call tree.                                                          *)
(***************************************************************************)

IsTree(t) ==
    /\ IsFiniteSet(DOMAIN t) /\ DOMAIN t \subseteq Seq(Names) /\ <<>> \in DOMAIN t
    /\ \A p \in DOMAIN t \ {<<>>} : Front(p) \in DOMAIN t
    /\ \A p \in DOMAIN t : t[p].base \in Nat /\ t[p].count \in Nat

LEMMA ChildrenOf ==
    ASSUME NEW t, IsTree(t), NEW p \in DOMAIN t
    PROVE  /\ Children(t, p) = {q \in DOMAIN t \ {<<>>} : Front(q) = p}
           /\ IsFiniteSet(Children(t, p)) /\ Children(t, p) \subseteq DOMAIN t
           /\ \A T \in SUBSET DOMAIN t : Summable(Counts(t), T)
  <1>1. \A q \in DOMAIN t : Len(q) = Len(p) + 1 /\ IsPrefix(p, q) <=> q # <<>> /\ Front(q) = p
    BY ChildIs DEF IsTree
  <1>2. Children(t, p) = {q \in DOMAIN t \ {<<>>} : Front(q) = p}
    BY <1>1 DEF Children
  <1>3. \A T \in SUBSET DOMAIN t : IsFiniteSet(T)
    BY FS_Subset DEF IsTree
  <1>4. Children(t, p) \in SUBSET DOMAIN t
    BY <1>2
  <1>5. \A q \in DOMAIN t : Counts(t)[q] \in Int
    BY DEF Counts, IsTree
  <1> QED
    BY <1>2, <1>3, <1>4, <1>5 DEF Summable

TreeTyped == IsTree(tree) /\ at \in DOMAIN tree /\ rest \in Seq(Names) /\ amount \in Nat

TreeInv == TreeTyped /\ CountsAddUp

LEMMA TreeInitial ==
    ASSUME TreeInit
    PROVE  TreeInv
  <1>1. tree = [p \in {<<>>} |-> NewNode] /\ at = <<>> /\ rest = <<>> /\ amount = 0
    BY DEF TreeInit
  <1>2. DOMAIN tree = {<<>>} /\ tree[<<>>] = NewNode /\ NewNode.base = 0 /\ NewNode.count = 0
    BY <1>1 DEF NewNode
  <1>3. IsTree(tree)
    <2>1. IsFiniteSet(DOMAIN tree) /\ <<>> \in Seq(Names)
      BY <1>2, FS_Singleton, EmptySeq
    <2>2. \A p \in DOMAIN tree : p = <<>> /\ tree[p].base \in Nat /\ tree[p].count \in Nat
      BY <1>2
    <2> QED
      BY <1>2, <2>1, <2>2 DEF IsTree
  <1>4. TreeTyped
    BY <1>1, <1>2, <1>3 DEF TreeTyped
  <1>5. Children(tree, <<>>) = {}
    BY <1>2, <1>3, ChildrenOf
  <1>6. SumFunctionOnSet(Counts(tree), {}) = 0
    <2>1. Summable(Counts(tree), {})
      BY <1>2, <1>3, ChildrenOf
    <2> QED
      BY <2>1, SumSplits
  <1>7. CountsAddUp
    <2> SUFFICES ASSUME NEW p \in DOMAIN tree
                 PROVE  tree[p].count = tree[p].base + SumFunctionOnSet(Counts(tree), Children(tree, p))
                            + (IF p = at /\ rest # <<>> THEN amount ELSE 0)
      BY DEF CountsAddUp
    <2>1. p = <<>> /\ tree[p].base = 0 /\ tree[p].count = 0
      BY <1>2
    <2>2. SumFunctionOnSet(Counts(tree), Children(tree, p)) = 0
      BY <1>5, <1>6, <2>1
    <2>3. rest = <<>>
      BY <1>1
    <2> QED
      BY <2>1, <2>2, <2>3
  <1> QED
    BY <1>4, <1>7 DEF TreeInv

\* A node that is put in keeps a tree a tree.
LEMMA PutKeepsTree ==
    ASSUME NEW t, IsTree(t), NEW p, p \in Seq(Names), p # <<>>, Front(p) \in DOMAIN t, NEW u,
           u[p].base \in Nat, u[p].count \in Nat,
           DOMAIN u = DOMAIN t \cup {p}, \A q \in DOMAIN t \ {p} : u[q] = t[q]
    PROVE  IsTree(u)
  <1>1. IsFiniteSet(DOMAIN u)
    BY FS_AddElement DEF IsTree
  <1>2. \A q \in DOMAIN u : u[q].base \in Nat /\ u[q].count \in Nat
    BY DEF IsTree
  <1>3. \A q \in DOMAIN u \ {<<>>} : Front(q) \in DOMAIN u
    BY DEF IsTree
  <1>4. DOMAIN u \subseteq Seq(Names) /\ <<>> \in DOMAIN u
    BY DEF IsTree
  <1> QED
    BY <1>1, <1>2, <1>3, <1>4 DEF IsTree

\* The samples of the children of a node, when p's node is replaced or added.
LEMMA PutChangesCounts ==
    ASSUME NEW t, IsTree(t), NEW u, IsTree(u), NEW p, p # <<>>, Front(p) \in DOMAIN t, NEW m \in Int,
           DOMAIN u = DOMAIN t \cup {p}, \A q \in DOMAIN t \ {p} : u[q] = t[q],
           u[p].count = (IF p \in DOMAIN t THEN t[p].count ELSE 0) + m
    PROVE  \A q \in DOMAIN u :
              /\ q \notin DOMAIN t => Children(u, q) = {}
              /\ q \in DOMAIN t =>
                    SumFunctionOnSet(Counts(u), Children(u, q)) =
                        SumFunctionOnSet(Counts(t), Children(t, q)) + (IF q = Front(p) THEN m ELSE 0)
  <1>1. \A q \in DOMAIN u : Children(u, q) = {r \in DOMAIN u \ {<<>>} : Front(r) = q}
    BY ChildrenOf
  <1>2. \A q \in DOMAIN t : Children(t, q) = {r \in DOMAIN t \ {<<>>} : Front(r) = q}
    BY ChildrenOf
  <1>3. /\ \A q \in DOMAIN t : Counts(t)[q] = t[q].count /\ Counts(t)[q] \in Int
        /\ \A q \in DOMAIN u : Counts(u)[q] = u[q].count /\ Counts(u)[q] \in Int
    BY DEF Counts, IsTree
  <1>4. \A q \in DOMAIN t \ {p} : Counts(t)[q] = Counts(u)[q]
    BY <1>3
  <1>5. ASSUME NEW q \in DOMAIN u, q \notin DOMAIN t PROVE Children(u, q) = {}
    <2>1. q = p /\ Front(p) # p
      BY <1>5
    <2>2. \A r \in DOMAIN t \ {<<>>} : Front(r) # q
      BY <1>5 DEF IsTree
    <2> QED
      BY <1>1, <2>1, <2>2
  <1>6. ASSUME NEW q \in DOMAIN t
        PROVE  SumFunctionOnSet(Counts(u), Children(u, q)) =
                  SumFunctionOnSet(Counts(t), Children(t, q)) + (IF q = Front(p) THEN m ELSE 0)
    <2> DEFINE C == Children(t, q)
               D == Children(u, q)
    <2>1. C \subseteq DOMAIN t /\ D \subseteq DOMAIN u
      BY <1>1, <1>2
    <2>2. Summable(Counts(t), C) /\ Summable(Counts(u), D)
      BY <2>1, ChildrenOf
    <2>3. SumFunctionOnSet(Counts(t), C) \in Int
      BY <2>2, SumSplits
    <2>4. CASE q # Front(p)
      <3>1. C = D
        BY <1>1, <1>2, <2>4
      <3>2. \A c \in C : Counts(t)[c] = Counts(u)[c]
        BY <1>2, <1>4, <2>4
      <3>3. SumFunctionOnSet(Counts(t), C) = SumFunctionOnSet(Counts(u), C)
        BY <2>2, <3>1, <3>2, SumSame
      <3> QED
        BY <2>3, <2>4, <3>1, <3>3
    <2>5. CASE q = Front(p) /\ p \in DOMAIN t
      <3>1. C = D /\ p \in C
        <4>1. DOMAIN u = DOMAIN t
          BY <2>5
        <4>2. C = {r \in DOMAIN t \ {<<>>} : Front(r) = q}
          BY <1>2
        <4>3. D = {r \in DOMAIN t \ {<<>>} : Front(r) = q}
          BY <1>1, <4>1
        <4> HIDE DEF C, D
        <4> QED
          BY <2>5, <4>2, <4>3
      <3>2. \A c \in C \ {p} : Counts(t)[c] = Counts(u)[c]
        BY <1>4, <2>1
      <3>3. SumFunctionOnSet(Counts(u), C) = SumFunctionOnSet(Counts(t), C) + (Counts(u)[p] - Counts(t)[p])
        BY <2>2, <3>1, <3>2, SumChanges
      <3>4. Counts(u)[p] - Counts(t)[p] = m
        BY <1>3, <2>5
      <3> QED
        BY <2>5, <3>1, <3>3, <3>4
    <2>6. CASE q = Front(p) /\ p \notin DOMAIN t
      <3>1. D = C \cup {p} /\ p \notin C
        BY <1>1, <1>2, <2>6
      <3>2. \A c \in C : Counts(t)[c] = Counts(u)[c]
        BY <1>4, <2>1, <3>1
      <3>3. SumFunctionOnSet(Counts(u), C \cup {p}) = SumFunctionOnSet(Counts(t), C) + Counts(u)[p]
        BY <2>2, <3>1, <3>2, SumGrows
      <3>4. Counts(u)[p] = m
        BY <1>3, <2>6
      <3> QED
        BY <2>6, <3>1, <3>3, <3>4
    <2> QED
      BY <2>4, <2>5, <2>6
  <1> QED
    BY <1>5, <1>6

LEMMA InsertKeepsCounts ==
    ASSUME TreeInv, InsertFrame
    PROVE  TreeInv'
  <1> DEFINE p == Append(at, Head(rest))
             frame == GetOrCreate(p)
             own == IF Len(rest) = 1 THEN amount ELSE 0
             node == [base |-> frame.base + own, count |-> frame.count + amount]
  <1>1. /\ rest # <<>> /\ at' = p /\ rest' = Tail(rest) /\ amount' = amount
        /\ tree' = [q \in DOMAIN tree \cup {p} |-> IF q = p THEN node ELSE tree[q]]
    BY DEF InsertFrame, PutNode
  <1>2. /\ IsTree(tree) /\ at \in DOMAIN tree /\ rest \in Seq(Names) /\ amount \in Nat /\ CountsAddUp
    BY DEF TreeInv, TreeTyped
  <1>3. /\ Head(rest) \in Names /\ Tail(rest) \in Seq(Names) /\ Len(Tail(rest)) = Len(rest) - 1
        /\ Len(rest) \in Nat /\ (Tail(rest) = <<>> <=> Len(rest) = 1)
    <2>1. Head(rest) \in Names /\ Tail(rest) \in Seq(Names) /\ Len(Tail(rest)) = Len(rest) - 1
      BY <1>1, <1>2, HeadTailProperties
    <2>2. Tail(rest) = <<>> <=> Len(Tail(rest)) = 0
      BY <2>1, EmptySeq
    <2>3. Len(rest) \in Nat
      BY <1>2, LenProperties
    <2> QED
      BY <2>1, <2>2, <2>3
  <1>4. /\ frame.base \in Nat /\ frame.count \in Nat
        /\ frame.count = IF p \in DOMAIN tree THEN tree[p].count ELSE 0
        /\ frame.base = IF p \in DOMAIN tree THEN tree[p].base ELSE 0
    BY <1>2 DEF GetOrCreate, NewNode, IsTree
  <1>5. own \in Nat /\ own = (IF Tail(rest) = <<>> THEN amount ELSE 0)
    BY <1>2, <1>3
  <1> HIDE DEF frame, own
  <1>6. node.base = frame.base + own /\ node.count = frame.count + amount /\ node.base \in Nat /\ node.count \in Nat
    BY <1>2, <1>4, <1>5
  <1> HIDE DEF node, p
  <1>7. p = Append(at, Head(rest))
    BY DEF p
  <1>8. PICK u : u = tree' /\ u = [q \in DOMAIN tree \cup {p} |-> IF q = p THEN node ELSE tree[q]]
    BY <1>1
  <1>9. /\ IsTree(u) /\ DOMAIN u = DOMAIN tree \cup {p} /\ p # <<>> /\ Front(p) = at
        /\ u[p] = node /\ \A q \in DOMAIN tree \ {p} : u[q] = tree[q]
    <2>1. DOMAIN u = DOMAIN tree \cup {p} /\ u[p] = node /\ \A q \in DOMAIN tree \ {p} : u[q] = tree[q]
      BY <1>8
    <2>2. at \in Seq(Names)
      BY <1>2 DEF IsTree
    <2>3. p \in Seq(Names) /\ p # <<>> /\ Front(p) = at
      BY <1>3, <1>7, <2>2, AppendIs
    <2>4. u[p].base \in Nat /\ u[p].count \in Nat
      BY <1>6, <2>1
    <2>5. IsTree(u)
      BY <1>2, <2>1, <2>3, <2>4, PutKeepsTree
    <2> QED
      BY <2>1, <2>3, <2>5
  <1>10. TreeTyped'
    <2>1. IsTree(tree') /\ at' \in DOMAIN tree' /\ rest' \in Seq(Names) /\ amount' \in Nat
      BY <1>1, <1>2, <1>3, <1>8, <1>9
    <2> QED
      BY <2>1 DEF TreeTyped, IsTree
  <1>11. p # at /\ amount \in Int /\ u[p].count = (IF p \in DOMAIN tree THEN tree[p].count ELSE 0) + amount
    <2>1. p # at
      <3>1. p \in Seq(Names) /\ Len(Front(p)) = Len(p) - 1 /\ Len(p) \in Nat
        BY <1>9, FrontAndLast DEF IsTree
      <3> QED
        BY <1>9, <3>1
    <2> QED
      BY <1>2, <1>4, <1>6, <1>9, <2>1
  <1>12. \A q \in DOMAIN u :
            /\ q \notin DOMAIN tree => Children(u, q) = {}
            /\ q \in DOMAIN tree =>
                  SumFunctionOnSet(Counts(u), Children(u, q)) =
                      SumFunctionOnSet(Counts(tree), Children(tree, q)) + (IF q = Front(p) THEN amount ELSE 0)
    BY <1>2, <1>9, <1>11, PutChangesCounts
  <1>13. ASSUME NEW q \in DOMAIN u
         PROVE  u[q].count = u[q].base + SumFunctionOnSet(Counts(u), Children(u, q))
                                + (IF q = at' /\ rest' # <<>> THEN amount' ELSE 0)
    <2> DEFINE before == SumFunctionOnSet(Counts(tree), Children(tree, q))
               after == SumFunctionOnSet(Counts(u), Children(u, q))
               carried == IF q = p /\ Tail(rest) # <<>> THEN amount ELSE 0
    <2> SUFFICES u[q].count = u[q].base + after + carried
      BY <1>1
    <2>1. CASE q \notin DOMAIN tree
      <3>1. q = p /\ Children(u, q) = {}
        BY <1>9, <1>12, <2>1
      <3>2. after = 0
        <4>1. Summable(Counts(u), {})
          BY <1>9, ChildrenOf
        <4> QED
          BY <3>1, <4>1, SumSplits
      <3>3. u[q].count = amount /\ u[q].base = own /\ own + carried = amount
        BY <1>2, <1>4, <1>5, <1>6, <1>9, <2>1, <3>1
      <3> QED
        BY <1>2, <1>5, <3>2, <3>3
    <2>2. CASE q \in DOMAIN tree
      <3>1. after = before + (IF q = at THEN amount ELSE 0)
        BY <1>9, <1>12, <2>2
      <3>2. tree[q].count = tree[q].base + before + (IF q = at THEN amount ELSE 0)
        BY <1>1, <1>2, <2>2 DEF CountsAddUp
      <3>3. before \in Int /\ tree[q].count \in Nat /\ tree[q].base \in Nat
        <4>1. Summable(Counts(tree), Children(tree, q))
          BY <1>2, <2>2, ChildrenOf
        <4> QED
          BY <1>2, <2>2, <4>1, SumSplits DEF IsTree
      <3> HIDE DEF before, after
      <3>4. CASE q = p
        <4>1. u[q].count = tree[q].count + amount /\ u[q].base = tree[q].base + own /\ own + carried = amount
          BY <1>2, <1>4, <1>5, <1>6, <1>9, <2>2, <3>4
        <4>2. after = before /\ tree[q].count = tree[q].base + before
          BY <1>11, <3>1, <3>2, <3>3, <3>4
        <4>3. carried \in Nat
          BY <1>2
        <4> HIDE DEF carried
        <4> QED
          BY <1>2, <1>5, <3>3, <4>1, <4>2, <4>3
      <3>5. CASE q # p
        <4>1. u[q] = tree[q] /\ carried = 0
          BY <1>9, <2>2, <3>5
        <4> QED
          BY <1>2, <3>1, <3>2, <3>3, <4>1
      <3> QED
        BY <3>4, <3>5
    <2> QED
      BY <2>1, <2>2
  <1>14. CountsAddUp'
    BY <1>8, <1>13 DEF CountsAddUp, Counts, Children
  <1> QED
    BY <1>10, <1>14 DEF TreeInv

LEMMA AddKeepsCounts ==
    ASSUME TreeInv, rest = <<>>, NEW frames \in Seq(Names) \ {<<>>}, NEW n \in Nat, AddStack(frames, n)
    PROVE  TreeInv'
  <1>1. /\ tree' = [tree EXCEPT ![<<>>] = [base |-> @.base, count |-> @.count + n]]
        /\ at' = <<>> /\ rest' = frames /\ amount' = n
    BY DEF AddStack
  <1>2. /\ IsTree(tree) /\ CountsAddUp
    BY DEF TreeInv, TreeTyped
  <1>3. <<>> \in DOMAIN tree /\ tree[<<>>].count \in Nat /\ tree[<<>>].base \in Nat
    BY <1>2 DEF IsTree
  <1>4. PICK u : u = tree'
    OBVIOUS
  <1>5. DOMAIN u = DOMAIN tree /\ \A q \in DOMAIN tree \ {<<>>} : u[q] = tree[q]
    BY <1>1, <1>4
  <1>6. u[<<>>].count = tree[<<>>].count + n /\ u[<<>>].base = tree[<<>>].base
    BY <1>1, <1>3, <1>4
  <1>7. IsTree(u)
    <2>1. \A q \in DOMAIN u : u[q].base \in Nat /\ u[q].count \in Nat
      BY <1>2, <1>3, <1>5, <1>6 DEF IsTree
    <2> QED
      BY <1>2, <1>5, <2>1 DEF IsTree
  <1>8. ASSUME NEW q \in DOMAIN u
        PROVE  /\ SumFunctionOnSet(Counts(u), Children(u, q)) = SumFunctionOnSet(Counts(tree), Children(tree, q))
               /\ SumFunctionOnSet(Counts(tree), Children(tree, q)) \in Int
    <2>1. Children(u, q) = {r \in DOMAIN u \ {<<>>} : Front(r) = q}
      BY <1>7, ChildrenOf
    <2>2. Children(tree, q) = {r \in DOMAIN tree \ {<<>>} : Front(r) = q}
      BY <1>2, <1>5, ChildrenOf
    <2>3. Children(u, q) = Children(tree, q) /\ Children(tree, q) \in SUBSET DOMAIN u
      BY <1>5, <2>1, <2>2
    <2>4. Summable(Counts(u), Children(u, q)) /\ Summable(Counts(tree), Children(u, q))
      BY <1>2, <1>5, <1>7, <2>3, ChildrenOf
    <2>5. \A r \in Children(u, q) : Counts(u)[r] = Counts(tree)[r]
      BY <1>5, <2>1 DEF Counts
    <2> QED
      BY <2>3, <2>4, <2>5, SumSame, SumSplits
  <1>9. TreeTyped'
    <2>1. IsTree(tree') /\ at' \in DOMAIN tree' /\ rest' \in Seq(Names) /\ amount' \in Nat
      BY <1>1, <1>3, <1>4, <1>5, <1>7
    <2> QED
      BY <2>1 DEF TreeTyped, IsTree
  <1>10. ASSUME NEW q \in DOMAIN u
         PROVE  u[q].count = u[q].base + SumFunctionOnSet(Counts(u), Children(u, q))
                                + (IF q = at' /\ rest' # <<>> THEN amount' ELSE 0)
    <2> DEFINE sum == SumFunctionOnSet(Counts(tree), Children(tree, q))
    <2>1. tree[q].count = tree[q].base + sum + 0
      BY <1>2, <1>5 DEF CountsAddUp
    <2>2. sum \in Int /\ SumFunctionOnSet(Counts(u), Children(u, q)) = sum
      BY <1>8
    <2> HIDE DEF sum
    <2>3. CASE q = <<>>
      BY <1>1, <1>3, <1>6, <2>1, <2>2, <2>3
    <2>4. CASE q # <<>>
      <3>1. u[q] = tree[q]
        BY <1>5, <2>4
      <3> QED
        BY <1>1, <2>1, <2>2, <2>4, <3>1
    <2> QED
      BY <2>3, <2>4
  <1>11. CountsAddUp'
    BY <1>4, <1>10 DEF CountsAddUp, Counts, Children
  <1> QED
    BY <1>9, <1>11 DEF TreeInv

(***************************************************************************)
(* The parsers give the call tree what it can take.                        *)
(***************************************************************************)

Samples == [frames : Seq(Names) \ {<<>>}, count : Nat]

ParseInv ==
    /\ input \in Seq(ToSet(input)) /\ \A i \in 1 .. Len(input) : IsLine(input[i])
    /\ line \in Nat
    /\ stack \in Seq(Names) /\ comm \in Names
    /\ result \in Seq(Samples)

LEMMA Trimmed ==
    ASSUME NEW n \in Names
    PROVE  TrimOffset(n) \in Names
  BY DEF Names, TrimOffset, Offset

LEMMA TrimmedAll ==
    ASSUME NEW s \in Seq(Names) \ {<<>>}
    PROVE  TrimAll(s) \in Seq(Names) \ {<<>>}
  <1>1. Len(s) \in Nat \ {0} /\ DOMAIN s = 1 .. Len(s) /\ \A i \in 1 .. Len(s) : s[i] \in Names
    BY EmptySeq, LenProperties, ElementOfSeq
  <1> DEFINE n == Len(s)
             t == [i \in 1 .. n |-> TrimOffset(s[i])]
  <1>2. TrimAll(s) = t
    BY <1>1 DEF TrimAll
  <1>3. \A i \in 1 .. n : TrimOffset(s[i]) \in Names
    BY <1>1, Trimmed
  <1>4. t \in Seq(Names) /\ Len(t) = n
    BY <1>1, <1>3
  <1> HIDE DEF t
  <1>5. t # <<>>
    BY <1>1, <1>4, EmptySeq
  <1> QED
    BY <1>2, <1>4, <1>5

LEMMA Reversed ==
    ASSUME NEW s \in Seq(Names) \ {<<>>}
    PROVE  Reverse(s) \in Seq(Names) \ {<<>>}
  <1>1. Len(s) \in Nat \ {0} /\ \A i \in 1 .. Len(s) : s[i] \in Names
    BY EmptySeq, LenProperties, ElementOfSeq
  <1> DEFINE n == Len(s)
  <1>2. \A i \in 1 .. n : (n - i) + 1 \in 1 .. n
    BY <1>1
  <1>3. Reverse(s) \in Seq(Names) /\ Len(Reverse(s)) = n
    BY <1>1, <1>2 DEF Reverse
  <1> QED
    BY <1>1, <1>3, EmptySeq

LEMMA TookTyped ==
    ASSUME result \in Seq(Samples), NEW f \in Seq(Names) \ {<<>>}, NEW n \in Nat, Took(f, n)
    PROVE  result' \in Seq(Samples)
  <1>1. [frames |-> f, count |-> n] \in Samples
    BY DEF Samples
  <1> QED
    BY <1>1, AppendProperties DEF Took

LEMMA ParseInitial ==
    ASSUME NEW job \in Jobs, ParseInit({job})
    PROVE  ParseInv
  <1>1. /\ input = job.lines /\ line = 0 /\ stack = <<>> /\ comm = NoComm /\ result = <<>>
        /\ job.lines \in Seq(ToSet(job.lines)) /\ (\A l \in ToSet(job.lines) : IsLine(l)) /\ NoComm \in Names
    BY JobsAssumption DEF ParseInit
  <1>2. \A i \in 1 .. Len(input) : input[i] \in ToSet(input)
    BY <1>1, ElementOfSeq
  <1> QED
    BY <1>1, <1>2, EmptySeq DEF ParseInv

LEMMA ReadTyped ==
    ASSUME ParseInv, ReadLine
    PROVE  ParseInv'
  <1>1. /\ line < Len(input) /\ line' = line + 1 /\ input' = input /\ line \in Nat
        /\ stack \in Seq(Names) /\ comm \in Names /\ result \in Seq(Samples) /\ Len(input) \in Nat
    BY LenProperties DEF ParseInv, ReadLine, Parsing
  <1>2. IsLine(This)
    <2>1. line + 1 \in 1 .. Len(input)
      BY <1>1
    <2> QED
      BY <2>1 DEF ParseInv, This
  <1>3. This.kind # "blank" => This.name \in Names /\ TrimOffset(This.name) \in Names
    BY <1>2, Trimmed DEF IsLine
  <1>4. This.kind \in {"stack", "spaced"} => This.frames \in Seq(Names) \ {<<>>}
    BY <1>2 DEF IsLine
  <1>5. This.kind \in {"stack", "spaced", "count"} => This.count \in Nat
    BY <1>2 DEF IsLine
  <1>6. <<Unnamed>> \in Seq(Names) \ {<<>>}
    BY DEF Unnamed, Names, TrimOffset, Offset
  <1> DEFINE Typed == stack' \in Seq(Names) /\ comm' \in Names /\ result' \in Seq(Samples)
  <1>7. ASSUME Raise \/ SkipBlank PROVE Typed
    BY <1>1, <1>7 DEF Raise, SkipBlank
  <1>8. ASSUME CollapsedLine PROVE Typed
    <2>1. ASSUME CollapsedStack PROVE Typed
      <3>1. Took(TrimAll(This.frames), This.count) /\ UNCHANGED <<stack, comm>> /\ This.kind = "stack"
        BY <2>1 DEF CollapsedStack
      <3>2. TrimAll(This.frames) \in Seq(Names) \ {<<>>} /\ This.count \in Nat
        BY <1>4, <1>5, <3>1, TrimmedAll
      <3> QED
        BY <1>1, <3>1, <3>2, TookTyped
    <2> QED
      BY <1>7, <1>8, <2>1 DEF CollapsedLine, CollapsedError
  <1>9. ASSUME PySpyLine PROVE Typed
    <2>1. ASSUME PySpyStack PROVE Typed
      <3>1. PICK f : f = IF This.kind = "count" THEN <<Unnamed>> ELSE This.frames
        OBVIOUS
      <3>2. Took(f, This.count) /\ UNCHANGED <<stack, comm>> /\ This.kind \in {"stack", "spaced", "count"}
        BY <2>1, <3>1 DEF PySpyStack
      <3>3. f \in Seq(Names) \ {<<>>} /\ This.count \in Nat
        BY <1>4, <1>5, <1>6, <3>1, <3>2
      <3> QED
        BY <1>1, <3>2, <3>3, TookTyped
    <2> QED
      BY <1>7, <1>9, <2>1 DEF PySpyLine, PySpyError
  <1>10. ASSUME DtraceLine PROVE Typed
    <2>1. ASSUME DtraceFrame PROVE Typed
      BY <1>1, <1>3, <2>1, AppendProperties DEF DtraceFrame
    <2>2. ASSUME DtraceCount PROVE Typed
      <3>1. CASE stack = <<>>
        BY <1>7, <2>2, <3>1 DEF DtraceCount
      <3>2. CASE stack # <<>>
        <4>1. /\ Took(Reverse(stack), This.count) /\ stack' = <<>> /\ comm' = comm
              /\ This.kind = "count"
          BY <2>2, <3>2 DEF DtraceCount
        <4>2. Reverse(stack) \in Seq(Names) \ {<<>>} /\ This.count \in Nat
          BY <1>1, <1>5, <3>2, <4>1, Reversed
        <4> QED
          BY <1>1, <4>1, <4>2, TookTyped, EmptySeq
      <3> QED
        BY <3>1, <3>2
    <2> QED
      BY <1>7, <1>10, <2>1, <2>2 DEF DtraceLine
  <1>11. ASSUME PerfLine PROVE Typed
    <2>1. ASSUME PerfBlank PROVE Typed
      <3>1. CASE comm # NoComm
        <4>1. Took(Reverse(Append(stack, comm)), 1) /\ stack' = <<>> /\ comm' = NoComm
          BY <2>1, <3>1 DEF PerfBlank
        <4>2. Append(stack, comm) \in Seq(Names) \ {<<>>}
          BY <1>1, AppendProperties
        <4>3. Reverse(Append(stack, comm)) \in Seq(Names) \ {<<>>}
          BY <4>2, Reversed
        <4> QED
          BY <1>1, <4>1, <4>3, TookTyped, EmptySeq, JobsAssumption
      <3>2. CASE comm = NoComm
        BY <1>1, <2>1, <3>2 DEF PerfBlank
      <3> QED
        BY <3>1, <3>2
    <2>2. ASSUME PerfHeader PROVE Typed
      BY <1>1, <1>3, <1>7, <2>2 DEF PerfHeader
    <2>3. ASSUME PerfFrame PROVE Typed
      <3>1. CASE This.kind \in {"short", "count"}
        BY <1>7, <2>3, <3>1 DEF PerfFrame
      <3>2. CASE This.kind \notin {"short", "count"}
        BY <1>1, <1>3, <2>3, <3>2, AppendProperties DEF PerfFrame
      <3> QED
        BY <3>1, <3>2
    <2> QED
      BY <1>11, <2>1, <2>2, <2>3 DEF PerfLine
  <1>12. Typed
    BY <1>8, <1>9, <1>10, <1>11 DEF ReadLine
  <1> QED
    BY <1>1, <1>12 DEF ParseInv

CountsInv == ParseInv /\ TreeInv /\ added \in Nat

LEMMA CountsInitial == Init => CountsInv
  <1> SUFFICES ASSUME Init PROVE CountsInv
    OBVIOUS
  <1>1. PICK job \in Jobs : ParseInit({job})
    BY DEF Init
  <1> QED
    BY <1>1, ParseInitial, TreeInitial DEF Init, CountsInv

LEMMA CountsStep == CountsInv /\ [Next]_vars => CountsInv'
  <1> SUFFICES ASSUME CountsInv, [Next]_vars PROVE CountsInv'
    OBVIOUS
  <1>1. ParseInv /\ TreeInv /\ added \in Nat
    BY DEF CountsInv
  <1>2. ASSUME UNCHANGED parseVars PROVE ParseInv'
    BY <1>1, <1>2 DEF ParseInv, parseVars, IsLine
  <1>3. ASSUME UNCHANGED treeVars PROVE TreeInv'
    BY <1>1, <1>3 DEF TreeInv, TreeTyped, CountsAddUp, Counts, Children, treeVars
  <1>4. CASE Parse
    BY <1>1, <1>3, <1>4, ReadTyped DEF Parse, CountsInv
  <1>5. CASE ParseFails
    BY <1>1, <1>2, <1>3, <1>5 DEF ParseFails, CountsInv
  <1>6. CASE ParseEnds
    BY <1>1, <1>2, <1>3, <1>6 DEF ParseEnds, CountsInv
  <1>7. CASE Add
    <2>1. /\ rest = <<>> /\ added < Len(result) /\ added' = added + 1 /\ UNCHANGED parseVars
          /\ AddStack(result[added + 1].frames, result[added + 1].count)
      BY <1>7 DEF Add
    <2>2. result[added + 1] \in Samples
      <3>1. added + 1 \in 1 .. Len(result)
        BY <1>1, <2>1, LenProperties DEF ParseInv
      <3> QED
        BY <1>1, <3>1, ElementOfSeq DEF ParseInv
    <2>3. result[added + 1].frames \in Seq(Names) \ {<<>>} /\ result[added + 1].count \in Nat
      BY <2>2 DEF Samples
    <2>4. TreeInv'
      BY <1>1, <2>1, <2>3, AddKeepsCounts
    <2> QED
      BY <1>1, <1>2, <2>1, <2>4 DEF CountsInv
  <1>8. CASE Insert
    BY <1>1, <1>2, <1>8, InsertKeepsCounts DEF Insert, CountsInv
  <1>9. CASE DumpTree
    BY <1>1, <1>2, <1>3, <1>9 DEF DumpTree, CountsInv
  <1>10. CASE Browse
    BY <1>1, <1>2, <1>3, <1>10 DEF Browse, CountsInv
  <1>11. CASE Turn
    BY <1>1, <1>2, <1>3, <1>11 DEF Turn, CountsInv
  <1>12. CASE UNCHANGED vars
    BY <1>1, <1>2, <1>3, <1>12 DEF vars, CountsInv
  <1> QED
    BY <1>4, <1>5, <1>6, <1>7, <1>8, <1>9, <1>10, <1>11, <1>12 DEF Next, Done

\* At every moment of every run, whatever the file and its format, the samples of a node
\* are its own and its children's and what the insertion that has come to it carries.
THEOREM CountsAlwaysAddUp == Spec => []CountsAddUp
  <1>1. CountsInv => CountsAddUp
    BY DEF CountsInv, TreeInv
  <1> QED
    BY <1>1, CountsInitial, CountsStep, PTL DEF Spec

(***************************************************************************)
(* Sums of natural numbers.                                                *)
(***************************************************************************)

Natural(f, S) == IsFiniteSet(S) /\ \A x \in S : f[x] \in Nat

LEMMA NaturalBelow ==
    ASSUME NEW S, NEW f, Natural(f, S), NEW T \in SUBSET S
    PROVE  Natural(f, T) /\ Summable(f, T) /\ SumFunctionOnSet(f, T) \in Int
  <1>1. Natural(f, T) /\ Summable(f, T)
    BY FS_Subset DEF Natural, Summable
  <1> QED
    BY <1>1, SumSplits

\* An induction over the subsets of a finite set.
LEMMA SumScaled ==
    ASSUME NEW S, NEW f, NEW g, Natural(f, S), Natural(g, S), NEW m \in Nat, NEW n \in Nat,
           \A x \in S : f[x] * m <= g[x] * n
    PROVE  /\ SumFunctionOnSet(f, S) \in Nat /\ SumFunctionOnSet(g, S) \in Nat
           /\ SumFunctionOnSet(f, S) * m <= SumFunctionOnSet(g, S) * n
  <1> DEFINE Good(T) == /\ SumFunctionOnSet(f, T) \in Nat /\ SumFunctionOnSet(g, T) \in Nat
                        /\ SumFunctionOnSet(f, T) * m <= SumFunctionOnSet(g, T) * n
             Bad == {T \in SUBSET S : ~ Good(T)}
  <1> SUFFICES ASSUME Bad # {} PROVE FALSE
    OBVIOUS
  <1>0. IsFiniteSet(S) /\ Bad \subseteq SUBSET S
    BY DEF Natural
  <1>1. PICK T \in Bad : \A u \in Bad : Cardinality(T) <= Cardinality(u)
    <2> HIDE DEF Bad
    <2> QED
      BY <1>0, SmallestSet
  <1>2. T \in SUBSET S /\ ~ Good(T)
    BY <1>1
  <1>3. Summable(f, T) /\ Summable(g, T)
    BY <1>2, NaturalBelow
  <1>4. T # {}
    <2>1. Good({})
      <3>1. Summable(f, {}) /\ Summable(g, {})
        BY NaturalBelow
      <3>2. SumFunctionOnSet(f, {}) = 0 /\ SumFunctionOnSet(g, {}) = 0
        BY <3>1, SumSplits
      <3> QED
        BY <3>2
    <2> HIDE DEF Good
    <2> QED
      BY <1>2, <2>1
  <1>5. PICK x \in T : TRUE
    BY <1>4
  <1>6. T \ {x} \in SUBSET S /\ Good(T \ {x})
    <2>1. T \ {x} \in SUBSET S /\ Cardinality(T \ {x}) = Cardinality(T) - 1 /\ Cardinality(T) \in Nat
      BY <1>0, <1>2, Smaller
    <2>2. T \ {x} \notin Bad
      <3> HIDE DEF Bad
      <3> QED
        BY <1>1, <2>1
    <2> HIDE DEF Good
    <2> QED
      BY <2>1, <2>2
  <1>7. /\ SumFunctionOnSet(f, T) = f[x] + SumFunctionOnSet(f, T \ {x})
        /\ SumFunctionOnSet(g, T) = g[x] + SumFunctionOnSet(g, T \ {x})
    BY <1>3, SumSplits
  <1> DEFINE a == SumFunctionOnSet(f, T \ {x})
             b == SumFunctionOnSet(g, T \ {x})
  <1>8. a \in Nat /\ b \in Nat /\ a * m <= b * n /\ f[x] \in Nat /\ g[x] \in Nat /\ f[x] * m <= g[x] * n
    BY <1>2, <1>6 DEF Natural
  <1>9. ~ (f[x] + a \in Nat /\ g[x] + b \in Nat /\ (f[x] + a) * m <= (g[x] + b) * n)
    BY <1>2, <1>7
  <1> HIDE DEF a, b
  <1>10. (f[x] + a) * m = f[x] * m + a * m /\ (g[x] + b) * n = g[x] * n + b * n
    BY <1>8
  <1>11. f[x] * m \in Int /\ a * m \in Int /\ g[x] * n \in Int /\ b * n \in Int
    BY <1>8
  <1>12. f[x] * m + a * m <= g[x] * n + b * n
    BY <1>8, <1>11
  <1> QED
    BY <1>8, <1>9, <1>10, <1>12

LEMMA SumNatural ==
    ASSUME NEW S, NEW f, Natural(f, S)
    PROVE  SumFunctionOnSet(f, S) \in Nat
  <1>1. \A x \in S : f[x] * 1 <= f[x] * 1
    BY DEF Natural
  <1> QED
    BY <1>1, SumScaled

LEMMA SumSubset ==
    ASSUME NEW S, NEW f, Natural(f, S), NEW T \in SUBSET S
    PROVE  SumFunctionOnSet(f, T) <= SumFunctionOnSet(f, S)
  <1> DEFINE Bad == {u \in SUBSET S : T \subseteq u /\ ~ SumFunctionOnSet(f, T) <= SumFunctionOnSet(f, u)}
  <1> SUFFICES ASSUME Bad # {} PROVE FALSE
    OBVIOUS
  <1>0. IsFiniteSet(S) /\ Bad \subseteq SUBSET S
    BY DEF Natural
  <1>1. PICK u \in Bad : \A v \in Bad : Cardinality(u) <= Cardinality(v)
    <2> HIDE DEF Bad
    <2> QED
      BY <1>0, SmallestSet
  <1>2. u \in SUBSET S /\ T \subseteq u /\ ~ SumFunctionOnSet(f, T) <= SumFunctionOnSet(f, u)
    BY <1>1
  <1>3. \A v \in SUBSET S : Summable(f, v) /\ SumFunctionOnSet(f, v) \in Int
    BY NaturalBelow
  <1>4. u # T
    BY <1>2, <1>3
  <1>5. PICK x \in u : x \notin T
    BY <1>2, <1>4
  <1>6. u \ {x} \in SUBSET S /\ Cardinality(u \ {x}) = Cardinality(u) - 1 /\ Cardinality(u) \in Nat
    BY <1>0, <1>2, Smaller
  <1>7. u \ {x} \notin Bad
    <2> HIDE DEF Bad
    <2> QED
      BY <1>1, <1>6
  <1>8. SumFunctionOnSet(f, T) <= SumFunctionOnSet(f, u \ {x})
    BY <1>2, <1>5, <1>6, <1>7
  <1>9. SumFunctionOnSet(f, u) = f[x] + SumFunctionOnSet(f, u \ {x})
    BY <1>2, <1>3, SumSplits
  <1>10. f[x] \in Nat
    BY <1>2 DEF Natural
  <1> QED
    BY <1>2, <1>3, <1>6, <1>8, <1>9, <1>10

\* One that is left out.
LEMMA SumWithout ==
    ASSUME NEW S, NEW f, Natural(f, S), NEW T \in SUBSET S, NEW x \in S, x \notin T
    PROVE  SumFunctionOnSet(f, T) + f[x] <= SumFunctionOnSet(f, S)
  <1>1. S \ {x} \in SUBSET S /\ T \in SUBSET (S \ {x})
    OBVIOUS
  <1>2. Natural(f, S \ {x}) /\ SumFunctionOnSet(f, S \ {x}) \in Int /\ SumFunctionOnSet(f, T) \in Int
    BY <1>1, NaturalBelow
  <1>3. SumFunctionOnSet(f, T) <= SumFunctionOnSet(f, S \ {x})
    BY <1>1, <1>2, SumSubset
  <1>4. Summable(f, S) /\ f[x] \in Nat
    BY DEF Natural, Summable
  <1>5. SumFunctionOnSet(f, S) = f[x] + SumFunctionOnSet(f, S \ {x})
    BY <1>4, SumSplits
  <1> QED
    BY <1>2, <1>3, <1>4, <1>5

(***************************************************************************)
(* The widths of the frames.                                               *)
(***************************************************************************)

LEMMA Quotient ==
    ASSUME NEW a \in Nat, NEW b \in Nat \ {0}
    PROVE  /\ a \div b \in Nat /\ (a \div b) * b <= a /\ a < ((a \div b) + 1) * b
  OBVIOUS

LEMMA Product ==
    ASSUME NEW a \in Nat, NEW b \in Nat
    PROVE  a * b \in Nat /\ (b > 0 => a * (b - 1) \in Nat /\ a * (b - 1) <= a * b)
  OBVIOUS

LEMMA OneMore ==
    ASSUME NEW a \in Nat, NEW b \in Nat
    PROVE  (a + 1) * b = b * a + b
  OBVIOUS

LEMMA Calculated ==
    ASSUME NEW c \in Nat, NEW n \in Nat, NEW w \in Nat
    PROVE  /\ CalculateWidth(c, n, w) \in Nat /\ CalculateWidth(c, n, w) * n <= c * w
           /\ w > 0 /\ CalculateWidth(c, n, w) = 0 => CalculateWidth(c, n, w - 1) = 0
  <1>1. c * w \in Nat
    BY Product
  <1>2. CASE n = 0
    BY <1>1, <1>2 DEF CalculateWidth
  <1>3. CASE n # 0
    <2> DEFINE a == c * w
    <2>1. /\ a \div n \in Nat /\ (a \div n) * n <= a /\ a < ((a \div n) + 1) * n
      BY <1>1, <1>3, Quotient
    <2>2. CalculateWidth(c, n, w) = a \div n
      BY <1>3 DEF CalculateWidth
    <2>3. ASSUME w > 0, CalculateWidth(c, n, w) = 0 PROVE CalculateWidth(c, n, w - 1) = 0
      <3> DEFINE b == c * (w - 1)
      <3>1. a < n
        <4> HIDE DEF a
        <4>1. a < (0 + 1) * n
          BY <2>1, <2>2, <2>3
        <4> QED
          BY <4>1
      <3>2. b \in Nat /\ b <= a
        BY <2>3, Product
      <3>3. CalculateWidth(c, n, w - 1) = b \div n
        BY <1>3 DEF CalculateWidth
      <3> HIDE DEF a, b
      <3>4. b < n
        BY <1>1, <3>1, <3>2 DEF a
      <3>5. b \div n = 0
        BY <1>3, <3>2, <3>4
      <3> QED
        BY <3>3, <3>5
    <2> QED
      BY <2>1, <2>2, <2>3
  <1> QED
    BY <1>2, <1>3

AddsUp(t) ==
    \A p \in DOMAIN t : t[p].count = t[p].base + SumFunctionOnSet(Counts(t), Children(t, p))

LEMMA CalculatedSmall ==
    ASSUME NEW c \in Nat, NEW n \in Nat, NEW w \in Nat \ {0}, CalculateWidth(c, n, w) = 0
    PROVE  CalculateWidth(c, n, w - 1) = 0
  BY Calculated

LEMMA CalculatedNatural ==
    ASSUME NEW c \in Nat, NEW n \in Nat, NEW w \in Nat
    PROVE  CalculateWidth(c, n, w) \in Nat
  BY Calculated

LEMMA WidthsNatural ==
    ASSUME NEW t, IsTree(t), NEW p \in DOMAIN t, NEW w \in Nat
    PROVE  /\ DOMAIN Widths(t, p, w) = Children(t, p) /\ Natural(Widths(t, p, w), Children(t, p))
           /\ \A c \in Children(t, p) : Widths(t, p, w)[c] = CalculateWidth(t[c].count, t[p].count, w)
  <1>1. DOMAIN Widths(t, p, w) = Children(t, p)
        /\ \A c \in Children(t, p) : Widths(t, p, w)[c] = CalculateWidth(t[c].count, t[p].count, w)
    BY DEF Widths
  <1>2. \A c \in Children(t, p) : t[c].count \in Nat /\ t[p].count \in Nat
    BY ChildrenOf DEF IsTree
  <1>3. \A c \in Children(t, p) : Widths(t, p, w)[c] \in Nat
    <2> SUFFICES ASSUME NEW c \in Children(t, p) PROVE Widths(t, p, w)[c] \in Nat
      OBVIOUS
    <2>1. PICK a \in Nat, b \in Nat : a = t[c].count /\ b = t[p].count
      BY <1>2
    <2>2. CalculateWidth(a, b, w) \in Nat
      BY CalculatedNatural
    <2> QED
      BY <1>1, <2>1, <2>2
  <1>4. IsFiniteSet(Children(t, p))
    BY ChildrenOf
  <1> QED
    BY <1>1, <1>3, <1>4 DEF Natural

\* The rounded widths of the children fit, for their samples are among their parent's.
LEMMA WidthsFit ==
    ASSUME NEW t, IsTree(t), AddsUp(t), NEW p \in DOMAIN t, NEW w \in Nat
    PROVE  SumFunctionOnSet(Widths(t, p, w), Children(t, p)) <= w
  <1> DEFINE C == Children(t, p)
             n == t[p].count
             f == Widths(t, p, w)
             g == Counts(t)
             a == SumFunctionOnSet(f, C)
             b == SumFunctionOnSet(g, C)
  <1>1. Natural(f, C) /\ \A c \in C : f[c] = CalculateWidth(t[c].count, n, w)
    BY WidthsNatural
  <1>2. n \in Nat /\ t[p].base \in Nat /\ n = t[p].base + b
    BY DEF IsTree, AddsUp
  <1>3. C \subseteq DOMAIN t /\ IsFiniteSet(C)
    BY ChildrenOf
  <1>4. \A c \in C : g[c] = t[c].count /\ g[c] \in Nat
    BY <1>3 DEF Counts, IsTree
  <1>5. Natural(g, C)
    BY <1>3, <1>4 DEF Natural
  <1>6. \A c \in C : f[c] * n <= g[c] * w
    BY <1>1, <1>2, <1>4, Calculated
  <1> HIDE DEF C, n, f, g
  <1>7. a \in Nat /\ b \in Nat /\ a * n <= b * w
    BY <1>1, <1>2, <1>5, <1>6, SumScaled
  <1>8. CASE n # 0
    <2>1. b <= n
      BY <1>2, <1>7
    <2> HIDE DEF a, b
    <2>2. b * w <= n * w
      BY <1>2, <1>7, <2>1
    <2>3. a * n <= n * w
      <3>1. a * n \in Int /\ b * w \in Int /\ n * w \in Int
        BY <1>2, <1>7
      <3> QED
        BY <1>7, <2>2, <3>1
    <2>4. ~ a >= w + 1
      <3> SUFFICES ASSUME a >= w + 1 PROVE FALSE
        OBVIOUS
      <3>1. a * n >= (w + 1) * n
        BY <1>2, <1>7
      <3>2. (w + 1) * n = n * w + n
        BY <1>2, OneMore
      <3>3. a * n \in Int /\ n * w \in Int
        BY <1>2, <1>7
      <3> QED
        BY <1>2, <1>8, <2>3, <3>1, <3>2, <3>3
    <2>5. a <= w
      BY <1>7, <2>4
    <2> QED
      BY <2>5 DEF a, f, C
  <1>9. CASE n = 0
    <2>1. \A c \in C : f[c] * 1 <= g[c] * 0
      BY <1>1, <1>4, <1>9 DEF CalculateWidth
    <2>2. a * 1 <= b * 0
      BY <1>1, <1>5, <2>1, SumScaled
    <2>3. a <= w
      BY <1>7, <2>2
    <2> QED
      BY <2>3 DEF a, f, C
  <1> QED
    BY <1>8, <1>9

LEMMA ChildWidthsFit ==
    ASSUME NEW t, IsTree(t), AddsUp(t), NEW p \in DOMAIN t, NEW w \in Nat \ {0}, NEW comb \in BOOLEAN
    PROVE  LET u == ChildWidths(t, p, w, comb)
               sum == SumFunctionOnSet(u, Children(t, p))
           IN /\ DOMAIN u = Children(t, p) /\ Natural(u, Children(t, p))
              /\ sum \in Nat /\ sum <= w
              /\ HasCombined(t, p, w, comb) => sum <= w - 1 /\ \E c \in Children(t, p) : u[c] = 0
              /\ comb /\ (\E c \in Children(t, p) : u[c] = 0) => HasCombined(t, p, w, comb)
  <1> DEFINE C == Children(t, p)
             full == Widths(t, p, w)
             less == Widths(t, p, w - 1)
             u == ChildWidths(t, p, w, comb)
  <1>1. /\ DOMAIN full = C /\ Natural(full, C) /\ DOMAIN less = C /\ Natural(less, C) /\ w - 1 \in Nat
    BY WidthsNatural
  <1>2. \A c \in C : full[c] = 0 => less[c] = 0
    <2>1. \A c \in C : t[c].count \in Nat /\ t[p].count \in Nat
      BY ChildrenOf DEF IsTree
    <2>2. \A c \in C : /\ full[c] = CalculateWidth(t[c].count, t[p].count, w)
                       /\ less[c] = CalculateWidth(t[c].count, t[p].count, w - 1)
      BY <1>1, WidthsNatural
    <2> QED
      BY <2>1, <2>2, CalculatedSmall
  <1>3. SumFunctionOnSet(full, C) <= w /\ SumFunctionOnSet(less, C) <= w - 1
    BY <1>1, WidthsFit
  <1>4. SumFunctionOnSet(full, C) \in Nat /\ SumFunctionOnSet(less, C) \in Nat
    BY <1>1, SumNatural
  <1>5. u = IF HasCombined(t, p, w, comb) /\ SumFunctionOnSet(full, C) = w THEN less ELSE full
    BY <1>1 DEF ChildWidths
  <1>6. HasCombined(t, p, w, comb) <=> comb /\ \E c \in C : full[c] = 0
    BY DEF HasCombined, HasSmall
  <1> HIDE DEF C, full, less, u
  <1>7. CASE HasCombined(t, p, w, comb) /\ SumFunctionOnSet(full, C) = w
    <2>1. u = less
      BY <1>5, <1>7
    <2> QED
      BY <1>1, <1>2, <1>3, <1>4, <1>6, <1>7, <2>1 DEF C, u
  <1>8. CASE ~ (HasCombined(t, p, w, comb) /\ SumFunctionOnSet(full, C) = w)
    <2>1. u = full
      BY <1>5, <1>8
    <2>2. HasCombined(t, p, w, comb) => SumFunctionOnSet(full, C) <= w - 1
      BY <1>3, <1>4, <1>8
    <2> QED
      BY <1>1, <1>2, <1>3, <1>4, <1>6, <2>1, <2>2 DEF C, u
  <1> QED
    BY <1>7, <1>8

LEMMA PrefixesOfFront ==
    ASSUME NEW S, NEW p \in Seq(S), NEW z \in Seq(S), p # <<>>
    PROVE  /\ IsPrefix(p, z) => IsPrefix(Front(p), z)
           /\ IsPrefix(z, p) /\ ~ IsPrefix(p, z) <=> IsPrefix(z, Front(p))
  <1>1. /\ Front(p) \in Seq(S) /\ Len(Front(p)) = Len(p) - 1 /\ Len(p) \in Nat \ {0}
        /\ \A i \in 1 .. (Len(p) - 1) : Front(p)[i] = p[i]
    BY FrontAndLast
  <1>2. Len(z) \in Nat /\ Len(Front(p)) \in Nat
    BY <1>1, LenProperties
  <1>3. /\ IsPrefix(p, z) <=> Len(p) <= Len(z) /\ \A i \in 1 .. Len(p) : p[i] = z[i]
        /\ IsPrefix(z, p) <=> Len(z) <= Len(p) /\ \A i \in 1 .. Len(z) : z[i] = p[i]
        /\ IsPrefix(Front(p), z) <=> Len(Front(p)) <= Len(z) /\ \A i \in 1 .. Len(Front(p)) : Front(p)[i] = z[i]
        /\ IsPrefix(z, Front(p)) <=> Len(z) <= Len(Front(p)) /\ \A i \in 1 .. Len(z) : z[i] = Front(p)[i]
    BY <1>1, PrefixIs
  <1>4. IsPrefix(p, z) => IsPrefix(Front(p), z)
    BY <1>1, <1>2, <1>3
  <1>5. ASSUME IsPrefix(z, p), ~ IsPrefix(p, z) PROVE IsPrefix(z, Front(p))
    <2>1. Len(z) <= Len(p) - 1
      <3> SUFFICES ASSUME Len(z) = Len(p) PROVE FALSE
        BY <1>1, <1>2, <1>3, <1>5
      <3> QED
        BY <1>1, <1>2, <1>3, <1>5
    <2> QED
      BY <1>1, <1>2, <1>3, <1>5, <2>1
  <1>6. ASSUME IsPrefix(z, Front(p)) PROVE IsPrefix(z, p) /\ ~ IsPrefix(p, z)
    BY <1>1, <1>2, <1>3, <1>6
  <1> QED
    BY <1>4, <1>5, <1>6

LEMMA PrefixOrder ==
    ASSUME NEW S, NEW p \in Seq(S), NEW z \in Seq(S)
    PROVE  /\ IsPrefix(<<>>, z) /\ IsPrefix(z, z)
           /\ IsPrefix(p, z) /\ IsPrefix(z, p) => p = z
  <1>1. \A q, r \in Seq(S) : IsPrefix(q, r) <=> Len(q) <= Len(r) /\ \A i \in 1 .. Len(q) : q[i] = r[i]
    BY PrefixIs
  <1>2. Len(z) \in Nat /\ Len(p) \in Nat /\ Len(<<>>) = 0 /\ <<>> \in Seq(S)
    BY LenProperties, EmptySeq
  <1>3. ASSUME NEW e \in Seq(S), Len(e) = 0 PROVE IsPrefix(e, z)
    <2>1. Len(e) <= Len(z) /\ \A i \in 1 .. Len(e) : e[i] = z[i]
      BY <1>2, <1>3
    <2> QED
      BY <1>1, <2>1
  <1>4. IsPrefix(<<>>, z)
    <2>1. PICK e \in Seq(S) : e = <<>> /\ Len(e) = 0
      BY <1>2
    <2>2. IsPrefix(e, z)
      BY <1>3, <2>1
    <2> QED
      BY <2>1, <2>2
  <1>5. ASSUME NEW q \in Seq(S), q = z PROVE IsPrefix(q, z)
    BY <1>1, <1>2, <1>5
  <1>7. IsPrefix(z, z)
    BY <1>5
  <1>6. ASSUME IsPrefix(p, z), IsPrefix(z, p) PROVE p = z
    <2>1. Len(p) = Len(z) /\ \A i \in 1 .. Len(p) : p[i] = z[i]
      BY <1>1, <1>2, <1>6
    <2> QED
      BY <2>1, SeqEqual
  <1> QED
    BY <1>4, <1>6, <1>7

\* What the definition of WidthOf says of a width.
WidthAt(t, zoomed, comb, w) ==
    \A p \in DOMAIN t :
        /\ IsPrefix(p, zoomed) => w[p] = COLS
        /\ ~ IsPrefix(p, zoomed) /\ ~ IsPrefix(zoomed, p) => w[p] = 0
        /\ ~ IsPrefix(p, zoomed) /\ IsPrefix(zoomed, p) =>
              w[p] = IF w[Front(p)] = 0 THEN 0 ELSE ChildWidths(t, Front(p), w[Front(p)], comb)[p]

LEMMA WidthExists ==
    ASSUME NEW t, IsTree(t), AddsUp(t), NEW zoomed \in DOMAIN t, NEW comb \in BOOLEAN
    PROVE  \E w : w \in [DOMAIN t -> Nat] /\ WidthAt(t, zoomed, comb, w)
  <1> DEFINE D == DOMAIN t
             Value(p, v) == IF IsPrefix(p, zoomed) THEN COLS
                            ELSE IF ~ IsPrefix(zoomed, p) THEN 0
                            ELSE IF v = 0 THEN 0 ELSE ChildWidths(t, Front(p), v, comb)[p]
             rank == [p \in D |-> Len(p)]
             pred == [p \in D |-> Front(p)]
             base == [p \in D |-> COLS]
             G == [p \in D |-> [v \in Nat |-> Value(p, v)]]
  <1>0. COLS \in Nat \ {0} /\ D \subseteq Seq(Names) /\ zoomed \in Seq(Names)
    BY COLSAssumption DEF IsTree
  <1>1. rank \in [D -> Nat] /\ base \in [D -> Nat] /\ \A p \in D : rank[p] = 0 <=> p = <<>>
    <2>1. \A p \in D : Len(p) \in Nat /\ (Len(p) = 0 <=> p = <<>>)
      BY <1>0, LenProperties, EmptySeq
    <2> QED
      BY <1>0, <2>1
  <1>2. \A p \in D : rank[p] # 0 => pred[p] \in D /\ rank[pred[p]] < rank[p]
    <2>1. \A p \in D : p # <<>> => Front(p) \in D /\ Len(Front(p)) = Len(p) - 1 /\ Len(p) \in Nat
      BY <1>0, FrontAndLast DEF IsTree
    <2> QED
      BY <1>1, <2>1
  <1>3. ASSUME NEW p \in D, NEW v \in Nat PROVE Value(p, v) \in Nat
    <2>1. CASE IsPrefix(p, zoomed)
      BY <1>0, <2>1
    <2>2. CASE ~ IsPrefix(p, zoomed) /\ (~ IsPrefix(zoomed, p) \/ v = 0)
      BY <2>2
    <2>3. CASE ~ IsPrefix(p, zoomed) /\ IsPrefix(zoomed, p) /\ v # 0
      <3>1. p # <<>>
        BY <1>0, <2>3, PrefixOrder
      <3>2. Front(p) \in D /\ p \in Children(t, Front(p))
        <4>1. Front(p) \in D
          BY <3>1 DEF IsTree
        <4> QED
          BY <3>1, <4>1, ChildrenOf
      <3>3. v \in Nat \ {0}
        BY <2>3
      <3>4. Natural(ChildWidths(t, Front(p), v, comb), Children(t, Front(p)))
        BY <3>2, <3>3, ChildWidthsFit
      <3> QED
        BY <2>3, <3>2, <3>4 DEF Natural
    <2> QED
      BY <2>1, <2>2, <2>3
  <1>4. G \in [D -> [Nat -> Nat]]
    <2> HIDE DEF Value
    <2> QED
      BY <1>3
  <1>5. \A p \in D : pred[p] = Front(p) /\ base[p] = COLS /\ \A v \in Nat : G[p][v] = Value(p, v)
    OBVIOUS
  <1> HIDE DEF rank, pred, base, G, Value
  <1>6. Steps(D, Nat, rank, pred, base, G)
    BY <1>1, <1>2, <1>4 DEF Steps
  <1>7. PICK w : w \in [D -> Nat] /\ Recursive(w, D, rank, pred, base, G)
    BY <1>6, Recursion
  <1>8. ASSUME NEW p \in D PROVE IF p = <<>> THEN w[p] = COLS ELSE w[p] = Value(p, w[Front(p)])
    <2>1. w[p] = IF rank[p] = 0 THEN base[p] ELSE G[p][w[pred[p]]]
      BY <1>7 DEF Recursive
    <2>2. CASE p = <<>>
      BY <1>1, <1>5, <2>1, <2>2
    <2>3. CASE p # <<>>
      <3>1. rank[p] # 0 /\ Front(p) \in D
        BY <1>1, <1>2, <1>5, <2>3
      <3>2. w[Front(p)] \in Nat
        BY <1>7, <3>1
      <3> QED
        BY <1>5, <2>1, <2>3, <3>1, <3>2
    <2> QED
      BY <2>2, <2>3
  <1>9. \A p \in D : p = <<>> => IsPrefix(p, zoomed)
    BY <1>0, PrefixOrder
  <1>10. WidthAt(t, zoomed, comb, w)
    BY <1>8, <1>9 DEF WidthAt, Value
  <1> QED
    BY <1>7, <1>10

\* The induction over the paths of a tree.
LEMMA PathInduction ==
    ASSUME NEW t, IsTree(t), NEW P, <<>> \in P,
           \A p \in DOMAIN t \ {<<>>} : Front(p) \in P => p \in P
    PROVE  DOMAIN t \subseteq P
  <1> DEFINE rank == [p \in DOMAIN t |-> Len(p)]
             pred == [p \in DOMAIN t |-> Front(p)]
  <1>1. \A p \in DOMAIN t : Len(p) \in Nat /\ (Len(p) = 0 <=> p = <<>>)
    BY LenProperties, EmptySeq DEF IsTree
  <1>2. \A p \in DOMAIN t : p # <<>> => Front(p) \in DOMAIN t /\ Len(Front(p)) = Len(p) - 1
    BY FrontAndLast DEF IsTree
  <1>3. Inherited(P, DOMAIN t, rank, pred)
    BY <1>1, <1>2 DEF Inherited
  <1> QED
    BY <1>3, Inheritance

LEMMA WidthNatural ==
    ASSUME NEW t, IsTree(t), AddsUp(t), NEW zoomed \in DOMAIN t, NEW comb \in BOOLEAN,
           NEW w, WidthAt(t, zoomed, comb, w)
    PROVE  \A p \in DOMAIN t : w[p] \in Nat
  <1> DEFINE P == {p \in DOMAIN t : w[p] \in Nat}
  <1>0. COLS \in Nat \ {0} /\ DOMAIN t \subseteq Seq(Names) /\ zoomed \in Seq(Names) /\ <<>> \in DOMAIN t
    BY COLSAssumption DEF IsTree
  <1>1. <<>> \in P
    BY <1>0, PrefixOrder DEF WidthAt
  <1>2. ASSUME NEW p \in DOMAIN t \ {<<>>}, Front(p) \in P PROVE w[p] \in Nat
    <2>1. Front(p) \in DOMAIN t /\ p \in Children(t, Front(p)) /\ w[Front(p)] \in Nat
      BY <1>2, ChildrenOf
    <2>2. CASE IsPrefix(p, zoomed) \/ ~ IsPrefix(zoomed, p) \/ w[Front(p)] = 0
      BY <1>0, <2>2 DEF WidthAt
    <2>3. CASE ~ IsPrefix(p, zoomed) /\ IsPrefix(zoomed, p) /\ w[Front(p)] # 0
      <3>1. w[Front(p)] \in Nat \ {0}
        BY <2>1, <2>3
      <3>2. Natural(ChildWidths(t, Front(p), w[Front(p)], comb), Children(t, Front(p)))
        BY <2>1, <3>1, ChildWidthsFit
      <3>3. w[p] = ChildWidths(t, Front(p), w[Front(p)], comb)[p]
        BY <2>3 DEF WidthAt
      <3> QED
        BY <2>1, <3>2, <3>3 DEF Natural
    <2> QED
      BY <2>2, <2>3
  <1>3. \A p \in DOMAIN t \ {<<>>} : Front(p) \in P => p \in P
    BY <1>2
  <1> HIDE DEF P
  <1>4. DOMAIN t \subseteq P
    BY <1>1, <1>3, PathInduction
  <1> QED
    BY <1>4 DEF P

LEMMA WidthIs ==
    ASSUME NEW t, IsTree(t), AddsUp(t), NEW zoomed \in DOMAIN t, NEW comb \in BOOLEAN,
           NEW w, w = WidthOf(t, zoomed, comb)
    PROVE  DOMAIN w = DOMAIN t /\ (\A p \in DOMAIN t : w[p] \in Nat) /\ WidthAt(t, zoomed, comb, w)
  <1> DEFINE Eq(h) == h = [p \in DOMAIN t |->
                IF IsPrefix(p, zoomed)
                THEN COLS
                ELSE IF ~IsPrefix(zoomed, p) \/ h[Front(p)] = 0
                THEN 0
                ELSE ChildWidths(t, Front(p), h[Front(p)], comb)[p]]
  <1>1. w = CHOOSE h : Eq(h)
    BY DEF WidthOf
  <1>2. \E h : Eq(h)
    <2>1. PICK h : h \in [DOMAIN t -> Nat] /\ WidthAt(t, zoomed, comb, h)
      BY WidthExists
    <2>2. Eq(h)
      BY <2>1 DEF WidthAt
    <2> QED
      BY <2>2
  <1>3. Eq(w)
    <2> HIDE DEF Eq
    <2> QED
      BY <1>1, <1>2
  <1>4. DOMAIN w = DOMAIN t /\ WidthAt(t, zoomed, comb, w)
    BY <1>3 DEF WidthAt
  <1> QED
    BY <1>4, WidthNatural

\* A tree whose counts add up, as the browser shows it.
Scene(t, z, b, w) ==
    /\ IsTree(t) /\ AddsUp(t) /\ z \in DOMAIN t /\ b \in BOOLEAN /\ w = WidthOf(t, z, b)

LEMMA SceneIs ==
    ASSUME NEW t, NEW z, NEW b, NEW w, Scene(t, z, b, w)
    PROVE  /\ IsTree(t) /\ AddsUp(t) /\ z \in DOMAIN t /\ z \in Seq(Names) /\ b \in BOOLEAN
           /\ DOMAIN w = DOMAIN t /\ (\A p \in DOMAIN t : w[p] \in Nat) /\ WidthAt(t, z, b, w)
           /\ COLS \in Nat \ {0} /\ DOMAIN t \subseteq Seq(Names) /\ Natural(w, DOMAIN t)
  <1>1. IsTree(t) /\ AddsUp(t) /\ z \in DOMAIN t /\ b \in BOOLEAN /\ w = WidthOf(t, z, b)
    BY DEF Scene
  <1>2. DOMAIN w = DOMAIN t /\ (\A p \in DOMAIN t : w[p] \in Nat) /\ WidthAt(t, z, b, w)
    BY <1>1, WidthIs
  <1> QED
    BY <1>1, <1>2, COLSAssumption DEF IsTree, Natural

LEMMA StrictPrefix ==
    ASSUME NEW S, NEW p \in Seq(S), NEW z \in Seq(S)
    PROVE  /\ IsStrictPrefix(z, p) <=> p # <<>> /\ IsPrefix(z, Front(p))
           /\ IsStrictPrefix(z, p) <=> IsPrefix(z, p) /\ ~ IsPrefix(p, z)
  <1>1. IsStrictPrefix(z, p) <=> IsPrefix(z, p) /\ ~ IsPrefix(p, z)
    BY PrefixOrder DEF IsStrictPrefix
  <1>2. CASE p = <<>>
    BY <1>1, <1>2, PrefixOrder
  <1>3. CASE p # <<>>
    BY <1>1, <1>3, PrefixesOfFront
  <1> QED
    BY <1>1, <1>2, <1>3

\* The children of a frame that is shown, and not only for the way down to the zoomed one.
LEMMA WidthsBelow ==
    ASSUME NEW t, NEW z, NEW b, NEW w, Scene(t, z, b, w),
           NEW p \in DOMAIN t, IsPrefix(z, p), w[p] > 0
    PROVE  LET sum == SumFunctionOnSet(w, Children(t, p))
           IN /\ sum \in Nat /\ sum <= w[p]
              /\ HasCombined(t, p, w[p], b) => sum <= w[p] - 1 /\ Small(t, p, w) # {}
              /\ b /\ Small(t, p, w) # {} => HasCombined(t, p, w[p], b)
  <1> DEFINE C == Children(t, p)
             u == ChildWidths(t, p, w[p], b)
  <1>1. w[p] \in Nat \ {0} /\ b \in BOOLEAN /\ IsTree(t) /\ AddsUp(t)
    BY SceneIs
  <1>2. /\ DOMAIN u = C /\ Natural(u, C) /\ SumFunctionOnSet(u, C) \in Nat /\ SumFunctionOnSet(u, C) <= w[p]
        /\ HasCombined(t, p, w[p], b) => SumFunctionOnSet(u, C) <= w[p] - 1 /\ \E c \in C : u[c] = 0
        /\ b /\ (\E c \in C : u[c] = 0) => HasCombined(t, p, w[p], b)
    BY <1>1, ChildWidthsFit
  <1>3. C = {c \in DOMAIN t \ {<<>>} : Front(c) = p} /\ C \in SUBSET DOMAIN t
    BY <1>1, ChildrenOf
  <1>4. Natural(w, C)
    BY <1>3, SceneIs, NaturalBelow
  <1>5. ASSUME NEW c \in C PROVE u[c] = w[c]
    <2>1. c \in DOMAIN t /\ c # <<>> /\ Front(c) = p /\ c \in Seq(Names) /\ z \in Seq(Names)
      BY <1>3, SceneIs
    <2>2. IsPrefix(z, c) /\ ~ IsPrefix(c, z)
      BY <2>1, PrefixesOfFront
    <2>3. WidthAt(t, z, b, w)
      BY SceneIs
    <2> QED
      BY <1>1, <2>1, <2>2, <2>3 DEF WidthAt
  <1> HIDE DEF C, u
  <1>6. SumFunctionOnSet(u, C) = SumFunctionOnSet(w, C)
    <2>1. Summable(u, C) /\ Summable(w, C)
      BY <1>2, <1>4 DEF Natural, Summable
    <2> QED
      BY <1>5, <2>1, SumSame
  <1>7. Small(t, p, w) = {c \in C : u[c] = 0}
    BY <1>5 DEF Small, C
  <1> QED
    BY <1>2, <1>6, <1>7 DEF C

\* A frame that is shown stands on one that is shown, and is not wider.
LEMMA ShownBelow ==
    ASSUME NEW t, NEW z, NEW b, NEW w, Scene(t, z, b, w),
           NEW p \in DOMAIN t, p # <<>>, w[p] > 0
    PROVE  /\ Front(p) \in DOMAIN t /\ w[Front(p)] > 0
           /\ IsPrefix(z, p) \/ IsPrefix(p, z)
           /\ ~ IsPrefix(z, Front(p)) => w[p] = COLS /\ w[Front(p)] = COLS /\ IsPrefix(p, z)
  <1>1. Front(p) \in DOMAIN t /\ p \in Seq(Names) /\ z \in Seq(Names) /\ WidthAt(t, z, b, w) /\ COLS \in Nat \ {0}
    BY SceneIs DEF IsTree
  <1>2. w[p] \in Nat /\ w[Front(p)] \in Nat
    BY <1>1, SceneIs
  <1>3. CASE IsPrefix(p, z)
    <2>1. IsPrefix(Front(p), z)
      BY <1>1, <1>3, PrefixesOfFront
    <2> QED
      BY <1>1, <1>3, <2>1 DEF WidthAt
  <1>4. CASE ~ IsPrefix(p, z)
    <2>1. IsPrefix(z, p) /\ w[Front(p)] # 0
      BY <1>1, <1>2, <1>4 DEF WidthAt
    <2>2. IsPrefix(z, Front(p))
      BY <1>1, <1>4, <2>1, PrefixesOfFront
    <2> QED
      BY <1>1, <1>2, <2>1, <2>2
  <1> QED
    BY <1>3, <1>4

(***************************************************************************)
(* The columns of the frames.                                              *)
(***************************************************************************)

FromHere(t, p) == {c \in Children(t, Front(p)) : Last(c) >= Last(p)}

LeftAt(t, z, w, x) ==
    \A p \in DOMAIN t :
        x[p] = IF IsStrictPrefix(z, p)
               THEN x[Front(p)] + w[Front(p)] - SumFunctionOnSet(w, FromHere(t, p))
               ELSE 0

LEMMA LeftIs ==
    ASSUME NEW t, NEW z, NEW b, NEW w, Scene(t, z, b, w), NEW x, x = LeftOf(t, z, b)
    PROVE  DOMAIN x = DOMAIN t /\ LeftAt(t, z, w, x) /\ \A p \in DOMAIN t : x[p] \in Int
  <1> DEFINE D == DOMAIN t
             Used(p) == SumFunctionOnSet(w, FromHere(t, p))
             rank == [p \in D |-> Len(p)]
             pred == [p \in D |-> Front(p)]
             base == [p \in D |-> 0]
             G == [p \in D |-> [v \in Int |-> IF IsStrictPrefix(z, p) THEN v + w[Front(p)] - Used(p) ELSE 0]]
             Eq(h) == h = [p \in D |-> IF ~ IsStrictPrefix(z, p) THEN 0
                                       ELSE h[Front(p)] + w[Front(p)] - Used(p)]
  <1>0. /\ IsTree(t) /\ D \subseteq Seq(Names) /\ z \in Seq(Names) /\ DOMAIN w = D /\ \A p \in D : w[p] \in Nat
    BY SceneIs
  <1>1. rank \in [D -> Nat] /\ base \in [D -> Int] /\ \A p \in D : rank[p] = 0 <=> p = <<>>
    <2>1. \A p \in D : Len(p) \in Nat /\ (Len(p) = 0 <=> p = <<>>)
      BY <1>0, LenProperties, EmptySeq
    <2> QED
      BY <1>0, <2>1
  <1>2. \A p \in D : rank[p] # 0 => pred[p] \in D /\ rank[pred[p]] < rank[p]
    <2>1. \A p \in D : p # <<>> => Front(p) \in D /\ Len(Front(p)) = Len(p) - 1 /\ Len(p) \in Nat
      BY <1>0, FrontAndLast DEF IsTree
    <2> QED
      BY <1>1, <2>1
  <1>3. ASSUME NEW p \in D, IsStrictPrefix(z, p) PROVE p # <<>> /\ w[Front(p)] \in Int /\ Used(p) \in Int
    <2>1. p # <<>> /\ Front(p) \in D
      BY <1>0, <1>3, StrictPrefix DEF IsTree
    <2>2. FromHere(t, p) \in SUBSET D
      BY <1>0, <2>1, ChildrenOf DEF FromHere
    <2> QED
      BY <1>0, <2>1, <2>2, NaturalBelow, SceneIs
  <1>4. G \in [D -> [Int -> Int]]
    <2> HIDE DEF Used
    <2> QED
      BY <1>3
  <1>5. /\ \A p \in D : pred[p] = Front(p) /\ base[p] = 0
        /\ \A p \in D, v \in Int : G[p][v] = IF IsStrictPrefix(z, p) THEN v + w[Front(p)] - Used(p) ELSE 0
    OBVIOUS
  <1>6. \A p \in D : p = <<>> => ~ IsStrictPrefix(z, p)
    BY <1>3
  <1> HIDE DEF rank, pred, base, G, Used
  <1>7. Steps(D, Int, rank, pred, base, G)
    BY <1>1, <1>2, <1>4 DEF Steps
  <1>8. PICK h : h \in [D -> Int] /\ Recursive(h, D, rank, pred, base, G)
    BY <1>7, Recursion
  <1>9. ASSUME NEW p \in D
        PROVE  h[p] = IF ~ IsStrictPrefix(z, p) THEN 0 ELSE h[Front(p)] + w[Front(p)] - Used(p)
    <2>1. h[p] = IF rank[p] = 0 THEN base[p] ELSE G[p][h[pred[p]]]
      BY <1>8 DEF Recursive
    <2>2. CASE p = <<>>
      BY <1>1, <1>5, <1>6, <2>1, <2>2
    <2>3. CASE p # <<>>
      <3>1. rank[p] # 0 /\ Front(p) \in D
        BY <1>1, <1>2, <1>5, <2>3
      <3>2. h[Front(p)] \in Int
        BY <1>8, <3>1
      <3> QED
        BY <1>5, <2>1, <3>1, <3>2
    <2> QED
      BY <2>2, <2>3
  <1>10. Eq(h)
    BY <1>8, <1>9
  <1>11. x = CHOOSE k : Eq(k)
    BY DEF LeftOf, Scene, FromHere, Used
  <1>12. Eq(x)
    <2> HIDE DEF Eq
    <2> QED
      BY <1>10, <1>11
  <1>13. DOMAIN x = D /\ LeftAt(t, z, w, x)
    BY <1>12 DEF LeftAt, Used
  <1> DEFINE P == {p \in D : x[p] \in Int}
  <1>14. <<>> \in P
    BY <1>0, <1>6, <1>12 DEF IsTree
  <1>15. \A p \in DOMAIN t \ {<<>>} : Front(p) \in P => p \in P
    BY <1>3, <1>12
  <1> HIDE DEF P
  <1>16. D \subseteq P
    BY <1>0, <1>14, <1>15, PathInduction
  <1> QED
    BY <1>13, <1>16 DEF P

(***************************************************************************)
(* What a `+' lists.                                                       *)
(***************************************************************************)

LEMMA NamesAreNumbers == Names \subseteq Nat /\ Plus \in Nat /\ Plus \notin Names
  BY DEF Names, Plus, TrimOffset, Offset

LEMMA SiblingNames ==
    ASSUME NEW t, IsTree(t), NEW p \in DOMAIN t
    PROVE  /\ \A c \in Children(t, p) : Last(c) \in Nat
           /\ \A c, d \in Children(t, p) : c # d => Last(c) # Last(d)
  <1>1. \A c \in Children(t, p) : c \in Seq(Names) /\ c # <<>> /\ Front(c) = p
    BY ChildrenOf DEF IsTree
  <1>2. ASSUME NEW c \in Children(t, p) PROVE Last(c) \in Nat
    BY <1>1, FrontAndLast, NamesAreNumbers
  <1>3. ASSUME NEW c \in Children(t, p), NEW d \in Children(t, p), Last(c) = Last(d) PROVE c = d
    BY <1>1, <1>3, SamePath
  <1> QED
    BY <1>2, <1>3

LEMMA Places ==
    ASSUME NEW S, IsFiniteSet(S), \A c \in S : Last(c) \in Nat, \A c, d \in S : c # d => Last(c) # Last(d)
    PROVE  /\ Cardinality(S) \in Nat
           /\ \A c \in S : PlaceIn(S, c) \in 1 .. Cardinality(S)
           /\ \A c, d \in S : PlaceIn(S, c) = PlaceIn(S, d) => c = d
           /\ \A i \in 1 .. Cardinality(S) : \E c \in S : PlaceIn(S, c) = i
  <1> DEFINE Up(c) == {d \in S : Last(d) >= Last(c)}
             n == Cardinality(S)
  <1>1. n \in Nat
    BY FS_CardinalityType
  <1>2. \A c \in S : /\ PlaceIn(S, c) = Cardinality(Up(c)) /\ Up(c) \in SUBSET S /\ c \in Up(c)
                     /\ IsFiniteSet(Up(c)) /\ Cardinality(Up(c)) \in Nat
    <2>1. \A c \in S : Up(c) \in SUBSET S /\ c \in Up(c)
      OBVIOUS
    <2>2. \A c \in S : IsFiniteSet(Up(c))
      BY <2>1, FS_Subset
    <2>3. \A c \in S : Cardinality(Up(c)) \in Nat
      BY <2>2, FS_CardinalityType
    <2> QED
      BY <2>1, <2>2, <2>3 DEF PlaceIn
  <1>3. ASSUME NEW c \in S PROVE PlaceIn(S, c) \in 1 .. n
    <2>1. Cardinality(Up(c)) <= n
      BY <1>2, FS_Subset
    <2>2. Cardinality(Up(c)) # 0
      BY <1>2, FS_EmptySet
    <2> HIDE DEF Up, n
    <2> QED
      BY <1>1, <1>2, <2>1, <2>2
  <1>4. ASSUME NEW c \in S, NEW d \in S, Last(c) > Last(d) PROVE PlaceIn(S, c) # PlaceIn(S, d)
    <2>1. Up(c) \in SUBSET Up(d) /\ d \notin Up(c) /\ d \in Up(d)
      BY <1>4
    <2>2. Cardinality(Up(d)) # Cardinality(Up(c))
      <3>1. IsFiniteSet(Up(d))
        BY <1>2
      <3>2. Up(d) # Up(c)
        BY <2>1
      <3> HIDE DEF Up
      <3> QED
        BY <2>1, <3>1, <3>2, FS_Subset
    <2> QED
      BY <1>2, <2>2
  <1>5. \A c, d \in S : PlaceIn(S, c) = PlaceIn(S, d) => c = d
    <2> SUFFICES ASSUME NEW c \in S, NEW d \in S, c # d PROVE PlaceIn(S, c) # PlaceIn(S, d)
      OBVIOUS
    <2>1. Last(c) > Last(d) \/ Last(d) > Last(c)
      OBVIOUS
    <2> QED
      BY <1>4, <2>1
  <1> DEFINE place == [c \in S |-> PlaceIn(S, c)]
  <1>6. place \in Injection(S, 1 .. n)
    <2>1. place \in [S -> 1 .. n]
      BY <1>3
    <2>2. \A c, d \in S : place[c] = place[d] => c = d
      BY <1>5
    <2> HIDE DEF place
    <2> QED
      BY <2>1, <2>2 DEF Injection, IsInjective
  <1>7. IsFiniteSet(1 .. n) /\ Cardinality(1 .. n) = n
    <2> HIDE DEF n
    <2>1. 1 \in Int /\ n \in Int
      BY <1>1
    <2>2. IsFiniteSet(1 .. n) /\ Cardinality(1 .. n) = IF 1 > n THEN 0 ELSE n - 1 + 1
      BY <2>1, FS_Interval
    <2> QED
      BY <1>1, <2>2
  <1>8. place \in Surjection(S, 1 .. n)
    <2> HIDE DEF place
    <2> QED
      BY <1>6, <1>7, FS_Injection
  <1>9. \A i \in 1 .. n : \E c \in S : place[c] = i
    <2> HIDE DEF place
    <2> QED
      BY <1>8 DEF Surjection
  <1> QED
    BY <1>1, <1>3, <1>5, <1>9

LEMMA CombinedIs ==
    ASSUME NEW t, IsTree(t), NEW p \in DOMAIN t, NEW w
    PROVE  LET s == Combined(t, p, w)
           IN /\ s \in Seq(Small(t, p, w)) /\ \A c \in Small(t, p, w) : Contains(s, c)
              /\ Small(t, p, w) # {} => s # <<>>
  <1> DEFINE S == Small(t, p, w)
             n == Cardinality(S)
             s == [i \in 1 .. n |-> CHOOSE c \in S : PlaceIn(S, c) = i]
  <1>1. S \subseteq Children(t, p)
    BY DEF Small
  <1>2. IsFiniteSet(S)
    BY <1>1, ChildrenOf, FS_Subset
  <1>3. (\A c \in S : Last(c) \in Nat) /\ (\A c, d \in S : c # d => Last(c) # Last(d))
    BY <1>1, SiblingNames
  <1> HIDE DEF S
  <1>4. /\ n \in Nat
        /\ \A c \in S : PlaceIn(S, c) \in 1 .. n
        /\ \A c, d \in S : PlaceIn(S, c) = PlaceIn(S, d) => c = d
        /\ \A i \in 1 .. n : \E c \in S : PlaceIn(S, c) = i
    BY <1>2, <1>3, Places
  <1>5. \A i \in 1 .. n : s[i] \in S /\ PlaceIn(S, s[i]) = i
    BY <1>4
  <1>6. s \in Seq(S) /\ Len(s) = n
    BY <1>4, <1>5
  <1>7. Combined(t, p, w) = s
    BY DEF Combined, S
  <1> HIDE DEF s, n
  <1>8. ASSUME NEW c \in S PROVE Contains(s, c)
    <2>1. PlaceIn(S, c) \in 1 .. n /\ s[PlaceIn(S, c)] = c
      BY <1>4, <1>5
    <2> QED
      BY <1>6, <2>1 DEF Contains
  <1>9. S # {} => s # <<>>
    <2>1. \A c \in S : \E i \in 1 .. Len(s) : s[i] = c
      BY <1>8 DEF Contains
    <2> QED
      BY <2>1, EmptySeq
  <1> QED
    BY <1>6, <1>7, <1>8, <1>9 DEF S

(***************************************************************************)
(* The visual tree.                                                        *)
(***************************************************************************)

Shown(t, w) == {p \in DOMAIN t : w[p] > 0}
Crowded(t, z, b, w) == {p \in Shown(t, w) : IsPrefix(z, p) /\ HasCombined(t, p, w[p], b)}
PlusOf(p) == Append(p, Plus)
SumBelow(t, w, p) == SumFunctionOnSet(w, Children(t, p))

IsPicture(v, t, z, b, w, x) ==
    /\ DOMAIN v = Shown(t, w) \cup {PlusOf(p) : p \in Crowded(t, z, b, w)}
    /\ \A p \in Shown(t, w) : /\ v[p].x = x[p] /\ v[p].width = w[p]
                              /\ v[p].count = t[p].count /\ v[p].frames = <<>>
    /\ \A p \in Crowded(t, z, b, w) : /\ v[PlusOf(p)].x = x[p] + w[p] - SumBelow(t, w, p) - 1
                                      /\ v[PlusOf(p)].width = 1
                                      /\ v[PlusOf(p)].frames = Combined(t, p, w)

LEMMA PlusIs ==
    ASSUME NEW p \in Seq(Names)
    PROVE  /\ PlusOf(p) \in Seq(Nat) /\ PlusOf(p) # <<>> /\ Len(PlusOf(p)) = Len(p) + 1
           /\ Front(PlusOf(p)) = p /\ Last(PlusOf(p)) = Plus
           /\ IsPlus(PlusOf(p)) /\ ~ IsPlus(p) /\ PlusOf(p) \notin Seq(Names)
  <1>1. p \in Seq(Nat)
    BY NamesAreNumbers, SeqMonotonic
  <1>2. /\ PlusOf(p) \in Seq(Nat) /\ PlusOf(p) # <<>> /\ Len(PlusOf(p)) = Len(p) + 1
        /\ Front(PlusOf(p)) = p /\ Last(PlusOf(p)) = Plus
    BY <1>1, NamesAreNumbers, AppendIs DEF PlusOf
  <1>3. ~ IsPlus(p)
    BY NamesAreNumbers, FrontAndLast DEF IsPlus
  <1>4. PlusOf(p) \notin Seq(Names)
    <2> SUFFICES ASSUME PlusOf(p) \in Seq(Names) PROVE FALSE
      OBVIOUS
    <2>1. Last(PlusOf(p)) \in Names
      BY <1>2, FrontAndLast
    <2> QED
      BY <1>2, <2>1, NamesAreNumbers
  <1> QED
    BY <1>2, <1>3, <1>4 DEF IsPlus

LEMMA RebuildDraws ==
    ASSUME NEW t, NEW z, NEW b, NEW w, Scene(t, z, b, w), NEW x, x = LeftOf(t, z, b)
    PROVE  IsPicture(RebuildTree(t, z, b), t, z, b, w, x)
  <1> DEFINE K == Crowded(t, z, b, w)
             plus == {PlusOf(p) : p \in K}
             Leaf(q) == LET p == Front(q)
                        IN [x |-> x[p] + w[p] - SumBelow(t, w, p) - 1,
                            width |-> 1,
                            count |-> SumFunctionOnSet(Counts(t), Small(t, p, w)),
                            frames |-> Combined(t, p, w)]
             v == [q \in Shown(t, w) \cup plus |->
                     IF q \in Shown(t, w)
                     THEN [x |-> x[q], width |-> w[q], count |-> t[q].count, frames |-> <<>>]
                     ELSE Leaf(q)]
  <1>1. RebuildTree(t, z, b) = v
    BY DEF RebuildTree, Scene, Shown, Crowded, PlusOf, SumBelow
  <1>2. \A p \in Shown(t, w) : p \in Seq(Names)
    BY SceneIs DEF Shown
  <1>3. \A p \in K : PlusOf(p) \notin Shown(t, w) /\ Front(PlusOf(p)) = p
    BY <1>2, PlusIs DEF Crowded
  <1>4. DOMAIN v = Shown(t, w) \cup plus
    OBVIOUS
  <1>5. \A p \in Shown(t, w) : v[p].x = x[p] /\ v[p].width = w[p] /\ v[p].count = t[p].count /\ v[p].frames = <<>>
    OBVIOUS
  <1>6. ASSUME NEW p \in K
        PROVE  /\ v[PlusOf(p)].x = x[p] + w[p] - SumBelow(t, w, p) - 1
               /\ v[PlusOf(p)].width = 1
               /\ v[PlusOf(p)].frames = Combined(t, p, w)
    <2>1. v[PlusOf(p)] = Leaf(PlusOf(p))
      <3> HIDE DEF Leaf
      <3> QED
        BY <1>3
    <2> QED
      BY <1>3, <2>1
  <1> QED
    BY <1>1, <1>4, <1>5, <1>6 DEF IsPicture

\* A visual tree and all it is made from.
Drawing(v, t, z, b, w, x) ==
    Scene(t, z, b, w) /\ x = LeftOf(t, z, b) /\ IsPicture(v, t, z, b, w, x)

LEMMA DrawnPaths ==
    ASSUME NEW v, NEW t, NEW z, NEW b, NEW w, NEW x, Drawing(v, t, z, b, w, x)
    PROVE  /\ \A p \in Shown(t, w) : p \in Seq(Names) /\ p \in Seq(Nat) /\ p \in DOMAIN t /\ p \in DOMAIN v
           /\ \A q \in DOMAIN v : q \in Seq(Nat) /\ (q # <<>> => Front(q) \in Shown(t, w))
           /\ \A q \in DOMAIN v : q \notin Shown(t, w) =>
                 q # <<>> /\ IsPlus(q) /\ Front(q) \in Crowded(t, z, b, w) /\ q = PlusOf(Front(q))
           /\ \A f \in DOMAIN v : FramesOf(v, f) = {q \in DOMAIN v \ {<<>>} : Front(q) = f}
           /\ z \in Shown(t, w) /\ <<>> \in Shown(t, w)
  <1>0. Scene(t, z, b, w) /\ IsPicture(v, t, z, b, w, x)
    BY DEF Drawing
  <1>1. \A p \in Shown(t, w) : p \in Seq(Names) /\ p \in Seq(Nat) /\ p \in DOMAIN t /\ p \in DOMAIN v
    <2>1. \A p \in Shown(t, w) : p \in Seq(Names) /\ p \in DOMAIN t /\ p \in DOMAIN v
      BY <1>0, SceneIs DEF Shown, IsPicture
    <2> QED
      BY <2>1, NamesAreNumbers, SeqMonotonic
  <1>2. ASSUME NEW p \in Shown(t, w), p # <<>> PROVE Front(p) \in Shown(t, w)
    <2>1. p \in DOMAIN t /\ w[p] > 0
      BY DEF Shown
    <2> QED
      BY <1>0, <1>2, <2>1, ShownBelow DEF Shown
  <1>3. ASSUME NEW q \in DOMAIN v, q \notin Shown(t, w)
        PROVE  /\ q # <<>> /\ IsPlus(q) /\ Front(q) \in Crowded(t, z, b, w) /\ q = PlusOf(Front(q))
               /\ Front(q) \in Shown(t, w) /\ q \in Seq(Nat)
    <2>1. PICK p \in Crowded(t, z, b, w) : q = PlusOf(p)
      BY <1>0, <1>3 DEF IsPicture
    <2>2. p \in Shown(t, w) /\ p \in Seq(Names)
      BY <1>1 DEF Crowded
    <2> QED
      BY <2>1, <2>2, PlusIs
  <1>4. \A q \in DOMAIN v : q \in Seq(Nat)
    BY <1>1, <1>3
  <1>5. \A f \in DOMAIN v : FramesOf(v, f) = {q \in DOMAIN v \ {<<>>} : Front(q) = f}
    <2>1. \A f, q \in DOMAIN v : Len(q) = Len(f) + 1 /\ IsPrefix(f, q) <=> q # <<>> /\ Front(q) = f
      BY <1>4, ChildIs
    <2> QED
      BY <2>1 DEF FramesOf
  <1>6. z \in Shown(t, w) /\ <<>> \in Shown(t, w)
    <2>1. /\ z \in DOMAIN t /\ <<>> \in DOMAIN t /\ z \in Seq(Names) /\ COLS \in Nat \ {0}
          /\ WidthAt(t, z, b, w)
      BY <1>0, SceneIs DEF IsTree
    <2>2. IsPrefix(z, z) /\ IsPrefix(<<>>, z)
      BY <2>1, PrefixOrder
    <2> QED
      BY <2>1, <2>2 DEF Shown, WidthAt
  <1> QED
    BY <1>1, <1>2, <1>3, <1>4, <1>5, <1>6

\* Where a frame that is shown above the zoomed one begins.
LEMMA ShownAbove ==
    ASSUME NEW t, NEW z, NEW b, NEW w, Scene(t, z, b, w), NEW x, x = LeftOf(t, z, b),
           NEW p \in Shown(t, w), p # <<>>
    PROVE  LET f == Front(p)
               from == SumFunctionOnSet(w, FromHere(t, p))
           IN /\ f \in Shown(t, w) /\ p \in Children(t, f) /\ p \in FromHere(t, p) /\ FromHere(t, p) \subseteq Children(t, f)
              /\ Natural(w, Children(t, f)) /\ SumBelow(t, w, f) \in Nat
              /\ x[p] \in Int /\ x[f] \in Int /\ w[p] \in Nat \ {0} /\ w[f] \in Nat \ {0}
              /\ IsPrefix(z, f) =>
                    /\ x[p] = x[f] + w[f] - from
                    /\ from \in Nat /\ w[p] <= from /\ from <= SumBelow(t, w, f) /\ SumBelow(t, w, f) <= w[f]
              /\ ~ IsPrefix(z, f) => IsPrefix(p, z) /\ x[p] = 0 /\ x[f] = 0 /\ w[p] = w[f]
  <1> DEFINE f == Front(p)
             H == FromHere(t, p)
             from == SumFunctionOnSet(w, H)
  <1>1. p \in DOMAIN t /\ w[p] > 0 /\ IsTree(t) /\ p \in Seq(Names) /\ z \in Seq(Names) /\ \A q \in DOMAIN t : w[q] \in Nat
    BY SceneIs DEF Shown
  <1>2. f \in DOMAIN t /\ w[f] > 0 /\ (~ IsPrefix(z, f) => w[p] = COLS /\ w[f] = COLS /\ IsPrefix(p, z))
    BY <1>1, ShownBelow
  <1>3. p \in Children(t, f) /\ H \subseteq Children(t, f) /\ p \in H /\ Children(t, f) \in SUBSET DOMAIN t
    <2>1. p \in Children(t, f) /\ Children(t, f) \in SUBSET DOMAIN t
      BY <1>1, <1>2, ChildrenOf
    <2>2. Last(p) \in Nat
      BY <1>1, <1>2, <2>1, SiblingNames
    <2> QED
      BY <2>1, <2>2 DEF FromHere
  <1>4. Natural(w, Children(t, f)) /\ SumBelow(t, w, f) \in Nat /\ Natural(w, H) /\ from \in Nat
    <2>1. Natural(w, Children(t, f))
      BY <1>3, SceneIs, NaturalBelow
    <2>2. Natural(w, H)
      BY <1>3, <2>1, NaturalBelow
    <2> QED
      BY <2>1, <2>2, SumNatural DEF SumBelow
  <1>5. LeftAt(t, z, w, x) /\ x[p] \in Int /\ x[f] \in Int
    BY <1>1, <1>2, LeftIs
  <1>6. IsStrictPrefix(z, p) <=> IsPrefix(z, f)
    BY <1>1, StrictPrefix
  <1>7. ASSUME IsPrefix(z, f)
        PROVE  /\ x[p] = x[f] + w[f] - from
               /\ w[p] <= from /\ from <= SumBelow(t, w, f) /\ SumBelow(t, w, f) <= w[f]
    <2>1. x[p] = x[f] + w[f] - from
      BY <1>1, <1>5, <1>6, <1>7 DEF LeftAt
    <2>2. w[p] <= from
      <3>1. {} \in SUBSET H /\ p \in H /\ p \notin {}
        BY <1>3
      <3>2. SumFunctionOnSet(w, {}) + w[p] <= from
        BY <1>4, <3>1, SumWithout
      <3>3. SumFunctionOnSet(w, {}) = 0
        <4>1. Summable(w, H)
          BY <1>4 DEF Natural, Summable
        <4> QED
          BY <4>1, SumSplits
      <3> QED
        BY <1>1, <3>2, <3>3
    <2>3. from <= SumBelow(t, w, f)
      BY <1>3, <1>4, SumSubset DEF SumBelow
    <2>4. SumBelow(t, w, f) <= w[f]
      BY <1>2, <1>7, WidthsBelow DEF SumBelow
    <2> QED
      BY <2>1, <2>2, <2>3, <2>4
  <1>8. ASSUME ~ IsPrefix(z, f) PROVE x[p] = 0 /\ x[f] = 0
    <2>1. ~ IsStrictPrefix(z, f)
      <3>1. f \in Seq(Names)
        BY <1>2, SceneIs
      <3> QED
        BY <1>1, <1>8, <3>1, StrictPrefix
    <2> QED
      BY <1>1, <1>2, <1>5, <1>6, <1>8, <2>1 DEF LeftAt
  <1> HIDE DEF f, H, from
  <1>9. f \in Shown(t, w)
    BY <1>2 DEF Shown
  <1>10. w[p] \in Nat \ {0} /\ w[f] \in Nat \ {0}
    BY <1>1, <1>2
  <1> QED
    BY <1>2, <1>3, <1>4, <1>5, <1>7, <1>8, <1>9, <1>10 DEF f, H, from

\* Of two siblings the one of the greater name is the left one.
LEMMA SiblingsApart ==
    ASSUME NEW t, NEW z, NEW b, NEW w, Scene(t, z, b, w), NEW x, x = LeftOf(t, z, b),
           NEW p \in Shown(t, w), NEW q \in Shown(t, w), p # <<>>, q # <<>>, Front(p) = Front(q), p # q
    PROVE  x[p] + w[p] <= x[q] \/ x[q] + w[q] <= x[p]
  <1>1. p \in Seq(Names) /\ q \in Seq(Names) /\ z \in Seq(Names) /\ IsTree(t)
    BY SceneIs DEF Shown
  <1>2. Last(p) # Last(q) /\ Last(p) \in Nat /\ Last(q) \in Nat
    BY <1>1, SamePath, FrontAndLast, NamesAreNumbers
  <1>3. CASE IsPrefix(z, Front(p))
    <2>1. ASSUME NEW c \in Shown(t, w), NEW d \in Shown(t, w), c # <<>>, d # <<>>, Front(c) = Front(d),
                 IsPrefix(z, Front(c)), Last(d) > Last(c), Last(c) \in Nat, Last(d) \in Nat
          PROVE  x[c] + w[c] <= x[d]
      <3> DEFINE f == Front(c)
                 fromC == SumFunctionOnSet(w, FromHere(t, c))
                 fromD == SumFunctionOnSet(w, FromHere(t, d))
      <3>1. /\ x[c] = x[f] + w[f] - fromC /\ fromC \in Nat /\ c \in FromHere(t, c)
            /\ FromHere(t, c) \subseteq Children(t, f) /\ Natural(w, Children(t, f))
            /\ x[f] \in Int /\ w[f] \in Nat /\ w[c] \in Nat
        BY <2>1, ShownAbove
      <3>2. x[d] = x[f] + w[f] - fromD /\ fromD \in Nat
        <4>1. IsPrefix(z, Front(d)) /\ f = Front(d)
          BY <2>1
        <4> QED
          BY <2>1, <4>1, ShownAbove
      <3>3. FromHere(t, d) \in SUBSET FromHere(t, c) /\ c \notin FromHere(t, d)
        <4>1. \A e \in Children(t, f) : Last(e) \in Nat
          <5>1. f \in DOMAIN t
            BY <2>1, ShownAbove DEF Shown
          <5> QED
            BY <1>1, <5>1, SiblingNames
        <4>2. Front(d) = f
          BY <2>1
        <4> HIDE DEF f
        <4>3. FromHere(t, d) = {e \in Children(t, f) : Last(e) >= Last(d)}
          BY <4>2 DEF FromHere
        <4>4. FromHere(t, c) = {e \in Children(t, f) : Last(e) >= Last(c)}
          BY DEF FromHere, f
        <4> QED
          BY <2>1, <4>1, <4>3, <4>4
      <3>4. Natural(w, FromHere(t, c))
        BY <3>1, NaturalBelow
      <3>5. fromD + w[c] <= fromC
        BY <3>1, <3>3, <3>4, SumWithout
      <3> HIDE DEF f, fromC, fromD
      <3> QED
        BY <3>1, <3>2, <3>5
    <2>2. Last(q) > Last(p) \/ Last(p) > Last(q)
      BY <1>2
    <2>3. CASE Last(q) > Last(p)
      BY <1>2, <1>3, <2>1, <2>3
    <2>4. CASE Last(p) > Last(q)
      BY <1>2, <1>3, <2>1, <2>4
    <2> QED
      BY <2>2, <2>3, <2>4
  <1>4. CASE ~ IsPrefix(z, Front(p))
    <2>1. IsPrefix(p, z) /\ IsPrefix(q, z)
      BY <1>4, ShownAbove
    <2>2. Len(p) = Len(q) /\ Len(p) \in Nat \ {0}
      BY <1>1, FrontAndLast
    <2>3. p[Len(p)] = z[Len(p)] /\ q[Len(q)] = z[Len(q)]
      BY <1>1, <2>1, <2>2, PrefixIs
    <2> QED
      BY <1>2, <2>2, <2>3 DEF Last
  <1> QED
    BY <1>3, <1>4

LEMMA FramesInside ==
    ASSUME NEW v, NEW t, NEW z, NEW b, NEW w, NEW x, Drawing(v, t, z, b, w, x)
    PROVE  \A p \in DOMAIN v \ {<<>>} :
              /\ Front(p) \in DOMAIN v
              /\ v[p].width > 0
              /\ Inside(v[p], v[Front(p)])
              /\ \A q \in FramesOf(v, Front(p)) \ {p} : Apart(v[p], v[q])
  <1>0. Scene(t, z, b, w) /\ IsPicture(v, t, z, b, w, x) /\ x = LeftOf(t, z, b)
    BY DEF Drawing
  <1>1. \A q \in Shown(t, w) : v[q].x = x[q] /\ v[q].width = w[q]
    BY <1>0 DEF IsPicture
  <1>2. ASSUME NEW p \in DOMAIN v \ {<<>>}, p \in Shown(t, w)
        PROVE  v[p].width > 0 /\ Inside(v[p], v[Front(p)])
    <2> DEFINE f == Front(p)
               from == SumFunctionOnSet(w, FromHere(t, p))
    <2>1. /\ f \in Shown(t, w) /\ x[p] \in Int /\ x[f] \in Int /\ w[p] \in Nat \ {0} /\ w[f] \in Nat \ {0}
          /\ SumBelow(t, w, f) \in Nat
          /\ IsPrefix(z, f) =>
                    /\ x[p] = x[f] + w[f] - from
                    /\ from \in Nat /\ w[p] <= from /\ from <= SumBelow(t, w, f) /\ SumBelow(t, w, f) <= w[f]
          /\ ~ IsPrefix(z, f) => x[p] = 0 /\ x[f] = 0 /\ w[p] = w[f]
      BY <1>0, <1>2, ShownAbove
    <2> HIDE DEF f, from
    <2>2. x[p] >= x[f] /\ x[p] + w[p] <= x[f] + w[f] /\ w[p] > 0
      BY <2>1
    <2>3. v[p].x = x[p] /\ v[p].width = w[p] /\ v[f].x = x[f] /\ v[f].width = w[f]
      BY <1>1, <1>2, <2>1
    <2> QED
      BY <2>2, <2>3 DEF Inside, f
  <1>3. ASSUME NEW p \in DOMAIN v \ {<<>>}, p \notin Shown(t, w)
        PROVE  /\ v[p].width > 0 /\ Inside(v[p], v[Front(p)])
               /\ \A q \in Shown(t, w) : q # <<>> /\ Front(q) = Front(p) => Apart(v[p], v[q])
    <2> DEFINE f == Front(p)
    <2>1. f \in Crowded(t, z, b, w) /\ f \in Shown(t, w) /\ p = PlusOf(f)
      BY <1>3, DrawnPaths
    <2>2. v[p].x = x[f] + w[f] - SumBelow(t, w, f) - 1 /\ v[p].width = 1 /\ v[f].x = x[f] /\ v[f].width = w[f]
      BY <1>0, <1>1, <2>1 DEF IsPicture
    <2>3. IsPrefix(z, f) /\ HasCombined(t, f, w[f], b) /\ f \in DOMAIN t /\ w[f] > 0
      BY <2>1 DEF Crowded, Shown
    <2>4. SumBelow(t, w, f) \in Nat /\ SumBelow(t, w, f) <= w[f] - 1
      BY <1>0, <2>3, WidthsBelow DEF SumBelow
    <2>5. x[f] \in Int /\ w[f] \in Nat
      BY <1>0, <2>3, LeftIs, SceneIs
    <2>6. ASSUME NEW q \in Shown(t, w), q # <<>>, Front(q) = f PROVE Apart(v[p], v[q])
      <3> DEFINE from == SumFunctionOnSet(w, FromHere(t, q))
      <3>1. x[q] = x[Front(q)] + w[Front(q)] - from /\ from \in Nat /\ from <= SumBelow(t, w, Front(q))
        <4>1. IsPrefix(z, Front(q))
          BY <2>3, <2>6
        <4> QED
          BY <1>0, <2>6, <4>1, ShownAbove
      <3> HIDE DEF f, from
      <3>2. x[q] = x[f] + w[f] - from /\ from <= SumBelow(t, w, f) /\ from \in Nat
        BY <2>6, <3>1
      <3>3. v[q].x = x[q]
        BY <1>1, <2>6
      <3>4. v[p].x + v[p].width <= v[q].x
        BY <2>2, <2>4, <2>5, <3>2, <3>3
      <3> QED
        BY <3>4 DEF Apart
    <2> HIDE DEF f
    <2>7. v[p].x >= v[f].x /\ v[p].x + v[p].width <= v[f].x + v[f].width
      BY <2>2, <2>4, <2>5
    <2>8. v[p].width > 0
      BY <2>2
    <2> QED
      BY <2>6, <2>7, <2>8 DEF Inside, f
  <1>4. ASSUME NEW p \in DOMAIN v \ {<<>>}, NEW q \in FramesOf(v, Front(p)) \ {p}
        PROVE  Apart(v[p], v[q])
    <2>1. Front(p) \in Shown(t, w) /\ Front(p) \in DOMAIN v
      BY DrawnPaths
    <2>2. q \in DOMAIN v \ {<<>>} /\ Front(q) = Front(p) /\ p # q
      BY <2>1, DrawnPaths
    <2>3. CASE p \in Shown(t, w) /\ q \in Shown(t, w)
      <3>1. x[p] + w[p] <= x[q] \/ x[q] + w[q] <= x[p]
        BY <1>0, <2>2, <2>3, SiblingsApart
      <3>2. v[p].x = x[p] /\ v[p].width = w[p] /\ v[q].x = x[q] /\ v[q].width = w[q]
        BY <1>1, <2>3
      <3> QED
        BY <3>1, <3>2 DEF Apart
    <2>4. CASE p \notin Shown(t, w) /\ q \in Shown(t, w)
      BY <1>3, <2>2, <2>4
    <2>5. CASE p \in Shown(t, w) /\ q \notin Shown(t, w)
      <3>1. Apart(v[q], v[p])
        BY <1>3, <2>2, <2>5
      <3> QED
        BY <3>1 DEF Apart
    <2>6. CASE p \notin Shown(t, w) /\ q \notin Shown(t, w)
      <3>1. p = PlusOf(Front(p)) /\ q = PlusOf(Front(q))
        BY <2>2, <2>6, DrawnPaths
      <3> QED
        BY <2>2, <3>1
    <2> QED
      BY <2>3, <2>4, <2>5, <2>6
  <1>5. \A p \in DOMAIN v \ {<<>>} : Front(p) \in DOMAIN v
    BY DrawnPaths
  <1> QED
    BY <1>2, <1>3, <1>4, <1>5

Listed(v, p) == \E q \in DOMAIN v, i \in DOMAIN p : Contains(v[q].frames, SubSeq(p, 1, i))

LEMMA ListedAbove ==
    ASSUME NEW v, NEW p \in Seq(Names), p # <<>>, Listed(v, Front(p))
    PROVE  Listed(v, p)
  <1>1. /\ Front(p) \in Seq(Names) /\ Len(Front(p)) = Len(p) - 1 /\ Len(p) \in Nat \ {0}
        /\ \A i \in 1 .. (Len(p) - 1) : Front(p)[i] = p[i]
    BY FrontAndLast
  <1>2. DOMAIN p = 1 .. Len(p) /\ DOMAIN Front(p) = 1 .. (Len(p) - 1)
    BY <1>1, LenProperties
  <1>3. PICK q \in DOMAIN v, i \in 1 .. (Len(p) - 1) : Contains(v[q].frames, SubSeq(Front(p), 1, i))
    BY <1>2 DEF Listed
  <1>4. i \in DOMAIN p
    BY <1>1, <1>2
  <1>5. SubSeq(Front(p), 1, i) = SubSeq(p, 1, i)
    <2>1. 1 \in Int /\ i \in Int /\ i >= 1
      BY <1>1
    <2>2. \A j \in 1 .. i : Front(p)[j] \in Names /\ p[j] \in Names /\ Front(p)[j] = p[j]
      BY <1>1, ElementOfSeq
    <2>3. /\ SubSeq(p, 1, i) \in Seq(Names) /\ Len(SubSeq(p, 1, i)) = (IF 1 <= i THEN i - 1 + 1 ELSE 0)
          /\ \A j \in 1 .. (i - 1 + 1) : SubSeq(p, 1, i)[j] = p[1 + j - 1]
      BY <2>1, <2>2, SubSeqProperties
    <2>4. /\ SubSeq(Front(p), 1, i) \in Seq(Names) /\ Len(SubSeq(Front(p), 1, i)) = (IF 1 <= i THEN i - 1 + 1 ELSE 0)
          /\ \A j \in 1 .. (i - 1 + 1) : SubSeq(Front(p), 1, i)[j] = Front(p)[1 + j - 1]
      BY <2>1, <2>2, SubSeqProperties
    <2>5. \A j \in 1 .. i : SubSeq(p, 1, i)[j] = SubSeq(Front(p), 1, i)[j]
      BY <2>1, <2>2, <2>3, <2>4
    <2> QED
      BY <2>1, <2>3, <2>4, <2>5, SeqEqual
  <1> QED
    BY <1>3, <1>4, <1>5 DEF Listed

LEMMA NoneLost ==
    ASSUME NEW v, NEW t, NEW z, NEW b, NEW w, NEW x, Drawing(v, t, z, b, w, x), b
    PROVE  \A p \in DOMAIN t : ~ IsPrefix(z, p) \/ p \in DOMAIN v \/ Listed(v, p)
  <1> DEFINE P == {p \in DOMAIN t : ~ IsPrefix(z, p) \/ p \in DOMAIN v \/ Listed(v, p)}
  <1>0. /\ Scene(t, z, b, w) /\ IsPicture(v, t, z, b, w, x) /\ IsTree(t) /\ <<>> \in DOMAIN t
        /\ z \in Seq(Names) /\ WidthAt(t, z, b, w) /\ COLS \in Nat \ {0} /\ \A p \in DOMAIN t : w[p] \in Nat
    <2>1. Scene(t, z, b, w) /\ IsPicture(v, t, z, b, w, x)
      BY DEF Drawing
    <2> QED
      BY <2>1, SceneIs DEF IsTree
  <1>1. <<>> \in P
    <2>1. <<>> \in DOMAIN v
      BY DrawnPaths
    <2> QED
      BY <1>0, <2>1
  <1>2. ASSUME NEW p \in DOMAIN t \ {<<>>}, Front(p) \in P PROVE p \in P
    <2>1. Front(p) \in DOMAIN t /\ p \in Seq(Names) /\ Front(p) \in Seq(Names) /\ p \in Children(t, Front(p))
      BY <1>0, <1>2, ChildrenOf DEF IsTree
    <2>2. CASE IsPrefix(p, z)
      <3>0. p \in DOMAIN t /\ COLS > 0
        BY <1>0
      <3>1. w[p] = COLS
        BY <1>0, <3>0, <2>2 DEF WidthAt
      <3>2. p \in Shown(t, w)
        BY <3>0, <3>1 DEF Shown
      <3> QED
        BY <3>2, DrawnPaths
    <2>3. CASE ~ IsPrefix(z, p)
      BY <2>3
    <2>4. CASE ~ IsPrefix(p, z) /\ IsPrefix(z, p)
      <3>1. IsPrefix(z, Front(p))
        BY <1>0, <2>1, <2>4, PrefixesOfFront
      <3>2. CASE Front(p) \in DOMAIN v
        <4>1. Front(p) \in Shown(t, w)
          <5> SUFFICES ASSUME Front(p) \notin Shown(t, w) PROVE FALSE
            OBVIOUS
          <5>1. Front(p) = PlusOf(Front(Front(p))) /\ Front(Front(p)) \in Shown(t, w)
            BY <3>2, DrawnPaths DEF Crowded
          <5>2. Front(Front(p)) \in Seq(Names)
            BY <5>1, DrawnPaths
          <5> QED
            BY <2>1, <5>1, <5>2, PlusIs
        <4>2. w[Front(p)] > 0
          BY <4>1 DEF Shown
        <4>3. CASE w[p] > 0
          <5>1. p \in Shown(t, w)
            BY <4>3 DEF Shown
          <5> QED
            BY <5>1, DrawnPaths
        <4>4. CASE ~ w[p] > 0
          <5>1. w[p] = 0
            BY <1>0, <4>4
          <5>2. p \in Small(t, Front(p), w)
            BY <2>1, <5>1 DEF Small
          <5>3. HasCombined(t, Front(p), w[Front(p)], b)
            BY <1>0, <2>1, <3>1, <4>2, <5>2, WidthsBelow
          <5>4. Front(p) \in Crowded(t, z, b, w)
            BY <3>1, <4>1, <5>3 DEF Crowded
          <5>5. PlusOf(Front(p)) \in DOMAIN v /\ v[PlusOf(Front(p))].frames = Combined(t, Front(p), w)
            BY <1>0, <5>4 DEF IsPicture
          <5>6. Contains(v[PlusOf(Front(p))].frames, p)
            BY <1>0, <2>1, <5>2, <5>5, CombinedIs
          <5>7. SubSeq(p, 1, Len(p)) = p /\ Len(p) \in DOMAIN p
            <6>1. Len(p) \in Nat \ {0} /\ DOMAIN p = 1 .. Len(p)
              BY <2>1, EmptySeq, LenProperties
            <6> QED
              BY <2>1, <6>1, SubSeqFull
          <5>8. Listed(v, p)
            BY <5>5, <5>6, <5>7 DEF Listed
          <5> QED
            BY <5>8
        <4> QED
          BY <4>3, <4>4
      <3>3. CASE Front(p) \notin DOMAIN v
        <4>1. Listed(v, Front(p))
          BY <1>2, <3>1, <3>3
        <4>2. Listed(v, p)
          BY <1>2, <2>1, <4>1, ListedAbove
        <4> QED
          BY <4>2
      <3> QED
        BY <3>2, <3>3
    <2> QED
      BY <2>2, <2>3, <2>4
  <1>3. \A p \in DOMAIN t \ {<<>>} : Front(p) \in P => p \in P
    BY <1>2
  <1> HIDE DEF P
  <1>4. DOMAIN t \subseteq P
    BY <1>0, <1>1, <1>3, PathInduction
  <1> QED
    BY <1>4 DEF P

LEMMA RebuildFits ==
    ASSUME NEW t, IsTree(t), AddsUp(t), NEW z \in DOMAIN t, NEW b \in BOOLEAN
    PROVE  Fits(t, RebuildTree(t, z, b), z, b)
  <1>1. PICK w, x, v : w = WidthOf(t, z, b) /\ x = LeftOf(t, z, b) /\ v = RebuildTree(t, z, b)
    OBVIOUS
  <1>2. Scene(t, z, b, w)
    BY <1>1 DEF Scene
  <1>3. Drawing(v, t, z, b, w, x)
    BY <1>1, <1>2, RebuildDraws DEF Drawing
  <1>4. \A p \in DOMAIN v \ {<<>>} :
              /\ Front(p) \in DOMAIN v
              /\ v[p].width > 0
              /\ Inside(v[p], v[Front(p)])
              /\ \A q \in FramesOf(v, Front(p)) \ {p} : Apart(v[p], v[q])
    BY <1>3, FramesInside
  <1>5. b => \A p \in DOMAIN t : ~ IsPrefix(z, p) \/ p \in DOMAIN v \/ Listed(v, p)
    BY <1>3, NoneLost
  <1>6. Fits(t, v, z, b)
    BY <1>4, <1>5 DEF Fits, Listed
  <1> QED
    BY <1>1, <1>6

(***************************************************************************)
(* The browser, which always shows such a drawing of the tree.             *)
(***************************************************************************)

\* What the keys find in the tree on the screen.
IsView(v, t) ==
    /\ IsFiniteSet(DOMAIN v) /\ <<>> \in DOMAIN v
    /\ \A p \in DOMAIN v : p \in Seq(Nat) /\ v[p].x \in Int
    /\ \A p \in DOMAIN v \ {<<>>} : Front(p) \in DOMAIN v /\ Front(p) \in DOMAIN t
    /\ \A p \in DOMAIN v : IF IsPlus(p) THEN v[p].frames \in Seq(DOMAIN t) \ {<<>>} ELSE p \in DOMAIN t
    /\ v[<<>>].count = t[<<>>].count

LEMMA RebuildViews ==
    ASSUME NEW t, IsTree(t), AddsUp(t), NEW z \in DOMAIN t, NEW b \in BOOLEAN
    PROVE  IsView(RebuildTree(t, z, b), t) /\ z \in DOMAIN RebuildTree(t, z, b)
  <1>1. PICK w, x, v : w = WidthOf(t, z, b) /\ x = LeftOf(t, z, b) /\ v = RebuildTree(t, z, b)
    OBVIOUS
  <1>2. Scene(t, z, b, w)
    BY <1>1 DEF Scene
  <1>3. Drawing(v, t, z, b, w, x) /\ IsPicture(v, t, z, b, w, x)
    BY <1>1, <1>2, RebuildDraws DEF Drawing
  <1>4. /\ IsFiniteSet(DOMAIN t) /\ DOMAIN w = DOMAIN t /\ (\A p \in DOMAIN t : w[p] \in Nat)
        /\ \A p \in DOMAIN t : x[p] \in Int
    BY <1>1, <1>2, SceneIs, LeftIs DEF IsTree
  <1>5. Shown(t, w) \in SUBSET DOMAIN t /\ Crowded(t, z, b, w) \in SUBSET DOMAIN t
    BY DEF Shown, Crowded
  <1>6. IsFiniteSet(DOMAIN v)
    <2> DEFINE plus == {PlusOf(p) : p \in Crowded(t, z, b, w)}
    <2>1. IsFiniteSet(Shown(t, w)) /\ IsFiniteSet(Crowded(t, z, b, w))
      BY <1>4, <1>5, FS_Subset
    <2>2. IsFiniteSet(plus)
      <3> DEFINE f == [p \in Crowded(t, z, b, w) |-> PlusOf(p)]
      <3>1. f \in Surjection(Crowded(t, z, b, w), plus)
        BY DEF Surjection
      <3> HIDE DEF f, plus
      <3> QED
        BY <2>1, <3>1, FS_Surjection
    <2> HIDE DEF plus
    <2>3. DOMAIN v = Shown(t, w) \cup plus
      BY <1>3 DEF IsPicture, plus
    <2> QED
      BY <2>1, <2>2, <2>3, FS_Union
  <1>7. ASSUME NEW p \in Crowded(t, z, b, w)
        PROVE  v[PlusOf(p)].x \in Int /\ v[PlusOf(p)].frames \in Seq(DOMAIN t) \ {<<>>}
    <2>1. p \in DOMAIN t /\ IsPrefix(z, p) /\ w[p] > 0 /\ HasCombined(t, p, w[p], b)
      BY DEF Crowded, Shown
    <2>2. SumBelow(t, w, p) \in Nat /\ Small(t, p, w) # {}
      BY <1>2, <2>1, WidthsBelow DEF SumBelow
    <2>3. v[PlusOf(p)].x = x[p] + w[p] - SumBelow(t, w, p) - 1 /\ v[PlusOf(p)].frames = Combined(t, p, w)
      BY <1>3 DEF IsPicture
    <2>4. v[PlusOf(p)].x \in Int
      <3>1. x[p] \in Int /\ w[p] \in Nat
        BY <1>4, <2>1
      <3> QED
        BY <2>2, <2>3, <3>1
    <2>5. Combined(t, p, w) \in Seq(Small(t, p, w)) \ {<<>>}
      BY <1>2, <2>1, <2>2, CombinedIs DEF Scene
    <2>6. Small(t, p, w) \subseteq DOMAIN t
      BY DEF Small, Children
    <2> QED
      BY <2>3, <2>4, <2>5, <2>6, SeqMonotonic
  <1>8. ASSUME NEW p \in Shown(t, w)
        PROVE  v[p].x \in Int /\ ~ IsPlus(p) /\ p \in DOMAIN t /\ p \in DOMAIN v
    <2>1. v[p].x = x[p] /\ p \in DOMAIN t /\ p \in Seq(Names) /\ p \in DOMAIN v
      BY <1>3, <1>5, DrawnPaths DEF IsPicture
    <2> QED
      BY <1>4, <2>1, PlusIs
  <1>9. \A p \in DOMAIN v : p \in Seq(Nat) /\ v[p].x \in Int
    BY <1>3, <1>7, <1>8, DrawnPaths
  <1>10. \A p \in DOMAIN v \ {<<>>} : Front(p) \in DOMAIN v /\ Front(p) \in DOMAIN t
    BY <1>3, <1>8, DrawnPaths
  <1>11. \A p \in DOMAIN v : IF IsPlus(p) THEN v[p].frames \in Seq(DOMAIN t) \ {<<>>} ELSE p \in DOMAIN t
    <2>1. ASSUME NEW p \in DOMAIN v, p \notin Shown(t, w)
          PROVE  IsPlus(p) /\ v[p].frames \in Seq(DOMAIN t) \ {<<>>}
      <3>1. IsPlus(p) /\ Front(p) \in Crowded(t, z, b, w) /\ p = PlusOf(Front(p))
        BY <1>3, <2>1, DrawnPaths
      <3>2. v[PlusOf(Front(p))].frames \in Seq(DOMAIN t) \ {<<>>}
        BY <1>7, <3>1
      <3> QED
        BY <3>1, <3>2
    <2> QED
      BY <1>8, <2>1
  <1>12. <<>> \in DOMAIN v /\ z \in DOMAIN v /\ v[<<>>].count = t[<<>>].count
    <2>1. z \in Shown(t, w) /\ <<>> \in Shown(t, w)
      BY <1>3, DrawnPaths
    <2> QED
      BY <1>3, <1>8, <2>1 DEF IsPicture
  <1>13. IsView(v, t) /\ z \in DOMAIN v
    BY <1>6, <1>9, <1>10, <1>11, <1>12 DEF IsView
  <1> QED
    BY <1>1, <1>13

\* KeyUp goes to one of the frames above the cursor.
LEMMA Rightmost ==
    ASSUME NEW v, NEW t, IsView(v, t), NEW S \in SUBSET DOMAIN v, S # {}
    PROVE  \E q \in S : \A r \in S : v[r].x <= v[q].x
  <1>1. IsFiniteSet(S) /\ \A r \in DOMAIN v : v[r].x \in Int
    BY FS_Subset DEF IsView
  <1> DEFINE Up(q) == {r \in S : v[r].x > v[q].x}
             T == {Up(q) : q \in S}
  <1>2. T \subseteq SUBSET S /\ T # {}
    OBVIOUS
  <1>3. PICK s \in T : \A u \in T : Cardinality(s) <= Cardinality(u)
    <2> HIDE DEF T
    <2> QED
      BY <1>1, <1>2, SmallestSet
  <1>4. PICK q \in S : s = Up(q)
    BY <1>3
  <1>5. SUFFICES ASSUME NEW r \in S, ~ v[r].x <= v[q].x PROVE FALSE
    BY <1>4
  <1>6. r \in Up(q) /\ Up(r) \subseteq Up(q) \ {r} /\ Up(r) \in T
    BY <1>1, <1>5
  <1>7. IsFiniteSet(Up(q)) /\ IsFiniteSet(Up(q) \ {r}) /\ IsFiniteSet(Up(r))
    BY <1>1, FS_Subset
  <1> HIDE DEF Up, T
  <1>8. Cardinality(Up(r)) <= Cardinality(Up(q) \ {r}) /\ Cardinality(Up(q) \ {r}) = Cardinality(Up(q)) - 1
    BY <1>6, <1>7, FS_Subset, FS_RemoveElement
  <1>9. Cardinality(Up(q)) \in Nat /\ Cardinality(Up(r)) \in Nat
    BY <1>7, FS_CardinalityType
  <1> QED
    BY <1>3, <1>4, <1>6, <1>8, <1>9

SelectHolds ==
    /\ IsPlus(cursor)
    /\ select.from \in Int /\ select.to \in Int /\ select.current \in Int
    /\ 0 <= select.from /\ select.from <= select.current
    /\ select.current < select.to /\ select.to <= Len(vft[cursor].frames)

OnScreen ==
    /\ vft = RebuildTree(tree, zoom, combining)
    /\ zoom \in DOMAIN tree
    /\ cursor \in DOMAIN vft

CrashHasReason == vft[<<>>].count = 0 \/ \E p \in DOMAIN tree : tree[p].count = 0

\* What is on the screen is always the drawing of the tree from the zoomed frame, the
\* cursor is one of its frames, and a select window is open over a combined one.
BrowseInv ==
    /\ combining \in BOOLEAN /\ startLevel \in Int
    /\ step = "browse" => rest = <<>>
    /\ step # "browse" => window = "none" /\ vft[<<>>].count = 0 /\ zoom = <<>> /\ cursor = <<>> /\ combining = TRUE
    /\ Browsing => OnScreen
    /\ window = "select" => SelectHolds
    /\ window = "crashed" => CrashHasReason

BrowserInv == CountsInv /\ BrowseInv

LEMMA NothingCarried ==
    ASSUME CountsInv, rest = <<>>
    PROVE  IsTree(tree) /\ AddsUp(tree) /\ <<>> \in DOMAIN tree
  <1>1. IsTree(tree) /\ CountsAddUp
    BY DEF CountsInv, TreeInv, TreeTyped
  <1>2. \A p \in DOMAIN tree : tree[p].count \in Nat /\ tree[p].base \in Nat
                               /\ SumFunctionOnSet(Counts(tree), Children(tree, p)) \in Nat
    <2>1. ASSUME NEW p \in DOMAIN tree PROVE Natural(Counts(tree), Children(tree, p))
      <3>1. Children(tree, p) \in SUBSET DOMAIN tree /\ IsFiniteSet(Children(tree, p))
        BY <1>1, ChildrenOf
      <3> QED
        BY <1>1, <3>1 DEF IsTree, Natural, Counts
    <2> QED
      BY <1>1, <2>1, SumNatural DEF IsTree
  <1>3. AddsUp(tree)
    BY <1>1, <1>2 DEF CountsAddUp, AddsUp
  <1> QED
    BY <1>1, <1>3 DEF IsTree

LEMMA ScreenIs ==
    ASSUME CountsInv, rest = <<>>, OnScreen, combining \in BOOLEAN
    PROVE  IsView(vft, tree)
  BY NothingCarried, RebuildViews DEF OnScreen

LEMMA BrowseInitial == Init => BrowseInv
  <1> SUFFICES ASSUME Init PROVE BrowseInv
    OBVIOUS
  <1>1. BrowserInit /\ step = "parse"
    BY DEF Init
  <1>2. /\ window = "none" /\ vft[<<>>].count = 0 /\ zoom = <<>> /\ cursor = <<>>
        /\ combining \in BOOLEAN /\ combining = TRUE /\ startLevel \in Int
    BY <1>1 DEF BrowserInit
  <1> QED
    BY <1>1, <1>2 DEF BrowseInv, Browsing

\* rebuild_tree keeps the drawing and its cursor together.
LEMMA ZoomHolds ==
    ASSUME CountsInv, rest = <<>>, NEW z \in DOMAIN tree, NEW b \in BOOLEAN, ZoomTo(z, b), UNCHANGED tree
    PROVE  OnScreen' /\ combining' \in BOOLEAN
  <1>1. vft' = RebuildTree(tree, z, b) /\ zoom' = z /\ cursor' = z /\ combining' = b /\ tree' = tree
    BY DEF ZoomTo
  <1>2. z \in DOMAIN RebuildTree(tree, z, b)
    BY NothingCarried, RebuildViews
  <1>3. RebuildTree(tree', zoom', combining') = RebuildTree(tree, z, b)
    BY <1>1
  <1>4. OnScreen' <=> vft' = RebuildTree(tree', zoom', combining') /\ zoom' \in DOMAIN tree' /\ cursor' \in DOMAIN vft'
    BY DEF OnScreen, RebuildTree
  <1> QED
    BY <1>1, <1>2, <1>3, <1>4

\* Keys that only move the cursor.
LEMMA CursorMoves ==
    ASSUME OnScreen, UNCHANGED <<tree, vft, zoom, combining>>, cursor' \in DOMAIN vft
    PROVE  OnScreen'
  <1>1. OnScreen' <=> vft' = RebuildTree(tree, zoom, combining)' /\ zoom' \in DOMAIN tree' /\ cursor' \in DOMAIN vft'
    BY DEF OnScreen
  <1>2. RebuildTree(tree, zoom, combining)' = RebuildTree(tree, zoom, combining)
    BY DEF RebuildTree, WidthOf, LeftOf, Children, ChildWidths, HasCombined, HasSmall, Widths, Small, Combined, PlaceIn, Counts
  <1> QED
    BY <1>1, <1>2 DEF OnScreen

\* No key takes the browser out of its drawing, whatever the shape of the tree.
LEMMA KeysHold ==
    ASSUME CountsInv, BrowseInv, step = "browse", Key, UNCHANGED <<treeVars, step>>
    PROVE  BrowseInv'
  <1>1. /\ combining \in BOOLEAN /\ startLevel \in Int /\ rest = <<>>
        /\ tree' = tree /\ rest' = rest /\ step' = step
    BY DEF BrowseInv, treeVars
  <1>2. ASSUME window' \in {"none", "graph"}, combining' \in BOOLEAN, startLevel' \in Int,
               window' = "graph" => OnScreen'
        PROVE  BrowseInv'
    BY <1>1, <1>2 DEF BrowseInv, Browsing
  <1>3. ASSUME window \in {"graph", "select"}
        PROVE  /\ OnScreen /\ IsView(vft, tree) /\ IsTree(tree) /\ <<>> \in DOMAIN tree
               /\ zoom \in DOMAIN tree /\ cursor \in DOMAIN vft /\ cursor \in Seq(Nat)
    <2>1. OnScreen
      BY <1>3 DEF BrowseInv, Browsing
    <2>2. IsView(vft, tree) /\ IsTree(tree) /\ <<>> \in DOMAIN tree
      BY <1>1, <2>1, ScreenIs, NothingCarried
    <2> QED
      BY <2>1, <2>2 DEF OnScreen, IsView
  <1>4. ASSUME NEW z \in DOMAIN tree, NEW b \in BOOLEAN, ZoomTo(z, b), window' = "graph", UNCHANGED startLevel
        PROVE  BrowseInv'
    <2>1. OnScreen' /\ combining' \in BOOLEAN
      BY <1>1, <1>4, ZoomHolds
    <2> QED
      BY <1>1, <1>2, <1>4, <2>1
  <1>5. ASSUME window = "graph", cursor' \in DOMAIN vft, UNCHANGED <<window, vft, zoom, combining>>, startLevel' \in Int
        PROVE  BrowseInv'
    <2>1. OnScreen'
      BY <1>1, <1>3, <1>5, CursorMoves
    <2> QED
      BY <1>1, <1>2, <1>5, <2>1
  <1>6. CASE Quit
    BY <1>1, <1>2, <1>6 DEF Quit
  <1>7. CASE SwitchCombined
    <2>1. window = "graph" /\ window' = window /\ startLevel' = startLevel /\ ZoomTo(zoom, ~combining)
      BY <1>7 DEF SwitchCombined, InGraph
    <2>2. zoom \in DOMAIN tree /\ (~combining) \in BOOLEAN
      BY <1>3, <2>1
    <2> QED
      BY <1>1, <1>4, <2>1, <2>2
  <1>8. CASE KeyDown
    <2>1. /\ window = "graph" /\ UNCHANGED <<window, vft, zoom, combining>>
          /\ cursor' = IF cursor = <<>> THEN cursor ELSE Front(cursor)
          /\ startLevel' \in {startLevel - 1, startLevel}
      BY <1>8 DEF KeyDown, InGraph
    <2>2. cursor' \in DOMAIN vft
      BY <1>3, <2>1 DEF IsView
    <2> QED
      BY <1>1, <1>5, <2>1, <2>2
  <1>9. CASE KeyUp
    <2> DEFINE S == FramesOf(vft, cursor)
    <2>1. /\ window = "graph" /\ UNCHANGED <<window, vft, zoom, combining>>
          /\ cursor' = IF S = {} THEN cursor ELSE CHOOSE q \in S : \A r \in S : vft[r].x <= vft[q].x
          /\ startLevel' \in {startLevel + 1, startLevel}
      BY <1>9 DEF KeyUp, InGraph
    <2>2. S \in SUBSET DOMAIN vft
      BY DEF FramesOf
    <2> HIDE DEF S
    <2>3. CASE S = {}
      BY <1>1, <1>3, <1>5, <2>1, <2>3
    <2>4. CASE S # {}
      <3>1. \E q \in S : \A r \in S : vft[r].x <= vft[q].x
        BY <1>3, <2>1, <2>2, <2>4, Rightmost
      <3>2. cursor' \in S
        BY <2>1, <2>4, <3>1
      <3> QED
        BY <1>1, <1>5, <2>1, <2>2, <3>2
    <2> QED
      BY <2>3, <2>4
  <1>10. CASE KeyLeft
    <2>1. window = "graph" /\ UNCHANGED <<window, vft, zoom, combining, startLevel>> /\ cursor' \in LeftFrame(vft, cursor)
      BY <1>10 DEF KeyLeft, InGraph
    <2>2. cursor' \in DOMAIN vft
      BY <2>1 DEF LeftFrame
    <2> QED
      BY <1>1, <1>5, <2>1, <2>2
  <1>11. CASE KeyRight
    <2>1. window = "graph" /\ UNCHANGED <<window, vft, zoom, combining, startLevel>> /\ cursor' \in RightFrame(vft, cursor)
      BY <1>11 DEF KeyRight, InGraph
    <2>2. cursor' \in DOMAIN vft
      BY <2>1 DEF RightFrame
    <2> QED
      BY <1>1, <1>5, <2>1, <2>2
  <1>12. CASE EnterFrame
    <2>1. window = "graph" /\ window' = window /\ startLevel' = startLevel /\ ~ IsPlus(cursor) /\ ZoomTo(cursor, combining)
      BY <1>12 DEF EnterFrame, InGraph
    <2>2. cursor \in DOMAIN tree
      BY <1>3, <2>1 DEF IsView
    <2> QED
      BY <1>1, <1>4, <2>1, <2>2
  <1>13. CASE EnterCombined
    <2>1. /\ window = "graph" /\ IsPlus(cursor) /\ window' = "select"
          /\ UNCHANGED <<vft, zoom, combining, cursor, startLevel>>
          /\ select'.from = 0 /\ select'.current = 0
          /\ select'.to = MinOf(Len(vft[cursor].frames) + 2, LINES) - 2
      BY <1>13 DEF EnterCombined, InGraph
    <2>2. Len(vft[cursor].frames) \in Nat \ {0}
      <3>1. vft[cursor].frames \in Seq(DOMAIN tree) /\ vft[cursor].frames # <<>>
        BY <1>3, <2>1 DEF IsView
      <3> QED
        BY <3>1, EmptySeq, LenProperties
    <2>3. /\ select'.from \in Int /\ select'.current \in Int /\ select'.to \in Int /\ 0 <= select'.from
          /\ select'.from <= select'.current /\ select'.current < select'.to
          /\ select'.to <= Len(vft[cursor].frames)
      BY <2>1, <2>2, LINESAssumption DEF MinOf
    <2>4. SelectHolds'
      BY <2>1, <2>3 DEF SelectHolds, IsPlus
    <2>5. OnScreen'
      BY <1>1, <1>3, <2>1, CursorMoves
    <2> QED
      BY <1>1, <2>1, <2>4, <2>5 DEF BrowseInv, Browsing
  <1>14. CASE Reset
    <2>1. window = "graph" /\ window' = window /\ startLevel' = startLevel /\ ZoomTo(<<>>, combining)
      BY <1>14 DEF Reset, InGraph
    <2>2. <<>> \in DOMAIN tree
      BY <1>3, <2>1
    <2> QED
      BY <1>1, <1>4, <2>1, <2>2
  <1>15. CASE SelectQuit
    <2>1. window = "select" /\ window' = "graph" /\ UNCHANGED <<vft, zoom, combining, cursor, startLevel>>
      BY <1>15 DEF SelectQuit, InSelect
    <2>2. OnScreen'
      BY <1>1, <1>3, <2>1, CursorMoves
    <2> QED
      BY <1>1, <1>2, <2>1, <2>2
  <1>16. ASSUME window = "select"
         PROVE  /\ SelectHolds /\ Len(vft[cursor].frames) \in Nat /\ vft[cursor].frames \in Seq(DOMAIN tree)
    <2>1. SelectHolds
      BY <1>16 DEF BrowseInv
    <2>2. vft[cursor].frames \in Seq(DOMAIN tree)
      BY <1>3, <1>16, <2>1 DEF IsView, SelectHolds
    <2> QED
      BY <2>1, <2>2, LenProperties
  <1>17. ASSUME window = "select", UNCHANGED <<window, vft, zoom, combining, cursor, startLevel>>,
                select'.from \in Int, select'.to \in Int, select'.current \in Int,
                0 <= select'.from, select'.from <= select'.current,
                select'.current < select'.to, select'.to <= Len(vft[cursor].frames)
         PROVE  BrowseInv'
    <2>1. SelectHolds'
      BY <1>16, <1>17 DEF SelectHolds, IsPlus
    <2>2. OnScreen'
      BY <1>1, <1>3, <1>17, CursorMoves
    <2> QED
      BY <1>1, <1>17, <2>1, <2>2 DEF BrowseInv, Browsing
  <1>18. CASE SelectDown
    <2> DEFINE next == MinOf(select.current + 1, Len(vft[cursor].frames) - 1)
               scroll == IF next >= select.to THEN 1 ELSE 0
    <2>1. /\ window = "select" /\ UNCHANGED <<window, vft, zoom, combining, cursor, startLevel>>
          /\ select'.from = select.from + scroll /\ select'.to = select.to + scroll /\ select'.current = next
      BY <1>18 DEF SelectDown, InSelect
    <2>2. /\ next \in Int /\ select.from + scroll \in Int /\ select.to + scroll \in Int
          /\ 0 <= select.from + scroll /\ select.from + scroll <= next /\ next < select.to + scroll
          /\ select.to + scroll <= Len(vft[cursor].frames)
      <3>1. PICK n \in Nat : n = Len(vft[cursor].frames)
        BY <1>16, <2>1
      <3>2. /\ select.from \in Int /\ select.to \in Int /\ select.current \in Int /\ 0 <= select.from
            /\ select.from <= select.current /\ select.current < select.to /\ select.to <= n
        BY <1>16, <2>1, <3>1 DEF SelectHolds
      <3>3. next = IF select.current + 1 < n - 1 THEN select.current + 1 ELSE n - 1
        BY <3>1 DEF MinOf
      <3> HIDE DEF next
      <3>4. next \in Int /\ next <= select.current + 1 /\ select.current <= next /\ next <= n - 1
        BY <3>1, <3>2, <3>3
      <3>5. CASE next >= select.to
        BY <3>1, <3>2, <3>4, <3>5
      <3>6. CASE ~ next >= select.to
        BY <3>1, <3>2, <3>4, <3>6
      <3> QED
        BY <3>5, <3>6
    <2> HIDE DEF next, scroll
    <2> QED
      BY <1>17, <2>1, <2>2
  <1>19. CASE SelectUp
    <2> DEFINE next == IF select.current > 0 THEN select.current - 1 ELSE 0
               scroll == IF next < select.from THEN 1 ELSE 0
    <2>1. /\ window = "select" /\ UNCHANGED <<window, vft, zoom, combining, cursor, startLevel>>
          /\ select'.from = select.from - scroll /\ select'.to = select.to - scroll /\ select'.current = next
      BY <1>19 DEF SelectUp, InSelect
    <2>2. /\ next \in Int /\ select.from - scroll \in Int /\ select.to - scroll \in Int
          /\ 0 <= select.from - scroll /\ select.from - scroll <= next /\ next < select.to - scroll
          /\ select.to - scroll <= Len(vft[cursor].frames)
      BY <1>16, <2>1 DEF SelectHolds
    <2> HIDE DEF next, scroll
    <2> QED
      BY <1>17, <2>1, <2>2
  <1>20. CASE SelectEnter
    <2>1. /\ window = "select" /\ window' = "graph" /\ startLevel' = startLevel
          /\ ZoomTo(vft[cursor].frames[select.current + 1], combining)
      BY <1>20 DEF SelectEnter, InSelect
    <2>2. vft[cursor].frames[select.current + 1] \in DOMAIN tree
      <3>1. select.current + 1 \in 1 .. Len(vft[cursor].frames)
        BY <1>16, <2>1 DEF SelectHolds
      <3> QED
        BY <1>16, <2>1, <3>1, ElementOfSeq
    <2>3. PICK z \in DOMAIN tree : z = vft[cursor].frames[select.current + 1]
      BY <2>2
    <2>4. ZoomTo(z, combining)
      BY <2>1, <2>3
    <2> QED
      BY <1>1, <1>4, <2>1, <2>4
  <1> QED
    BY <1>6, <1>7, <1>8, <1>9, <1>10, <1>11, <1>12, <1>13, <1>14, <1>15, <1>18, <1>19, <1>20 DEF Key

\* The status line that could not be written had a count of zero to divide by.
LEMMA CrashHolds ==
    ASSUME CountsInv, BrowseInv, step = "browse", Crash, UNCHANGED <<treeVars, step>>
    PROVE  BrowseInv'
  <1>1. /\ window \in {"graph", "select"} /\ window' = "crashed" /\ ~ HasStatus
        /\ UNCHANGED <<vft, zoom, combining, cursor, startLevel>>
    BY DEF Crash
  <1>2. OnScreen /\ combining \in BOOLEAN /\ startLevel \in Int /\ rest = <<>>
    BY <1>1 DEF BrowseInv, Browsing
  <1>3. IsView(vft, tree) /\ <<>> \in DOMAIN tree /\ cursor \in DOMAIN vft
    BY <1>2, ScreenIs, NothingCarried DEF OnScreen
  <1>4. \E p \in DOMAIN tree : tree[p].count = 0
    BY <1>1, <1>3 DEF HasStatus, IsView
  <1>5. CrashHasReason'
    BY <1>1, <1>4 DEF CrashHasReason, treeVars
  <1> QED
    BY <1>1, <1>2, <1>5 DEF BrowseInv, Browsing, treeVars

LEMMA BrowseStep == BrowserInv /\ [Next]_vars => BrowserInv'
  <1> SUFFICES ASSUME BrowserInv, [Next]_vars PROVE BrowserInv'
    OBVIOUS
  <1>1. CountsInv /\ BrowseInv /\ CountsInv'
    BY CountsStep DEF BrowserInv
  <1> SUFFICES BrowseInv'
    BY <1>1 DEF BrowserInv
  <1>2. ASSUME step # "browse", step' # "browse", UNCHANGED browserVars PROVE BrowseInv'
    BY <1>1, <1>2 DEF BrowseInv, browserVars, Browsing
  <1>3. CASE Parse
    BY <1>2, <1>3 DEF Parse
  <1>4. CASE ParseFails
    BY <1>2, <1>4 DEF ParseFails
  <1>5. CASE ParseEnds
    BY <1>2, <1>5 DEF ParseEnds
  <1>6. CASE Add
    BY <1>2, <1>6 DEF Add
  <1>7. CASE Insert
    BY <1>2, <1>7 DEF Insert
  <1>8. CASE DumpTree
    BY <1>2, <1>8 DEF DumpTree, AllAdded
  <1>9. CASE Browse
    <2>1. /\ step = "add" /\ rest = <<>> /\ step' = "browse" /\ Display(palette) /\ tree' = tree /\ rest' = rest
      BY <1>9 DEF Browse, AllAdded, treeVars
    <2>2. /\ window = "none" /\ vft[<<>>].count = 0 /\ zoom = <<>> /\ cursor = <<>>
          /\ combining \in BOOLEAN /\ combining = TRUE /\ startLevel \in Int
          /\ UNCHANGED <<zoom, combining, cursor, startLevel>>
      BY <1>1, <2>1 DEF BrowseInv, Display
    <2>3. CASE PaletteKnown(palette)
      <3>1. window' = "graph" /\ vft' = RebuildTree(tree, <<>>, TRUE)
        BY <2>1, <2>3 DEF Display
      <3>2. PICK b \in BOOLEAN : b = TRUE
        OBVIOUS
      <3>3. <<>> \in DOMAIN tree /\ <<>> \in DOMAIN RebuildTree(tree, <<>>, b)
        BY <1>1, <2>1, NothingCarried, RebuildViews
      <3>4. vft' = RebuildTree(tree, <<>>, b) /\ combining = b
        BY <2>2, <3>1, <3>2
      <3>5. OnScreen'
        BY <2>1, <2>2, <3>3, <3>4 DEF OnScreen
      <3> QED
        BY <2>1, <2>2, <3>1, <3>5 DEF BrowseInv, Browsing
    <2>4. CASE ~ PaletteKnown(palette)
      <3>1. window' = "crashed" /\ vft' = vft
        BY <2>1, <2>4 DEF Display
      <3>2. CrashHasReason'
        BY <2>2, <3>1 DEF CrashHasReason
      <3> QED
        BY <2>1, <2>2, <3>1, <3>2 DEF BrowseInv, Browsing
    <2> QED
      BY <2>3, <2>4
  <1>10. CASE Turn
    BY <1>1, <1>10, KeysHold, CrashHolds DEF Turn
  <1>11. CASE UNCHANGED vars
    <2>1. /\ UNCHANGED <<step, tree, rest, window, vft, zoom, combining, cursor, startLevel, select>>
      BY <1>11 DEF vars, treeVars, browserVars
    <2>2. ASSUME Browsing PROVE OnScreen'
      BY <1>1, <2>1, <2>2, CursorMoves DEF BrowseInv, OnScreen
    <2> QED
      BY <1>1, <2>1, <2>2 DEF BrowseInv, Browsing, SelectHolds, IsPlus, CrashHasReason
  <1> QED
    BY <1>3, <1>4, <1>5, <1>6, <1>7, <1>8, <1>9, <1>10, <1>11 DEF Next, Done

\* Walking up and down moves the level at the bottom along with the cursor.
LEMMA WalksInView ==
    ASSUME BrowserInv, Browsing, InView(startLevel, cursor), KeyUp \/ KeyDown
    PROVE  InView(startLevel', cursor')
  <1>1. OnScreen /\ combining \in BOOLEAN /\ startLevel \in Int /\ step = "browse" /\ rest = <<>> /\ CountsInv
    BY DEF BrowserInv, BrowseInv, Browsing
  <1>2. IsView(vft, tree) /\ cursor \in DOMAIN vft /\ cursor \in Seq(Nat) /\ Len(cursor) \in Nat
    BY <1>1, ScreenIs, LenProperties DEF OnScreen, IsView
  <1>3. Height \in Nat /\ Height >= 2
    BY LINESAssumption DEF Height
  <1>4. CASE KeyUp
    <2> DEFINE S == FramesOf(vft, cursor)
    <2>1. /\ cursor' = IF S = {} THEN cursor ELSE CHOOSE q \in S : \A r \in S : vft[r].x <= vft[q].x
          /\ startLevel' = IF Len(cursor') > startLevel + Height - 2 THEN startLevel + 1 ELSE startLevel
      BY <1>4 DEF KeyUp
    <2>2. S \in SUBSET DOMAIN vft /\ \A q \in S : Len(q) = Len(cursor) + 1
      BY DEF FramesOf
    <2> HIDE DEF S
    <2>3. Len(cursor') = Len(cursor) \/ Len(cursor') = Len(cursor) + 1
      <3>1. CASE S = {}
        BY <2>1, <3>1
      <3>2. CASE S # {}
        <4>1. \E q \in S : \A r \in S : vft[r].x <= vft[q].x
          BY <1>2, <2>2, <3>2, Rightmost
        <4>2. cursor' \in S
          BY <2>1, <3>2, <4>1
        <4> QED
          BY <2>2, <4>2
      <3> QED
        BY <3>1, <3>2
    <2>4. startLevel <= Len(cursor) /\ Len(cursor) <= startLevel + Height - 2
      BY DEF InView
    <2>5. startLevel' <= Len(cursor') /\ Len(cursor') <= startLevel' + Height - 2
      BY <1>1, <1>2, <1>3, <2>1, <2>3, <2>4
    <2> QED
      BY <2>5 DEF InView
  <1>5. CASE KeyDown
    <2>1. /\ cursor' = IF cursor = <<>> THEN cursor ELSE Front(cursor)
          /\ startLevel' = IF Len(cursor') < startLevel THEN startLevel - 1 ELSE startLevel
      BY <1>5 DEF KeyDown
    <2>2. Len(cursor') = Len(cursor) \/ Len(cursor') = Len(cursor) - 1
      BY <1>2, <2>1, FrontAndLast
    <2>3. startLevel <= Len(cursor) /\ Len(cursor) <= startLevel + Height - 2
      BY DEF InView
    <2>4. startLevel' <= Len(cursor') /\ Len(cursor') <= startLevel' + Height - 2
      BY <1>1, <1>2, <1>3, <2>1, <2>2, <2>3
    <2> QED
      BY <2>4 DEF InView
  <1> QED
    BY <1>4, <1>5

LEMMA BrowserAlways == Spec => []BrowserInv
  <1>1. Init => BrowserInv
    BY CountsInitial, BrowseInitial DEF BrowserInv
  <1> QED
    BY <1>1, BrowseStep, PTL DEF Spec

\* Whatever was profiled, whatever is zoomed in on and with or without `+' frames, what is
\* on the screen fits, and with them nothing of the tree above the zoomed frame is lost.
THEOREM ScreenAlwaysFits == Spec => []FramesFit
  <1>1. BrowserInv => FramesFit
    <2> SUFFICES ASSUME BrowserInv, Browsing PROVE Fits(tree, vft, zoom, combining)
      BY DEF FramesFit
    <2>1. OnScreen /\ combining \in BOOLEAN /\ rest = <<>> /\ CountsInv
      BY DEF BrowserInv, BrowseInv, Browsing
    <2>2. IsTree(tree) /\ AddsUp(tree)
      BY <2>1, NothingCarried
    <2>3. zoom \in DOMAIN tree /\ vft = RebuildTree(tree, zoom, combining)
      BY <2>1 DEF OnScreen
    <2>4. Fits(tree, RebuildTree(tree, zoom, combining), zoom, combining)
      BY <2>1, <2>2, <2>3, RebuildFits
    <2> QED
      BY <2>3, <2>4
  <1> QED
    BY <1>1, BrowserAlways, PTL

\* Whatever the keys, the cursor is on the screen and the chosen line in its window.
THEOREM CursorAlwaysHolds == Spec => []CursorHolds
  <1>1. BrowserInv => CursorHolds
    <2> SUFFICES ASSUME BrowserInv PROVE CursorHolds
      OBVIOUS
    <2>1. Browsing => cursor \in DOMAIN vft /\ zoom \in DOMAIN tree
      BY DEF BrowserInv, BrowseInv, OnScreen
    <2>2. ASSUME window = "select" PROVE SelectHolds /\ vft[cursor].frames # <<>>
      <3>1. OnScreen /\ SelectHolds /\ combining \in BOOLEAN /\ rest = <<>> /\ CountsInv
        BY <2>2 DEF BrowserInv, BrowseInv, Browsing
      <3>2. IsView(vft, tree) /\ cursor \in DOMAIN vft /\ IsPlus(cursor)
        BY <3>1, ScreenIs DEF OnScreen, SelectHolds
      <3> QED
        BY <3>1, <3>2 DEF IsView
    <2>3. window = "crashed" => CrashHasReason
      BY DEF BrowserInv, BrowseInv
    <2> QED
      BY <2>1, <2>2, <2>3 DEF CursorHolds, SelectHolds, CrashHasReason
  <1> QED
    BY <1>1, BrowserAlways, PTL

\* However high the terminal, the keys up and down keep a cursor in its window.
THEOREM CursorAlwaysInView == Spec => KeepsInView
  <1>1. BrowserInv /\ [Next]_vars =>
            [Browsing /\ InView(startLevel, cursor) /\ (KeyUp \/ KeyDown)
                => InView(startLevel', cursor')]_<<cursor, startLevel>>
    BY WalksInView
  <1> QED
    BY <1>1, BrowserAlways, PTL DEF Spec, KeepsInView

(***************************************************************************)
(* What the parsers take.                                                  *)
(***************************************************************************)

LinesBefore(I, n) == IsFiniteSet(I) /\ I \subseteq Nat /\ n \in Nat /\ \A i \in I : i < n

\* A line after the others comes last among them.
LEMMA NextLine ==
    ASSUME NEW I, NEW n, LinesBefore(I, n)
    PROVE  LET J == I \cup {n}
               m == Cardinality(I)
           IN /\ m \in Nat /\ Cardinality(J) = m + 1
              /\ \A k \in 1 .. m : Nth(J, k) = Nth(I, k)
              /\ Nth(J, m + 1) = n
  <1> DEFINE J == I \cup {n}
             m == Cardinality(I)
  <1>0. IsFiniteSet(I) /\ I \subseteq Nat /\ n \in Nat /\ \A i \in I : i < n
    BY DEF LinesBefore
  <1>1. m \in Nat /\ Cardinality(J) = m + 1
    <2>1. n \notin I
      BY <1>0
    <2> QED
      BY <1>0, <2>1, FS_CardinalityType, FS_AddElement
  <1>2. ASSUME NEW i \in I PROVE Place(J, i) = Place(I, i) /\ Place(J, i) \in Nat /\ Place(J, i) <= m
    <2>1. {j \in J : j <= i} = {j \in I : j <= i}
      BY <1>0
    <2>2. {j \in I : j <= i} \subseteq I
      OBVIOUS
    <2>3. IsFiniteSet({j \in I : j <= i}) /\ Cardinality({j \in I : j <= i}) <= m
      BY <1>0, <2>2, FS_Subset
    <2>4. Cardinality({j \in I : j <= i}) \in Nat
      BY <2>3, FS_CardinalityType
    <2> QED
      BY <2>1, <2>3, <2>4 DEF Place
  <1>3. Place(J, n) = m + 1
    <2>1. \A j \in J : j <= n
      BY <1>0
    <2>2. {j \in J : j <= n} = J
      BY <2>1
    <2> QED
      BY <1>1, <2>2 DEF Place
  <1>4. ASSUME NEW k \in 1 .. m PROVE {j \in J : Place(J, j) = k} = {j \in I : Place(I, j) = k}
    <2> HIDE DEF m
    <2>1. \A j \in J : Place(J, j) = k => j \in I /\ Place(I, j) = k
      BY <1>1, <1>2, <1>3
    <2>2. \A j \in I : Place(I, j) = k => j \in J /\ Place(J, j) = k
      BY <1>2
    <2> QED
      BY <2>1, <2>2
  <1>5. {j \in J : Place(J, j) = m + 1} = {n}
    <2> HIDE DEF m
    <2>1. \A j \in J : Place(J, j) = m + 1 => j = n
      BY <1>1, <1>2
    <2> QED
      BY <1>3, <2>1
  <1>6. \A k \in 1 .. m : Nth(J, k) = Nth(I, k)
    BY <1>4 DEF Nth
  <1>7. Nth(J, m + 1) = n
    BY <1>5 DEF Nth
  <1> QED
    BY <1>1, <1>6, <1>7

LEMMA Extended ==
    ASSUME NEW S, NEW s \in Seq(S), NEW x \in S,
           NEW m \in Nat, m = Len(s), NEW t \in [1 .. (m + 1) -> S],
           \A k \in 1 .. m : t[k] = s[k], t[m + 1] = x
    PROVE  t = Append(s, x)
  <1>1. \A k \in 1 .. m : s[k] \in S
    BY ElementOfSeq
  <1>3. t \in Seq(S) /\ Len(t) = m + 1
    OBVIOUS
  <1>4. /\ Append(s, x) \in Seq(S) /\ Len(Append(s, x)) = m + 1
        /\ \A k \in 1 .. m : Append(s, x)[k] = s[k]
        /\ Append(s, x)[m + 1] = x
    BY AppendProperties
  <1>5. \A k \in 1 .. (m + 1) : t[k] = Append(s, x)[k]
    BY <1>4
  <1> QED
    BY <1>3, <1>4, <1>5, SeqEqual

LEMMA NamesGrow ==
    ASSUME NEW lines, NEW I, NEW n, LinesBefore(I, n),
           NamesAt(lines, I) \in Seq(Names), TrimOffset(lines[n].name) \in Names,
           NEW K, K = I \cup {n}
    PROVE  Append(NamesAt(lines, I), TrimOffset(lines[n].name)) = NamesAt(lines, K)
  <1> DEFINE s == NamesAt(lines, I)
             x == TrimOffset(lines[n].name)
             J == I \cup {n}
             m == Cardinality(I)
  <1>1. /\ m \in Nat /\ Cardinality(J) = m + 1
        /\ \A k \in 1 .. m : Nth(J, k) = Nth(I, k)
        /\ Nth(J, m + 1) = n
    BY NextLine
  <1>2. PICK t : t = NamesAt(lines, J)
    OBVIOUS
  <1> HIDE DEF m, J, x
  <1>3. Len(s) = m /\ \A k \in 1 .. m : s[k] = TrimOffset(lines[Nth(I, k)].name)
    BY <1>1 DEF NamesAt, m
  <1>4. t = [k \in 1 .. (m + 1) |-> t[k]] /\ \A k \in 1 .. (m + 1) : t[k] = TrimOffset(lines[Nth(J, k)].name)
    BY <1>1, <1>2 DEF NamesAt
  <1>5. (\A k \in 1 .. m : t[k] = s[k]) /\ t[m + 1] = x
    BY <1>1, <1>3, <1>4 DEF x
  <1>6. x \in Names /\ \A k \in 1 .. m : s[k] \in Names
    BY <1>3, ElementOfSeq DEF x
  <1>7. t \in [1 .. (m + 1) -> Names]
    <2>1. \A k \in 1 .. (m + 1) : k \in 1 .. m \/ k = m + 1
      BY <1>1
    <2> QED
      BY <1>4, <1>5, <1>6, <2>1
  <1>8. t = Append(s, x)
    BY <1>1, <1>3, <1>5, <1>6, <1>7, Extended
  <1> QED
    BY <1>2, <1>8 DEF J, x

LEMMA SamplesGrow ==
    ASSUME NEW type, NEW lines, NEW I, NEW n, LinesBefore(I, n),
           SamplesAt(type, lines, I) \in Seq(Samples), SampleAt(type, lines, n) \in Samples,
           NEW K, K = I \cup {n}
    PROVE  Append(SamplesAt(type, lines, I), SampleAt(type, lines, n)) = SamplesAt(type, lines, K)
  <1> DEFINE J == I \cup {n}
             m == Cardinality(I)
  <1>1. /\ m \in Nat /\ Cardinality(J) = m + 1
        /\ \A k \in 1 .. m : Nth(J, k) = Nth(I, k)
        /\ Nth(J, m + 1) = n
    BY NextLine
  <1>2. PICK t : t = SamplesAt(type, lines, J)
    OBVIOUS
  <1> DEFINE s == SamplesAt(type, lines, I)
             x == SampleAt(type, lines, n)
  <1> HIDE DEF m, J
  <1>3. Len(s) = m /\ \A k \in 1 .. m : s[k] = SampleAt(type, lines, Nth(I, k))
    BY <1>1, <1>2 DEF SamplesAt, m
  <1>4. t = [k \in 1 .. (m + 1) |-> t[k]] /\ \A k \in 1 .. (m + 1) : t[k] = SampleAt(type, lines, Nth(J, k))
    BY <1>1, <1>2 DEF SamplesAt
  <1>5. (\A k \in 1 .. m : t[k] = s[k]) /\ t[m + 1] = x
    BY <1>1, <1>2, <1>3, <1>4
  <1>6. t \in [1 .. (m + 1) -> Samples]
    <2>1. \A k \in 1 .. (m + 1) : k \in 1 .. m \/ k = m + 1
      BY <1>1
    <2>2. \A k \in 1 .. m : s[k] \in Samples
      BY <1>3, ElementOfSeq
    <2> QED
      BY <1>4, <1>5, <2>1, <2>2
  <1>7. t = Append(s, x)
    BY <1>1, <1>3, <1>5, <1>6, Extended
  <1> QED
    BY <1>2, <1>7 DEF J

LEMMA NoneYet == \A type, lines : NamesAt(lines, {}) = <<>> /\ SamplesAt(type, lines, {}) = <<>>
  <1>1. Cardinality({}) = 0
    BY FS_EmptySet
  <1> QED
    BY <1>1 DEF NamesAt, SamplesAt

\* The lines since the last sample, when one more is read.
LEMMA OpenGrows ==
    ASSUME NEW type, NEW lines, NEW n \in Nat \ {0}, NEW m, m = n + 1
    PROVE  /\ EndsSample(type, lines, n) => LinesOf(type, lines, m) = {}
           /\ ~ EndsSample(type, lines, n) /\ lines[n].kind # "blank" =>
                 LinesOf(type, lines, m) = LinesOf(type, lines, n) \cup {n}
           /\ ~ EndsSample(type, lines, n) /\ lines[n].kind = "blank" =>
                 LinesOf(type, lines, m) = LinesOf(type, lines, n)
  <1>1. \A j \in 1 .. n : j .. n = (j .. (n - 1)) \cup {n}
    OBVIOUS
  <1>2. /\ m - 1 = n /\ \A j \in 1 .. (n - 1) : j \in 1 .. n
        /\ 1 .. n = (1 .. (n - 1)) \cup {n} /\ n .. (n - 1) = {}
    OBVIOUS
  <1>3. LinesOf(type, lines, m) =
           {j \in 1 .. n : lines[j].kind # "blank" /\ \A k \in j .. n : ~ EndsSample(type, lines, k)}
    BY <1>2 DEF LinesOf
  <1>4. LinesOf(type, lines, n) =
           {j \in 1 .. (n - 1) : lines[j].kind # "blank" /\ \A k \in j .. (n - 1) : ~ EndsSample(type, lines, k)}
    BY DEF LinesOf
  <1>5. CASE EndsSample(type, lines, n)
    BY <1>1, <1>3, <1>5
  <1>6. CASE ~ EndsSample(type, lines, n)
    BY <1>1, <1>2, <1>3, <1>4, <1>6
  <1> QED
    BY <1>5, <1>6

LEMMA OpenIs ==
    ASSUME NEW type, NEW lines, NEW n \in Nat \ {0}
    PROVE  /\ IsFiniteSet(LinesOf(type, lines, n)) /\ LinesOf(type, lines, n) \subseteq Nat
           /\ \A i \in LinesOf(type, lines, n) : i < n
  <1>1. LinesOf(type, lines, n) \subseteq 1 .. (n - 1)
    BY DEF LinesOf
  <1>2. IsFiniteSet(1 .. (n - 1))
    BY FS_Interval
  <1> QED
    BY <1>1, <1>2, FS_Subset

LEMMA ReverseGrows ==
    ASSUME NEW S, NEW s \in Seq(S), NEW x \in S
    PROVE  Reverse(Append(s, x)) = <<x>> \o Reverse(s)
  <1> DEFINE m == Len(s)
             a == Append(s, x)
  <1>1. m \in Nat /\ a \in Seq(S) /\ Len(a) = m + 1 /\ (\A i \in 1 .. m : a[i] = s[i]) /\ a[m + 1] = x
    BY AppendProperties, LenProperties
  <1>2. \A i \in 1 .. m : s[i] \in S
    BY ElementOfSeq
  <1> HIDE DEF m, a
  <1>3. /\ Reverse(s) = [i \in 1 .. m |-> s[(m - i) + 1]]
        /\ Reverse(a) = [i \in 1 .. (m + 1) |-> a[((m + 1) - i) + 1]]
    BY <1>1 DEF Reverse, m
  <1>4. \A i \in 1 .. m : (m - i) + 1 \in 1 .. m
    BY <1>1
  <1>5. Reverse(s) \in Seq(S) /\ Len(Reverse(s)) = m
    BY <1>1, <1>2, <1>3, <1>4
  <1>6. \A i \in 1 .. (m + 1) : ((m + 1) - i) + 1 \in 1 .. (m + 1)
    BY <1>1
  <1>7. \A i \in 1 .. (m + 1) : a[i] \in S
    BY <1>1, ElementOfSeq
  <1>8. Reverse(a) \in Seq(S) /\ Len(Reverse(a)) = m + 1
    BY <1>1, <1>3, <1>6, <1>7
  <1>9. /\ <<x>> \o Reverse(s) \in Seq(S) /\ Len(<<x>> \o Reverse(s)) = m + 1
        /\ (<<x>> \o Reverse(s))[1] = x
        /\ \A i \in 2 .. (m + 1) : (<<x>> \o Reverse(s))[i] = Reverse(s)[i - 1]
    BY <1>1, <1>5
  <1>10. ASSUME NEW i \in 1 .. (m + 1) PROVE Reverse(a)[i] = (<<x>> \o Reverse(s))[i]
    <2>1. CASE i = 1
      BY <1>1, <1>3, <1>9, <2>1
    <2>2. CASE i # 1
      <3>1. i \in 2 .. (m + 1) /\ i - 1 \in 1 .. m /\ ((m + 1) - i) + 1 = (m - (i - 1)) + 1
        BY <1>1, <2>2
      <3>2. Reverse(a)[i] = a[(m - (i - 1)) + 1] /\ Reverse(s)[i - 1] = s[(m - (i - 1)) + 1]
        BY <1>3, <3>1
      <3> QED
        BY <1>1, <1>4, <1>9, <3>1, <3>2
    <2> QED
      BY <2>1, <2>2
  <1> QED
    BY <1>8, <1>9, <1>10, SeqEqual DEF a

Open == LinesOf(format, input, line + 1)

NoSampleOpen == comm = NoComm /\ stack = <<>> /\ (line = 0 \/ input[line].kind = "blank")

SampleOpen(h) ==
    /\ input[h].kind = "header" /\ \A i \in Open \ {h} : input[i].kind # "header"
    /\ comm = input[h].name /\ comm # NoComm /\ stack = NamesAt(input, Open \ {h})

Taken ==
    /\ result = SamplesAt(format, input, Sampled)
    /\ format = "dtrace" => stack = NamesAt(input, Open)
    /\ format = "perf" => IF Open = {} THEN NoSampleOpen ELSE line \in Open /\ \E h \in Open : SampleOpen(h)

RefusedIn(type, kind) ==
    kind \in CASE type = "none" -> {"spaced", "count", "frame", "header", "short"}
               [] type = "pyspy" -> {"frame", "header", "short"}
               [] type = "dtrace" -> {"count"}
               [] OTHER -> {"header", "short", "count"}

\* Between two lines the parser holds the names of the lines since the last sample, and in
\* perf's format the header of the sample it is in.
SamplesInv == WellFormed => IF failed THEN RefusedIn(format, input[line].kind) ELSE Taken

LEMMA SamplesInitial ==
    ASSUME NEW job \in Jobs, ParseInit({job})
    PROVE  SamplesInv
  <1>1. line = 0 /\ stack = <<>> /\ comm = NoComm /\ result = <<>> /\ ~ failed
    BY DEF ParseInit
  <1>2. Sampled = {} /\ Open = {}
    BY <1>1 DEF Sampled, Open, LinesOf
  <1>3. Taken
    BY <1>1, <1>2, NoneYet DEF Taken, NoSampleOpen
  <1> QED
    BY <1>1, <1>3 DEF SamplesInv

\* What one line does to the result.
LEMMA ResultFollows ==
    ASSUME ParseInv, Taken, NEW n, n = line + 1, line' = n, UNCHANGED <<format, input>>
    PROVE  /\ \A x \in Samples : EndsSample(format, input, n) /\ x = SampleAt(format, input, n) /\ result' = Append(result, x)
                 => result' = SamplesAt(format, input, Sampled')
           /\ ~ EndsSample(format, input, n) /\ result' = result => result' = SamplesAt(format, input, Sampled')
  <1>1. PICK type, lines : type = format /\ lines = input
    OBVIOUS
  <1>2. /\ line \in Nat /\ n \in Nat \ {0} /\ 1 .. n = (1 .. line) \cup {n}
        /\ result \in Seq(Samples) /\ result = SamplesAt(type, lines, Sampled)
    BY <1>1 DEF ParseInv, Taken
  <1>3. /\ Sampled = {i \in 1 .. line : EndsSample(type, lines, i)}
        /\ Sampled' = {i \in 1 .. n : EndsSample(type, lines, i)}
    BY <1>1 DEF Sampled
  <1>4. IsFiniteSet(Sampled) /\ Sampled \subseteq Nat /\ \A i \in Sampled : i < n
    <2>1. Sampled \subseteq 1 .. line
      BY <1>3
    <2>2. IsFiniteSet(1 .. line)
      BY <1>2, FS_Interval
    <2>3. IsFiniteSet(Sampled)
      BY <2>1, <2>2, FS_Subset
    <2> QED
      BY <1>2, <2>1, <2>3
  <1>5. ASSUME EndsSample(type, lines, n), NEW x \in Samples, x = SampleAt(type, lines, n), result' = Append(result, x)
        PROVE  result' = SamplesAt(type, lines, Sampled')
    <2>1. Sampled' = Sampled \cup {n}
      BY <1>2, <1>3, <1>5
    <2>2. PICK I, K : I = Sampled /\ K = I \cup {n}
      OBVIOUS
    <2>3. LinesBefore(I, n) /\ SamplesAt(type, lines, I) \in Seq(Samples) /\ SampleAt(type, lines, n) \in Samples
      BY <1>2, <1>4, <1>5, <2>2 DEF LinesBefore
    <2>4. Append(SamplesAt(type, lines, I), SampleAt(type, lines, n)) = SamplesAt(type, lines, K)
      BY <2>2, <2>3, SamplesGrow
    <2> QED
      BY <1>2, <1>5, <2>1, <2>2, <2>4
  <1>6. ASSUME ~ EndsSample(type, lines, n) PROVE Sampled' = Sampled
    BY <1>2, <1>3, <1>6
  <1> QED
    BY <1>1, <1>2, <1>5, <1>6

LEMMA NextInv ==
    ASSUME ParseInv, ReadLine, WellFormed, SamplesInv, NEW n, n = line + 1
    PROVE  /\ Taken /\ ~ failed /\ line' = n /\ input' = input /\ format' = format /\ n \in Nat \ {0} /\ n \in DOMAIN input
           /\ This = input[n] /\ IsLine(This)
           /\ Open = LinesOf(format, input, n) /\ IsFiniteSet(Open) /\ Open \subseteq Nat /\ (\A i \in Open : i < n)
           /\ Open' = IF EndsSample(format, input, n) THEN {}
                      ELSE Open \cup (IF This.kind # "blank" THEN {n} ELSE {})
           /\ stack \in Seq(Names) /\ comm \in Names
           /\ This.kind # "blank" => This.name \in Names /\ TrimOffset(This.name) \in Names
  <1>1. /\ ~ failed /\ line < Len(input) /\ line' = n /\ input' = input /\ format' = format
        /\ line \in Nat /\ Len(input) \in Nat /\ DOMAIN input = 1 .. Len(input)
        /\ stack \in Seq(Names) /\ comm \in Names /\ This = input[n]
    BY LenProperties DEF ParseInv, ReadLine, Parsing, This
  <1>2. n \in 1 .. Len(input) /\ n \in Nat \ {0} /\ IsLine(This)
    BY <1>1 DEF ParseInv
  <1>3. This.kind # "blank" => This.name \in Names /\ TrimOffset(This.name) \in Names
    BY <1>2, Trimmed DEF IsLine
  <1>4. Open = LinesOf(format, input, n) /\ Open' = LinesOf(format, input, n + 1)
    BY <1>1 DEF Open
  <1>5. Open' = IF EndsSample(format, input, n) THEN {} ELSE Open \cup (IF This.kind # "blank" THEN {n} ELSE {})
    <2>1. PICK type, lines : type = format /\ lines = input
      OBVIOUS
    <2>2. PICK m : m = n + 1
      OBVIOUS
    <2>3. /\ EndsSample(type, lines, n) => LinesOf(type, lines, m) = {}
          /\ ~ EndsSample(type, lines, n) /\ lines[n].kind # "blank" =>
                LinesOf(type, lines, m) = LinesOf(type, lines, n) \cup {n}
          /\ ~ EndsSample(type, lines, n) /\ lines[n].kind = "blank" =>
                LinesOf(type, lines, m) = LinesOf(type, lines, n)
      BY <1>2, <2>2, OpenGrows
    <2> QED
      BY <1>1, <1>4, <2>1, <2>2, <2>3
  <1>6. IsFiniteSet(Open) /\ Open \subseteq Nat /\ \A i \in Open : i < n
    BY <1>2, <1>4, OpenIs
  <1> QED
    BY <1>1, <1>2, <1>3, <1>4, <1>5, <1>6 DEF SamplesInv

\* The formats in which a line is a sample.
LEMMA LinesTaken ==
    ASSUME ParseInv, ReadLine, WellFormed, SamplesInv, CollapsedLine \/ PySpyLine
    PROVE  SamplesInv'
  <1>1. PICK n : n = line + 1
    OBVIOUS
  <1>2. /\ Taken /\ ~ failed /\ line' = n /\ input' = input /\ format' = format /\ This = input[n] /\ IsLine(This)
        /\ format \in {"none", "pyspy"}
    BY <1>1, NextInv DEF CollapsedLine, PySpyLine
  <1>3. EndsSample(format, input, n) <=> This.kind # "blank"
    BY <1>2 DEF EndsSample
  <1>4. ASSUME ~ failed', result' = SamplesAt(format, input, Sampled') PROVE SamplesInv'
    BY <1>2, <1>4 DEF SamplesInv, Taken
  <1>5. ASSUME Raise, RefusedIn(format, This.kind) PROVE SamplesInv'
    BY <1>2, <1>5 DEF SamplesInv, Raise, RefusedIn
  <1>6. CASE SkipBlank
    BY <1>1, <1>2, <1>3, <1>4, <1>6, ResultFollows DEF SkipBlank
  <1>7. CASE CollapsedLine /\ CollapsedStack
    <2>1. This.kind = "stack" /\ Took(TrimAll(This.frames), This.count) /\ format = "none" /\ failed' = failed
      BY <1>7 DEF CollapsedLine, CollapsedStack
    <2>2. This.frames \in Seq(Names) \ {<<>>} /\ This.count \in Nat
      BY <1>2, <2>1 DEF IsLine
    <2> DEFINE x == [frames |-> TrimAll(This.frames), count |-> This.count]
    <2>3. x \in Samples
      BY <2>2, TrimmedAll DEF Samples
    <2>4. x = SampleAt(format, input, n) /\ result' = Append(result, x)
      BY <1>2, <2>1 DEF SampleAt, Took
    <2> QED
      BY <1>1, <1>2, <1>3, <1>4, <2>1, <2>3, <2>4, ResultFollows
  <1>8. CASE CollapsedLine /\ CollapsedError
    <2>1. RefusedIn(format, This.kind) /\ Raise
      BY <1>2, <1>8 DEF CollapsedLine, CollapsedError, IsLine, Kinds, RefusedIn
    <2> QED
      BY <1>5, <2>1
  <1>9. CASE PySpyLine /\ PySpyStack
    <2>1. PICK f : f = IF This.kind = "count" THEN <<Unnamed>> ELSE This.frames
      OBVIOUS
    <2>2. This.kind \in {"stack", "spaced", "count"} /\ Took(f, This.count) /\ format = "pyspy" /\ failed' = failed
      BY <1>9, <2>1 DEF PySpyLine, PySpyStack
    <2>3. f \in Seq(Names) \ {<<>>} /\ This.count \in Nat
      <3>1. <<Unnamed>> \in Seq(Names) \ {<<>>}
        BY DEF Unnamed, Names, TrimOffset, Offset
      <3> QED
        BY <1>2, <2>1, <2>2, <3>1 DEF IsLine
    <2> DEFINE x == [frames |-> f, count |-> This.count]
    <2>4. x \in Samples
      BY <2>3 DEF Samples
    <2>5. x = SampleAt(format, input, n) /\ result' = Append(result, x)
      BY <1>2, <2>1, <2>2 DEF SampleAt, Took
    <2> QED
      BY <1>1, <1>2, <1>3, <1>4, <2>2, <2>4, <2>5, ResultFollows
  <1>10. CASE PySpyLine /\ PySpyError
    <2>1. RefusedIn(format, This.kind) /\ Raise
      BY <1>10 DEF PySpyLine, PySpyError, RefusedIn
    <2> QED
      BY <1>5, <2>1
  <1> QED
    BY <1>6, <1>7, <1>8, <1>9, <1>10 DEF CollapsedLine, PySpyLine

\* The names of dtrace's frames gather until their count.
LEMMA DtraceTaken ==
    ASSUME ParseInv, ReadLine, WellFormed, SamplesInv, DtraceLine
    PROVE  SamplesInv'
  <1>1. PICK n : n = line + 1
    OBVIOUS
  <1>2. /\ Taken /\ ~ failed /\ line' = n /\ input' = input /\ format' = format /\ This = input[n] /\ IsLine(This)
        /\ format = "dtrace" /\ n \in Nat
        /\ Open = LinesOf(format, input, n) /\ IsFiniteSet(Open) /\ Open \subseteq Nat /\ (\A i \in Open : i < n)
        /\ Open' = IF EndsSample(format, input, n) THEN {} ELSE Open \cup (IF This.kind # "blank" THEN {n} ELSE {})
        /\ stack \in Seq(Names)
        /\ This.kind # "blank" => TrimOffset(This.name) \in Names
    BY <1>1, NextInv DEF DtraceLine
  <1>3. EndsSample(format, input, n) <=> This.kind = "count"
    BY <1>2 DEF EndsSample
  <1>4. stack = NamesAt(input, Open) /\ result = SamplesAt(format, input, Sampled)
    BY <1>2 DEF Taken
  <1>5. ASSUME ~ failed', result' = SamplesAt(format, input, Sampled'), stack' = NamesAt(input, Open') PROVE SamplesInv'
    BY <1>2, <1>5 DEF SamplesInv, Taken
  <1>6. CASE SkipBlank
    <2>1. Open' = Open /\ ~ EndsSample(format, input, n)
      BY <1>2, <1>3, <1>6 DEF SkipBlank
    <2>2. result' = SamplesAt(format, input, Sampled')
      BY <1>1, <1>2, <1>6, <2>1, ResultFollows DEF SkipBlank
    <2>3. stack' = NamesAt(input, Open')
      BY <1>4, <1>6, <2>1 DEF SkipBlank
    <2> QED
      BY <1>2, <1>5, <1>6, <2>2, <2>3 DEF SkipBlank
  <1>7. CASE DtraceFrame
    <2>1. /\ This.kind \notin {"blank", "count"} /\ stack' = Append(stack, TrimOffset(This.name))
          /\ result' = result /\ failed' = failed
      BY <1>7 DEF DtraceFrame
    <2>2. Open' = Open \cup {n} /\ ~ EndsSample(format, input, n)
      BY <1>2, <1>3, <2>1
    <2>3. result' = SamplesAt(format, input, Sampled')
      BY <1>1, <1>2, <2>1, <2>2, ResultFollows
    <2>4. PICK I, K, lines : I = Open /\ K = I \cup {n} /\ lines = input
      OBVIOUS
    <2>5. LinesBefore(I, n) /\ stack = NamesAt(lines, I) /\ NamesAt(lines, I) \in Seq(Names) /\ TrimOffset(lines[n].name) \in Names
      BY <1>2, <1>4, <2>1, <2>4 DEF LinesBefore
    <2>6. Append(NamesAt(lines, I), TrimOffset(lines[n].name)) = NamesAt(lines, K)
      BY <2>4, <2>5, NamesGrow
    <2>7. stack' = NamesAt(input, Open')
      BY <1>2, <2>1, <2>2, <2>4, <2>5, <2>6
    <2> QED
      BY <1>2, <1>5, <2>1, <2>3, <2>7
  <1>8. CASE DtraceCount
    <2>1. This.kind = "count"
      BY <1>8 DEF DtraceCount
    <2>2. CASE stack = <<>>
      BY <1>2, <1>8, <2>1, <2>2 DEF DtraceCount, Raise, SamplesInv, RefusedIn
    <2>3. CASE stack # <<>>
      <3>1. Took(Reverse(stack), This.count) /\ stack' = <<>> /\ failed' = failed
        BY <1>8, <2>3 DEF DtraceCount
      <3> DEFINE x == [frames |-> Reverse(stack), count |-> This.count]
      <3>2. x \in Samples
        <4>1. Reverse(stack) \in Seq(Names) \ {<<>>} /\ This.count \in Nat
          BY <1>2, <2>1, <2>3, Reversed DEF IsLine
        <4> QED
          BY <4>1 DEF Samples
      <3>3. x = SampleAt(format, input, n) /\ result' = Append(result, x)
        BY <1>2, <1>4, <3>1 DEF SampleAt, Took
      <3>4. result' = SamplesAt(format, input, Sampled')
        BY <1>1, <1>2, <1>3, <2>1, <3>2, <3>3, ResultFollows
      <3>5. stack' = NamesAt(input, Open')
        BY <1>2, <1>3, <2>1, <3>1, NoneYet
      <3> QED
        BY <1>2, <1>5, <3>1, <3>4, <3>5
    <2> QED
      BY <2>2, <2>3
  <1> QED
    BY <1>6, <1>7, <1>8 DEF DtraceLine

\* A header of perf opens a sample, its frames follow and the blank line closes it.
LEMMA PerfTaken ==
    ASSUME ParseInv, ReadLine, WellFormed, SamplesInv, PerfLine
    PROVE  SamplesInv'
  <1>1. PICK n : n = line + 1
    OBVIOUS
  <1>2. /\ Taken /\ ~ failed /\ line' = n /\ input' = input /\ format' = format /\ This = input[n] /\ IsLine(This)
        /\ format = "perf" /\ n \in Nat \ {0} /\ n \in DOMAIN input
        /\ Open = LinesOf(format, input, n) /\ IsFiniteSet(Open) /\ Open \subseteq Nat /\ (\A i \in Open : i < n)
        /\ Open' = IF EndsSample(format, input, n) THEN {} ELSE Open \cup (IF This.kind # "blank" THEN {n} ELSE {})
        /\ stack \in Seq(Names) /\ comm \in Names
        /\ This.kind # "blank" => This.name \in Names /\ TrimOffset(This.name) \in Names
    BY <1>1, NextInv DEF PerfLine
  <1>3. /\ This.kind = "header" <=> (n = 1 \/ input[n - 1].kind = "blank") /\ This.kind # "blank"
        /\ This.kind \notin {"stack", "spaced"}
    BY <1>2 DEF WellFormed
  <1>4. EndsSample(format, input, n) <=> n > 1 /\ This.kind = "blank" /\ input[n - 1].kind # "blank"
    BY <1>2 DEF EndsSample
  <1>5. /\ line \in Nat /\ line = n - 1 /\ (line = 0 <=> n = 1) /\ (n > 1 <=> n # 1) /\ n \notin Open
        /\ IF Open = {} THEN NoSampleOpen ELSE line \in Open /\ \E h \in Open : SampleOpen(h)
    BY <1>1, <1>2 DEF ParseInv, Taken
  <1>6. /\ Open = {} <=> n = 1 \/ input[n - 1].kind = "blank"
        /\ Open = {} <=> comm = NoComm
        /\ Open = {} => stack = <<>>
    <2>1. line \in Open => line >= 1 /\ input[line].kind # "blank"
      BY <1>2 DEF LinesOf
    <2>2. input[n - 1] = input[line] /\ (n = 1 <=> line = 0) /\ (line >= 1 => line # 0)
      BY <1>5
    <2>3. CASE Open = {}
      BY <1>5, <2>2, <2>3 DEF NoSampleOpen
    <2>4. CASE Open # {}
      BY <1>5, <2>1, <2>2, <2>4 DEF SampleOpen
    <2> QED
      BY <2>3, <2>4
  <1>7. ASSUME ~ failed', result' = SamplesAt(format, input, Sampled'),
               Open' = {}, comm' = NoComm, stack' = <<>>, This.kind = "blank"
        PROVE  SamplesInv'
    BY <1>2, <1>7 DEF SamplesInv, Taken, NoSampleOpen
  <1>8. ASSUME ~ failed', result' = SamplesAt(format, input, Sampled'), Open' = Open \cup {n},
               NEW h \in Open', input[h].kind = "header", \A i \in Open' \ {h} : input[i].kind # "header",
               comm' = input[h].name, comm' # NoComm, stack' = NamesAt(input, Open' \ {h})
        PROVE  SamplesInv'
    <2>1. n \in Open' /\ Open' # {} /\ SampleOpen(h)'
      BY <1>2, <1>8 DEF SampleOpen
    <2> QED
      BY <1>2, <1>8, <2>1 DEF SamplesInv, Taken
  <1>9. ASSUME Raise, This.kind \in {"header", "short", "count"} PROVE SamplesInv'
    BY <1>2, <1>9 DEF Raise, SamplesInv, RefusedIn
  <1>10. ASSUME result' = result, This.kind # "blank" \/ Open = {}
         PROVE  /\ ~ EndsSample(format, input, n) /\ result' = SamplesAt(format, input, Sampled')
                /\ This.kind # "blank" => Open' = Open \cup {n}
                /\ This.kind = "blank" => Open' = {}
    <2>1. ~ EndsSample(format, input, n)
      BY <1>4, <1>5, <1>6, <1>10
    <2> QED
      BY <1>1, <1>2, <1>10, <2>1, ResultFollows
  <1>11. CASE PerfBlank
    <2>1. This.kind = "blank" /\ failed' = failed
      BY <1>11 DEF PerfBlank
    <2>2. CASE comm = NoComm
      <3>1. UNCHANGED <<stack, comm, result>> /\ Open = {} /\ stack = <<>>
        BY <1>6, <1>11, <2>2 DEF PerfBlank
      <3>2. result' = SamplesAt(format, input, Sampled') /\ Open' = {}
        BY <1>10, <2>1, <3>1
      <3> QED
        BY <1>2, <1>7, <2>1, <2>2, <3>1, <3>2
    <2>3. CASE comm # NoComm
      <3>1. Took(Reverse(Append(stack, comm)), 1) /\ stack' = <<>> /\ comm' = NoComm /\ Open # {}
        BY <1>6, <1>11, <2>3 DEF PerfBlank
      <3>2. EndsSample(format, input, n) /\ Open' = {}
        BY <1>2, <1>4, <1>5, <1>6, <2>1, <3>1
      <3>3. PICK h \in Open : SampleOpen(h)
        BY <1>5, <3>1
      <3> DEFINE x == [frames |-> Reverse(Append(stack, comm)), count |-> 1]
      <3>4. x \in Samples
        <4>1. Append(stack, comm) \in Seq(Names) \ {<<>>}
          BY <1>2, AppendProperties
        <4>2. Reverse(Append(stack, comm)) \in Seq(Names) \ {<<>>}
          BY <4>1, Reversed
        <4> QED
          BY <4>2 DEF Samples
      <3>5. Reverse(Append(stack, comm)) = <<comm>> \o Reverse(stack)
        BY <1>2, ReverseGrows
      <3>6. x = SampleAt(format, input, n)
        <4>1. (CHOOSE i \in Open : input[i].kind = "header") = h
          BY <3>3 DEF SampleOpen
        <4>2. SampleAt(format, input, n) =
                 [frames |-> <<input[h].name>> \o Reverse(NamesAt(input, Open \ {h})), count |-> 1]
          BY <1>2, <4>1 DEF SampleAt
        <4>3. comm = input[h].name /\ stack = NamesAt(input, Open \ {h})
          BY <3>3 DEF SampleOpen
        <4> QED
          BY <3>5, <4>2, <4>3
      <3>7. result' = Append(result, x)
        BY <3>1 DEF Took
      <3>8. result' = SamplesAt(format, input, Sampled')
        <4> HIDE DEF x
        <4> QED
          BY <1>1, <1>2, <3>2, <3>4, <3>6, <3>7, ResultFollows
      <3> QED
        BY <1>2, <1>7, <2>1, <3>1, <3>2, <3>8
    <2> QED
      BY <2>2, <2>3
  <1>12. CASE PerfHeader
    <2>1. This.kind = "header" /\ Open = {} /\ stack = <<>>
      BY <1>3, <1>6, <1>12 DEF PerfHeader
    <2>2. CASE This.name = NoComm
      BY <1>9, <1>12, <2>1, <2>2 DEF PerfHeader
    <2>3. CASE This.name # NoComm
      <3>1. comm' = This.name /\ UNCHANGED <<stack, result, failed>>
        BY <1>12, <2>3 DEF PerfHeader
      <3>2. result' = SamplesAt(format, input, Sampled') /\ Open' = Open \cup {n}
        BY <1>10, <2>1, <3>1
      <3>3. Open' \ {n} = {} /\ n \in Open'
        BY <2>1, <3>2
      <3>4. stack' = NamesAt(input, Open' \ {n})
        BY <2>1, <3>1, <3>3, NoneYet
      <3> QED
        BY <1>2, <1>8, <2>1, <2>3, <3>1, <3>2, <3>3, <3>4
    <2> QED
      BY <2>2, <2>3
  <1>13. CASE PerfFrame
    <2>1. This.kind \notin {"blank", "header", "spaced"} /\ Open # {}
      BY <1>3, <1>6, <1>13 DEF PerfFrame
    <2>2. CASE This.kind \in {"short", "count"}
      BY <1>9, <1>13, <2>2 DEF PerfFrame
    <2>3. CASE This.kind \notin {"short", "count"}
      <3>1. stack' = Append(stack, TrimOffset(This.name)) /\ UNCHANGED <<comm, result, failed>>
        BY <1>13, <2>3 DEF PerfFrame
      <3>2. result' = SamplesAt(format, input, Sampled') /\ Open' = Open \cup {n}
        BY <1>10, <2>1, <3>1
      <3>3. PICK h \in Open : SampleOpen(h)
        BY <1>5, <2>1
      <3>4. /\ input[h].kind = "header" /\ comm = input[h].name /\ comm # NoComm
            /\ stack = NamesAt(input, Open \ {h}) /\ \A i \in Open \ {h} : input[i].kind # "header"
        BY <3>3 DEF SampleOpen
      <3>5. PICK I, K, lines : I = Open \ {h} /\ K = I \cup {n} /\ lines = input
        OBVIOUS
      <3>6. LinesBefore(I, n) /\ stack = NamesAt(lines, I) /\ NamesAt(lines, I) \in Seq(Names) /\ TrimOffset(lines[n].name) \in Names
        <4>1. IsFiniteSet(I)
          BY <1>2, <3>5, FS_Subset
        <4> QED
          BY <1>2, <2>1, <3>4, <3>5, <4>1 DEF LinesBefore
      <3>7. Append(NamesAt(lines, I), TrimOffset(lines[n].name)) = NamesAt(lines, K)
        BY <3>5, <3>6, NamesGrow
      <3>8. Open' \ {h} = K
        BY <1>5, <3>2, <3>5
      <3>9. stack' = NamesAt(input, Open' \ {h})
        BY <1>2, <3>1, <3>5, <3>6, <3>7, <3>8
      <3>10. (\A i \in Open' \ {h} : input[i].kind # "header") /\ h \in Open'
        BY <1>2, <2>1, <3>2, <3>4
      <3> QED
        BY <1>2, <1>8, <3>1, <3>2, <3>4, <3>9, <3>10
    <2> QED
      BY <2>2, <2>3
  <1> QED
    BY <1>11, <1>12, <1>13 DEF PerfLine

LEMMA SamplesStep == CountsInv /\ SamplesInv /\ [Next]_vars => SamplesInv'
  <1> SUFFICES ASSUME CountsInv, SamplesInv, [Next]_vars PROVE SamplesInv'
    OBVIOUS
  <1>1. ASSUME UNCHANGED parseVars PROVE SamplesInv'
    BY <1>1 DEF parseVars, SamplesInv, WellFormed, Taken, Sampled, Open, NoSampleOpen, SampleOpen
  <1>2. CASE Parse
    <2>1. ReadLine /\ ParseInv
      BY <1>2 DEF Parse, CountsInv
    <2>2. WellFormed' => WellFormed
      BY <2>1 DEF ReadLine, WellFormed
    <2>3. CASE WellFormed
      BY <2>1, <2>3, LinesTaken, DtraceTaken, PerfTaken DEF ReadLine
    <2>4. CASE ~ WellFormed
      BY <2>2, <2>4 DEF SamplesInv
    <2> QED
      BY <2>3, <2>4
  <1>3. CASE ParseFails \/ ParseEnds \/ Add \/ Insert \/ DumpTree \/ Browse \/ Turn \/ UNCHANGED vars
    BY <1>1, <1>3 DEF ParseFails, ParseEnds, Add, Insert, DumpTree, Browse, Turn, vars
  <1> QED
    BY <1>2, <1>3 DEF Next, Done

\* Whatever the file of dtrace, pyspy or collapsed stacks, and for every WellFormed file of perf
\* (no frame with spaces), the parser (parse of each collapser) has taken the samples that are
\* complete and nothing else, or refused a line.
THEOREM SamplesAlwaysParsed == Spec => []ParsesSamples
  <1>1. Init => SamplesInv
    BY SamplesInitial DEF Init
  <1>2. SamplesInv => ParsesSamples
    BY DEF SamplesInv, ParsesSamples, RefusedIn, Taken
  <1> QED
    BY <1>1, <1>2, SamplesStep, CountsInitial, CountsStep, PTL DEF Spec

(***************************************************************************)
(* What is printed is what was parsed.                                     *)
(***************************************************************************)

CountOf(res) == [i \in DOMAIN res |-> res[i].count]
StacksOf(res, n, p) == {i \in 1 .. n : res[i].frames = p}

\* The first n stacks are in the tree.
AreIn(t, res, n) ==
    /\ \A p \in DOMAIN t : t[p].base = SumFunctionOnSet(CountOf(res), StacksOf(res, n, p))
    /\ \A i \in 1 .. n : res[i].frames \in DOMAIN t

LEMMA StacksAdd ==
    ASSUME NEW res \in Seq(Samples), NEW n \in Nat, n <= Len(res), NEW p
    PROVE  /\ Summable(CountOf(res), StacksOf(res, n, p))
           /\ SumFunctionOnSet(CountOf(res), StacksOf(res, n, p)) \in Int
           /\ StacksOf(res, n, p) = {} => SumFunctionOnSet(CountOf(res), StacksOf(res, n, p)) = 0
  <1>1. \A i \in 1 .. n : i \in DOMAIN res /\ CountOf(res)[i] \in Int
    <2>1. \A i \in 1 .. n : i \in 1 .. Len(res)
      BY LenProperties
    <2>2. \A i \in 1 .. Len(res) : i \in DOMAIN res /\ res[i] \in Samples
      BY ElementOfSeq, LenProperties
    <2> QED
      BY <2>1, <2>2 DEF Samples, CountOf
  <1>2. StacksOf(res, n, p) \subseteq 1 .. n
    BY DEF StacksOf
  <1>3. IsFiniteSet(1 .. n)
    BY FS_Interval
  <1>4. IsFiniteSet(StacksOf(res, n, p))
    BY <1>2, <1>3, FS_Subset
  <1>5. Summable(CountOf(res), StacksOf(res, n, p))
    BY <1>1, <1>2, <1>4 DEF Summable
  <1> QED
    BY <1>5, SumSplits

LEMMA NoneIn ==
    ASSUME NEW t, NEW res \in Seq(Samples)
    PROVE  AreIn(t, res, 0) <=> \A p \in DOMAIN t : t[p].base = 0
  <1>1. 0 \in Nat /\ 0 <= Len(res) /\ 1 .. 0 = {} /\ \A p : StacksOf(res, 0, p) = {}
    BY LenProperties DEF StacksOf
  <1>2. \A p : SumFunctionOnSet(CountOf(res), StacksOf(res, 0, p)) = 0
    BY <1>1, StacksAdd
  <1> QED
    BY <1>1, <1>2 DEF AreIn

\* A node on the way to the top frame of a stack.
LEMMA PassingKeeps ==
    ASSUME NEW t, NEW u, NEW res \in Seq(Samples), NEW n \in Nat, n <= Len(res), AreIn(t, res, n),
           NEW p, DOMAIN u = DOMAIN t \cup {p}, \A q \in DOMAIN t \ {p} : u[q] = t[q],
           u[p].base = IF p \in DOMAIN t THEN t[p].base ELSE 0
    PROVE  AreIn(u, res, n)
  <1>1. ASSUME p \notin DOMAIN t PROVE u[p].base = SumFunctionOnSet(CountOf(res), StacksOf(res, n, p))
    <2>1. StacksOf(res, n, p) = {}
      BY <1>1 DEF StacksOf, AreIn
    <2> QED
      BY <1>1, <2>1, StacksAdd
  <1> QED
    BY <1>1 DEF AreIn

\* And the top frame, which gets the samples.
LEMMA ArrivingAdds ==
    ASSUME NEW t, NEW u, NEW res \in Seq(Samples), NEW n \in Nat, NEW m, m = n + 1, m <= Len(res), AreIn(t, res, n),
           NEW p, p = res[m].frames, DOMAIN u = DOMAIN t \cup {p}, \A q \in DOMAIN t \ {p} : u[q] = t[q],
           u[p].base = (IF p \in DOMAIN t THEN t[p].base ELSE 0) + res[m].count
    PROVE  AreIn(u, res, m)
  <1>1. m \in Nat /\ n <= Len(res) /\ 1 .. m = (1 .. n) \cup {m} /\ m \notin 1 .. n /\ Len(res) \in Nat
    BY LenProperties
  <1>2. m \in DOMAIN res /\ res[m] \in Samples
    BY <1>1, ElementOfSeq, LenProperties
  <1> DEFINE sum == SumFunctionOnSet(CountOf(res), StacksOf(res, n, p))
  <1>3. (IF p \in DOMAIN t THEN t[p].base ELSE 0) = sum
    <2>1. CASE p \in DOMAIN t
      BY <2>1 DEF AreIn
    <2>2. CASE p \notin DOMAIN t
      <3>1. StacksOf(res, n, p) = {}
        BY <2>2 DEF StacksOf, AreIn
      <3> QED
        BY <1>1, <2>2, <3>1, StacksAdd
    <2> QED
      BY <2>1, <2>2
  <1>4. \A q : q # p => StacksOf(res, m, q) = StacksOf(res, n, q)
    BY <1>1 DEF StacksOf
  <1>5. SumFunctionOnSet(CountOf(res), StacksOf(res, m, p)) = sum + res[m].count
    <2>1. PICK f, I, J : f = CountOf(res) /\ I = StacksOf(res, n, p) /\ J = StacksOf(res, m, p)
      OBVIOUS
    <2>2. J = I \cup {m} /\ m \notin I
      BY <1>1, <2>1 DEF StacksOf
    <2>3. Summable(f, I) /\ Summable(f, J)
      BY <1>1, <2>1, StacksAdd
    <2>4. SumFunctionOnSet(f, I \cup {m}) = SumFunctionOnSet(f, I) + f[m]
      BY <2>2, <2>3, SumGrows
    <2>5. f[m] = res[m].count
      BY <1>2, <2>1 DEF CountOf
    <2> QED
      BY <2>1, <2>2, <2>4, <2>5
  <1>6. u[p].base = SumFunctionOnSet(CountOf(res), StacksOf(res, m, p))
    BY <1>3, <1>5
  <1>7. \A q \in DOMAIN u : u[q].base = SumFunctionOnSet(CountOf(res), StacksOf(res, m, q))
    BY <1>4, <1>6 DEF AreIn
  <1>8. \A i \in 1 .. m : res[i].frames \in DOMAIN u
    BY <1>1 DEF AreIn
  <1> QED
    BY <1>7, <1>8 DEF AreIn

LEMMA OneFrameLess ==
    ASSUME NEW S, NEW p \in Seq(S), NEW r \in Seq(S), r # <<>>
    PROVE  /\ Append(p, Head(r)) \o Tail(r) = p \o r
           /\ Tail(r) = <<>> => Append(p, Head(r)) = p \o r
  <1>1. /\ Head(r) \in S /\ Head(r) = r[1] /\ Tail(r) \in Seq(S) /\ Len(Tail(r)) = Len(r) - 1
        /\ \A i \in 1 .. (Len(r) - 1) : Tail(r)[i] = r[i + 1]
        /\ Len(r) \in Nat \ {0} /\ Len(p) \in Nat
    BY HeadTailProperties, EmptySeq, LenProperties
  <1>2. PICK a \in Seq(S) : a = Append(p, Head(r))
    BY <1>1, AppendProperties
  <1>3. /\ Len(a) = Len(p) + 1 /\ a[Len(p) + 1] = r[1] /\ \A i \in 1 .. Len(p) : a[i] = p[i]
    BY <1>1, <1>2, AppendProperties
  <1>4. PICK t \in Seq(S) : t = Tail(r)
    BY <1>1
  <1>5. PICK n \in Nat : n = Len(p)
    BY <1>1
  <1>6. PICK k \in Nat \ {0} : k = Len(r)
    BY <1>1
  <1>7. /\ Len(a) = n + 1 /\ a[n + 1] = r[1] /\ \A i \in 1 .. n : a[i] = p[i]
        /\ Len(t) = k - 1 /\ \A i \in 1 .. (k - 1) : t[i] = r[i + 1]
    BY <1>1, <1>3, <1>4, <1>5, <1>6
  <1>8. PICK x \in Seq(S) : x = a \o t
    BY ConcatProperties
  <1>9. PICK y \in Seq(S) : y = p \o r
    BY ConcatProperties
  <1>10. /\ Len(x) = Len(a) + Len(t)
         /\ \A i \in 1 .. (Len(a) + Len(t)) : x[i] = IF i <= Len(a) THEN a[i] ELSE t[i - Len(a)]
    BY <1>8, ConcatProperties
  <1>11. /\ Len(y) = Len(p) + Len(r)
         /\ \A i \in 1 .. (Len(p) + Len(r)) : y[i] = IF i <= Len(p) THEN p[i] ELSE r[i - Len(p)]
    BY <1>9, ConcatProperties
  <1>12. /\ Len(x) = n + k /\ Len(y) = n + k
         /\ \A i \in 1 .. (n + k) : /\ x[i] = IF i <= n + 1 THEN a[i] ELSE t[i - (n + 1)]
                                    /\ y[i] = IF i <= n THEN p[i] ELSE r[i - n]
    <2>1. Len(a) + Len(t) = n + k
      BY <1>7
    <2> QED
      BY <1>5, <1>6, <1>7, <1>10, <1>11, <2>1
  <1>13. ASSUME NEW i \in 1 .. (n + k) PROVE x[i] = y[i]
    <2>1. CASE i <= n
      BY <1>12, <1>7, <2>1
    <2>2. CASE i = n + 1
      <3>1. x[i] = a[i] /\ y[i] = r[i - n]
        BY <1>12, <2>2
      <3>2. i - n = 1
        BY <2>2
      <3> QED
        BY <1>7, <2>2, <3>1, <3>2
    <2>3. CASE i > n + 1
      <3>1. x[i] = t[i - (n + 1)] /\ y[i] = r[i - n]
        BY <1>12, <2>3
      <3>2. PICK j \in 1 .. (k - 1) : j = i - (n + 1)
        BY <2>3
      <3>3. t[j] = r[j + 1] /\ j + 1 = i - n
        BY <1>7, <3>2
      <3> QED
        BY <3>1, <3>2, <3>3
    <2> QED
      BY <2>1, <2>2, <2>3
  <1>14. x = y
    BY <1>12, <1>13, SeqEqual
  <1>15. t = <<>> => a \o t = a
    BY ConcatEmptySeq
  <1> QED
    BY <1>2, <1>4, <1>8, <1>9, <1>14, <1>15
\* The stacks whose samples are in the tree: all of those added but the one on its way.
Inserted == IF rest = <<>> THEN added ELSE added - 1

DumpInv ==
    /\ step = "parse" => added = 0 /\ rest = <<>>
    /\ added <= Len(result)
    /\ rest # <<>> =>
        added > 0 /\ at \o rest = result[added].frames /\ amount = result[added].count
    /\ AreIn(tree, result, Inserted)
    /\ step = "exit" /\ ~ failed => DumpHolds

LEMMA DumpInitial ==
    ASSUME Init
    PROVE  DumpInv
  <1>1. step = "parse" /\ added = 0 /\ rest = <<>> /\ result = <<>>
    BY DEF Init, ParseInit, TreeInit
  <1>2. \A p \in DOMAIN tree : tree[p].base = 0
    BY DEF Init, TreeInit, NewNode
  <1>3. Inserted = 0 /\ result \in Seq(Samples) /\ Len(result) = 0
    BY <1>1, EmptySeq DEF Inserted
  <1>4. AreIn(tree, result, 0)
    BY <1>2, <1>3, NoneIn
  <1> QED
    BY <1>1, <1>3, <1>4 DEF DumpInv

\* A line changes the stacks only while none of them is in the tree.
LEMMA ParseKeepsDump ==
    ASSUME CountsInv, DumpInv, Parse
    PROVE  DumpInv'
  <1>1. /\ step = "parse" /\ step' = "parse" /\ added = 0 /\ added' = 0 /\ rest = <<>> /\ rest' = <<>>
        /\ tree' = tree /\ AreIn(tree, result, 0)
    BY DEF Parse, treeVars, DumpInv, Inserted
  <1>2. result \in Seq(Samples) /\ result' \in Seq(Samples)
    BY ReadTyped DEF Parse, CountsInv, ParseInv
  <1>3. PICK r \in Seq(Samples) : r = result'
    BY <1>2
  <1>4. AreIn(tree, r, 0)
    BY <1>1, <1>2, NoneIn
  <1>5. 0 <= Len(r)
    BY LenProperties
  <1>6. AreIn(tree', result', 0)
    BY <1>1, <1>3, <1>4
  <1> QED
    BY <1>1, <1>3, <1>5, <1>6 DEF DumpInv, Inserted

LEMMA AddKeepsDump ==
    ASSUME CountsInv, DumpInv, Add
    PROVE  DumpInv'
  <1>1. /\ step = "add" /\ step' = "add" /\ rest = <<>> /\ added < Len(result) /\ added' = added + 1 /\ added \in Nat
        /\ result' = result /\ at' = <<>> /\ rest' = result[added + 1].frames
        /\ amount' = result[added + 1].count
        /\ tree' = [tree EXCEPT ![<<>>] = [base |-> @.base, count |-> @.count + result[added + 1].count]]
        /\ result \in Seq(Samples) /\ Len(result) \in Nat
    BY LenProperties DEF Add, AddStack, parseVars, CountsInv, ParseInv
  <1>2. result[added + 1] \in Samples
    <2>1. added + 1 \in 1 .. Len(result)
      BY <1>1
    <2> QED
      BY <1>1, <2>1, ElementOfSeq
  <1>3. rest' \in Seq(Names) /\ rest' # <<>>
    BY <1>1, <1>2 DEF Samples
  <1>4. at' \o rest' = rest'
    BY <1>1, <1>3, ConcatEmptySeq
  <1>5. AreIn(tree, result, added)
    BY <1>1 DEF DumpInv, Inserted
  <1>6. DOMAIN tree' = DOMAIN tree /\ \A p \in DOMAIN tree : tree'[p].base = tree[p].base
    BY <1>1
  <1>7. AreIn(tree', result', added)
    BY <1>1, <1>5, <1>6 DEF AreIn
  <1>8. Inserted' = added
    BY <1>1, <1>3 DEF Inserted
  <1> QED
    BY <1>1, <1>3, <1>4, <1>7, <1>8 DEF DumpInv

\* A frame on the way keeps the samples where they are; the top frame gets those of the stack.
LEMMA InsertKeepsDump ==
    ASSUME CountsInv, DumpInv, Insert
    PROVE  DumpInv'
  <1>1. /\ step = "add" /\ step' = "add" /\ rest # <<>> /\ rest' = Tail(rest) /\ added' = added /\ added \in Nat
        /\ result' = result /\ amount' = amount /\ at' = Append(at, Head(rest))
        /\ result \in Seq(Samples) /\ Len(result) \in Nat /\ rest \in Seq(Names) /\ amount \in Nat
    BY LenProperties DEF Insert, InsertFrame, parseVars, CountsInv, ParseInv, TreeInv, TreeTyped
  <1>2. added > 0 /\ added <= Len(result) /\ at \o rest = result[added].frames /\ amount = result[added].count
    BY <1>1 DEF DumpInv
  <1>3. at \in Seq(Names)
    BY DEF CountsInv, TreeInv, TreeTyped, IsTree
  <1>4. at' \o rest' = at \o rest /\ (rest' = <<>> => at' = at \o rest)
    BY <1>1, <1>3, OneFrameLess
  <1>5. PICK n \in Nat : added = n + 1
    BY <1>1, <1>2
  <1>6. AreIn(tree, result, n) /\ n <= Len(result)
    BY <1>1, <1>2, <1>5 DEF DumpInv, Inserted
  <1>7. PICK p : p = at'
    OBVIOUS
  <1>8. PICK u : u = tree'
    OBVIOUS
  <1>9. /\ DOMAIN u = DOMAIN tree \cup {p} /\ \A q \in DOMAIN tree \ {p} : u[q] = tree[q]
        /\ u[p].base = (IF p \in DOMAIN tree THEN tree[p].base ELSE 0) + (IF Len(rest) = 1 THEN amount ELSE 0)
    <2>1. tree' = [q \in DOMAIN tree \cup {p} |->
                     IF q = p THEN [base |-> GetOrCreate(p).base + (IF Len(rest) = 1 THEN amount ELSE 0),
                                    count |-> GetOrCreate(p).count + amount]
                     ELSE tree[q]]
      BY <1>1, <1>7 DEF Insert, InsertFrame, PutNode
    <2>2. GetOrCreate(p).base = IF p \in DOMAIN tree THEN tree[p].base ELSE 0
      BY DEF GetOrCreate, NewNode
    <2> QED
      BY <1>8, <2>1, <2>2
  <1>10. Len(rest) = 1 <=> rest' = <<>>
    <2>1. PICK r \in Seq(Names) : r = Tail(rest) /\ Len(r) = Len(rest) - 1
      BY <1>1, HeadTailProperties
    <2>2. r = <<>> <=> Len(r) = 0
      BY EmptySeq
    <2>3. Len(rest) \in Nat
      BY <1>1, LenProperties
    <2> QED
      BY <1>1, <2>1, <2>2, <2>3
  <1>11. CASE rest' = <<>>
    <2>1. p = result[added].frames
      BY <1>2, <1>4, <1>7, <1>11
    <2>2. u[p].base = (IF p \in DOMAIN tree THEN tree[p].base ELSE 0) + result[added].count
      BY <1>2, <1>9, <1>10, <1>11
    <2>3. AreIn(u, result, added)
      BY <1>1, <1>2, <1>5, <1>6, <1>9, <2>1, <2>2, ArrivingAdds
    <2>4. Inserted' = added
      BY <1>1, <1>11 DEF Inserted
    <2> QED
      BY <1>1, <1>2, <1>8, <1>11, <2>3, <2>4 DEF DumpInv
  <1>12. CASE rest' # <<>>
    <2>1. u[p].base = IF p \in DOMAIN tree THEN tree[p].base ELSE 0
      <3>1. CASE p \in DOMAIN tree
        <4>1. tree[p].base \in Nat
          BY <3>1 DEF CountsInv, TreeInv, TreeTyped, IsTree
        <4> QED
          BY <1>9, <1>10, <1>12, <3>1, <4>1
      <3>2. CASE p \notin DOMAIN tree
        BY <1>9, <1>10, <1>12, <3>2
      <3> QED
        BY <3>1, <3>2
    <2>2. AreIn(u, result, n)
      BY <1>1, <1>6, <1>9, <2>1, PassingKeeps
    <2>3. Inserted' = n
      BY <1>1, <1>5, <1>12 DEF Inserted
    <2> QED
      BY <1>1, <1>2, <1>4, <1>8, <1>12, <2>2, <2>3 DEF DumpInv
  <1> QED
    BY <1>11, <1>12

\* With every stack in the tree, the nodes with samples are the stacks that were parsed.
LEMMA DumpIsRight ==
    ASSUME CountsInv, DumpInv, DumpTree
    PROVE  DumpHolds'
  <1>1. /\ rest = <<>> /\ added = Len(result) /\ result' = result /\ printed' = Dump
        /\ result \in Seq(Samples) /\ DOMAIN result = 1 .. Len(result)
    BY LenProperties DEF DumpTree, AllAdded, parseVars, CountsInv, ParseInv
  <1>2. AreIn(tree, result, Len(result))
    BY <1>1 DEF DumpInv, Inserted
  <1>3. \A p : SumFunctionOnSet(CountOf(result), StacksOf(result, Len(result), p)) = SamplesOf(p)
    BY <1>1 DEF CountOf, StacksOf, SamplesOf
  <1>4. \A p \in DOMAIN tree : tree[p].base = SamplesOf(p)
    BY <1>2, <1>3 DEF AreIn
  <1>5. \A p : SamplesOf(p) # 0 => \E i \in DOMAIN result : result[i].frames = p
    <2>1. SUFFICES ASSUME NEW p, SamplesOf(p) # 0 PROVE \E i \in DOMAIN result : result[i].frames = p
      OBVIOUS
    <2>2. PICK n \in Nat : n = Len(result) /\ n <= Len(result)
      BY <1>1, LenProperties
    <2>3. StacksOf(result, n, p) = {} => SumFunctionOnSet(CountOf(result), StacksOf(result, n, p)) = 0
      BY <1>1, <2>2, StacksAdd
    <2>4. StacksOf(result, n, p) # {}
      BY <1>3, <2>1, <2>2, <2>3
    <2> QED
      BY <1>1, <2>2, <2>4 DEF StacksOf
  <1>6. ToSet(result) = {result[i] : i \in DOMAIN result}
    BY DEF ToSet
  <1>7. \A r \in ToSet(result) : r.frames \in DOMAIN tree
    BY <1>1, <1>2, <1>6 DEF AreIn
  <1>8. {s \in ToSet(result) : SamplesOf(s.frames) > 0} \in SUBSET ToSet(result)
    OBVIOUS
  <1>9. \A p \in DOMAIN tree : tree[p].base > 0 =>
            \E r \in ToSet(result) : r.frames = p /\ SamplesOf(r.frames) > 0
    <2>1. SUFFICES ASSUME NEW p \in DOMAIN tree, tree[p].base > 0
                   PROVE  \E r \in ToSet(result) : r.frames = p /\ SamplesOf(r.frames) > 0
      OBVIOUS
    <2>2. SamplesOf(p) > 0 /\ SamplesOf(p) # 0
      BY <1>4, <2>1
    <2>3. PICK i \in DOMAIN result : result[i].frames = p
      BY <1>5, <2>2
    <2> QED
      BY <1>6, <2>2, <2>3
  <1>10. ASSUME NEW x \in Dump
         PROVE  x \in {<<r.frames, SamplesOf(r.frames)>> : r \in {s \in ToSet(result) : SamplesOf(s.frames) > 0}}
    <2>1. PICK p \in DOMAIN tree : tree[p].base > 0 /\ x = <<p, tree[p].base>>
      BY <1>10 DEF Dump
    <2>2. PICK r \in ToSet(result) : r.frames = p /\ SamplesOf(r.frames) > 0
      BY <1>9, <2>1
    <2> QED
      BY <1>4, <2>1, <2>2
  <1>11. ASSUME NEW x \in {<<r.frames, SamplesOf(r.frames)>> : r \in {s \in ToSet(result) : SamplesOf(s.frames) > 0}}
         PROVE  x \in Dump
    <2>1. PICK r \in ToSet(result) : SamplesOf(r.frames) > 0 /\ x = <<r.frames, SamplesOf(r.frames)>>
      BY <1>11
    <2>2. r.frames \in DOMAIN tree /\ tree[r.frames].base = SamplesOf(r.frames)
      BY <1>4, <1>7, <2>1
    <2> QED
      BY <2>1, <2>2 DEF Dump
  <1>12. Dump = {<<r.frames, SamplesOf(r.frames)>> : r \in {s \in ToSet(result) : SamplesOf(s.frames) > 0}}
    BY <1>10, <1>11
  <1> QED
    BY <1>1, <1>12 DEF DumpHolds, SamplesOf

IsDumpOf(lines, res) ==
    LET total(frames) == SumFunctionOnSet([i \in DOMAIN res |-> res[i].count],
                                          {i \in DOMAIN res : res[i].frames = frames})
    IN lines = {<<r.frames, total(r.frames)>> : r \in {s \in ToSet(res) : total(s.frames) > 0}}

LEMMA DumpStep == CountsInv /\ DumpInv /\ [Next]_vars => DumpInv'
  <1> SUFFICES ASSUME CountsInv, DumpInv, [Next]_vars PROVE DumpInv'
    OBVIOUS
  <1>1. ASSUME UNCHANGED <<parseVars, treeVars, added>>, step' # "parse" \/ step' = step
        PROVE  /\ step' = "parse" => added' = 0 /\ rest' = <<>>
               /\ added' <= Len(result')
               /\ rest' # <<>> => added' > 0 /\ at' \o rest' = result'[added'].frames /\ amount' = result'[added'].count
               /\ AreIn(tree', result', Inserted')
               /\ failed' = failed
               /\ printed' = printed /\ DumpHolds => DumpHolds'
    <2>1. (DumpHolds <=> IsDumpOf(printed, result)) /\ (DumpHolds' <=> IsDumpOf(printed', result'))
      BY DEF DumpHolds, SamplesOf, IsDumpOf
    <2>2. result' = result /\ failed' = failed
      BY <1>1 DEF parseVars
    <2>3. printed' = printed /\ DumpHolds => DumpHolds'
      BY <2>1, <2>2
    <2> QED
      BY <1>1, <2>2, <2>3 DEF DumpInv, treeVars, Inserted
  <1>2. CASE Parse
    BY <1>2, ParseKeepsDump
  <1>3. CASE ParseFails
    BY <1>1, <1>3 DEF ParseFails, DumpInv
  <1>4. CASE ParseEnds \/ Browse
    BY <1>1, <1>4 DEF ParseEnds, Browse, DumpInv
  <1>5. CASE Add
    BY <1>5, AddKeepsDump
  <1>6. CASE Insert
    BY <1>6, InsertKeepsDump
  <1>7. CASE DumpTree
    BY <1>1, <1>7, DumpIsRight DEF DumpTree, DumpInv
  <1>8. CASE Turn \/ UNCHANGED vars
    BY <1>1, <1>8 DEF Turn, DumpInv, vars
  <1> QED
    BY <1>2, <1>3, <1>4, <1>5, <1>6, <1>7, <1>8 DEF Next, Done

\* Whatever the file and its format, what --dump prints is what was parsed: each stack once,
\* with the samples of all its lines.
THEOREM DumpAlwaysHolds == Spec => [](step = "exit" /\ ~ failed => DumpHolds)
  <1>1. Init => DumpInv
    BY DumpInitial
  <1>2. DumpInv => (step = "exit" /\ ~ failed => DumpHolds)
    BY DEF DumpInv
  <1> QED
    BY <1>1, <1>2, DumpStep, CountsInitial, CountsStep, PTL DEF Spec

=============================================================================
