--------------------------- MODULE TotalsTheorems ---------------------------
(***************************************************************************)
(* Facts about Total, the sum of a natural-valued function over a finite   *)
(* domain.                                                                 *)
(***************************************************************************)
EXTENDS Totals, Integers, FiniteSetTheorems, FunctionTheorems, TLAPS

\* The units of finitely many weights are finitely many, so their sum is a natural number.
LEMMA TotalType ==
    ASSUME NEW D, IsFiniteSet(D), NEW f \in [D -> Nat]
    PROVE  /\ IsFiniteSet(Units(f))
           /\ Total(f) \in Nat
<1> DEFINE block == [k \in D |-> {k} \X (1..f[k])]
           blocks == {block[k] : k \in D}
<1>1. block \in Surjection(D, blocks)
  BY DEF Surjection
<1>2. IsFiniteSet(blocks)
  BY <1>1, FS_Surjection
<1>3. \A b \in blocks : IsFiniteSet(b)
  <2> SUFFICES ASSUME NEW k \in D
               PROVE  IsFiniteSet({k} \X (1..f[k]))
    OBVIOUS
  <2>1. f[k] \in Nat
    OBVIOUS
  <2>2. IsFiniteSet(1..f[k])
    BY <2>1, FS_Interval
  <2> QED
    BY <2>2, FS_Singleton, FS_Product
<1>4. Units(f) = UNION blocks
  BY DEF Units
<1>5. IsFiniteSet(Units(f))
  BY <1>2, <1>3, <1>4, FS_UNION
<1> QED
  BY <1>5, FS_CardinalityType DEF Total

\* More elements with larger weights have a larger sum.
LEMMA TotalMonotone ==
    ASSUME NEW E, IsFiniteSet(E), NEW D, D \subseteq E,
           NEW f \in [D -> Nat], NEW g \in [E -> Nat],
           \A k \in D : f[k] <= g[k]
    PROVE  Total(f) <= Total(g)
<1>1. Units(f) \subseteq Units(g)
  <2> SUFFICES ASSUME NEW k \in D, NEW n \in 1..f[k]
               PROVE  <<k, n>> \in Units(g)
    BY DEF Units
  <2>1. k \in E /\ n \in 1..g[k]
    OBVIOUS
  <2> QED
    BY <2>1 DEF Units
<1> QED
  BY <1>1, TotalType, FS_Subset DEF Total

\* One element's weight can be taken out of the sum.
LEMMA TotalSplit ==
    ASSUME NEW D, IsFiniteSet(D), NEW f \in [D -> Nat], NEW x \in D,
           NEW rest \in [D \ {x} -> Nat], \A k \in D \ {x} : rest[k] = f[k]
    PROVE  Total(f) = f[x] + Total(rest)
<1> DEFINE block == {x} \X (1..f[x])
<1>1. IsFiniteSet(D \ {x})
  BY FS_RemoveElement
<1>2. IsFiniteSet(Units(rest)) /\ Total(rest) \in Nat
  BY <1>1, TotalType
<1>3. IsFiniteSet(block) /\ Cardinality(block) = f[x]
  <2>1. f[x] \in Nat
    OBVIOUS
  <2>2. IsFiniteSet(1..f[x]) /\ Cardinality(1..f[x]) = f[x]
    BY <2>1, FS_Interval
  <2>3. IsFiniteSet({x}) /\ Cardinality({x}) = 1
    BY FS_Singleton
  <2>4. /\ IsFiniteSet({x} \X (1..f[x]))
        /\ Cardinality({x} \X (1..f[x])) = Cardinality({x}) * Cardinality(1..f[x])
    BY <2>2, <2>3, FS_Product, Zenon
  <2>5. Cardinality({x}) * Cardinality(1..f[x]) = f[x]
    BY <2>1, <2>2, <2>3
  <2> QED
    BY <2>4, <2>5
<1>4. Units(f) = block \cup Units(rest)
  BY DEF Units
<1>5. block \cap Units(rest) = {}
  BY DEF Units
<1>6. Cardinality(block \cap Units(rest)) = 0
  BY <1>5, FS_EmptySet
<1>7. Cardinality(Units(f)) =
        Cardinality(block) + Cardinality(Units(rest)) - Cardinality(block \cap Units(rest))
  BY <1>2, <1>3, <1>4, FS_Union
<1> QED
  BY <1>2, <1>3, <1>6, <1>7 DEF Total

\* A new element adds its weight to the sum.
LEMMA TotalAdd ==
    ASSUME NEW D, IsFiniteSet(D), NEW f \in [D -> Nat], NEW x, x \notin D, NEW n \in Nat
    PROVE  Total([k \in D \cup {x} |-> IF k = x THEN n ELSE f[k]]) = n + Total(f)
<1> DEFINE E == D \cup {x}
           g == [k \in E |-> IF k = x THEN n ELSE f[k]]
<1>1. IsFiniteSet(E) /\ x \in E
  BY FS_AddElement
<1>2. g \in [E -> Nat] /\ g[x] = n
  OBVIOUS
<1>3. f \in [E \ {x} -> Nat]
  <2>1. E \ {x} = D
    OBVIOUS
  <2> QED
    BY <2>1
<1>4. \A k \in E \ {x} : f[k] = g[k]
  OBVIOUS
<1> HIDE DEF E, g
<1>5. Total(g) = n + Total(f)
  BY <1>1, <1>2, <1>3, <1>4, TotalSplit
<1> QED
  BY <1>5 DEF g, E

\* Nothing adds up to zero.
LEMMA TotalEmpty ==
    ASSUME NEW f, DOMAIN f = {}
    PROVE  Total(f) = 0
<1>1. Units(f) = {}
  BY DEF Units
<1> QED
  BY <1>1, FS_EmptySet DEF Total

\* The units of a group are the units of its members.
LEMMA GroupUnits ==
    ASSUME NEW D, NEW f \in [D -> Nat], NEW E \in SUBSET D, NEW g \in [E -> Nat],
           \A k \in E : g[k] = f[k]
    PROVE  \A x : x \in Units(g) <=> x \in Units(f) /\ x[1] \in E
<1>1. ASSUME NEW x, x \in Units(g)
      PROVE  x \in Units(f) /\ x[1] \in E
  <2>1. PICK k \in E : \E n \in 1..f[k] : x = <<k, n>>
    BY <1>1 DEF Units
  <2> QED
    BY <2>1 DEF Units
<1>2. ASSUME NEW x, x \in Units(f), x[1] \in E
      PROVE  x \in Units(g)
  <2>1. PICK k \in D : \E n \in 1..f[k] : x = <<k, n>>
    BY <1>2 DEF Units
  <2> QED
    BY <1>2, <2>1 DEF Units
<1> QED
  BY <1>1, <1>2

\* A unit is an element with a number up to its weight.
LEMMA UnitParts ==
    ASSUME NEW G, NEW w \in [G -> Nat]
    PROVE  /\ \A u \in Units(w) : u[1] \in G /\ u[2] \in 1..w[u[1]] /\ u = <<u[1], u[2]>>
           /\ \A q \in G : \A n \in 1..w[q] : <<q, n>> \in Units(w)
<1>1. ASSUME NEW u \in Units(w)
      PROVE  u[1] \in G /\ u[2] \in 1..w[u[1]] /\ u = <<u[1], u[2]>>
  <2>1. PICK q \in G : u \in {q} \X (1..w[q])
    BY DEF Units
  <2> QED
    BY <2>1
<1>2. ASSUME NEW q \in G, NEW n \in 1..w[q]
      PROVE  <<q, n>> \in Units(w)
  BY DEF Units
<1> QED
  BY <1>1, <1>2

\* A set in parts, each counted by a weight, has as many elements as there are units.
LEMMA PartsCounted ==
    ASSUME NEW G, NEW w \in [G -> Nat], NEW S, NEW part \in [G -> SUBSET S],
           \A x \in S : \E q \in G : x \in part[q],
           \A q, r \in G : \A x \in part[q] : x \in part[r] => q = r,
           \A q \in G : ExistsBijection(1..w[q], part[q])
    PROVE  ExistsBijection(Units(w), S)
<1> DEFINE b == [q \in G |-> CHOOSE m : m \in Bijection(1..w[q], part[q])]
<1>b. \A q \in G : b[q] \in Bijection(1..w[q], part[q])
  BY DEF ExistsBijection
<1> HIDE DEF b
<1> DEFINE m == [u \in Units(w) |-> b[u[1]][u[2]]]
<1>1. ASSUME NEW q \in G
      PROVE  /\ \A i \in 1..w[q] : b[q][i] \in part[q]
             /\ \A i, j \in 1..w[q] : b[q][i] = b[q][j] => i = j
             /\ \A x \in part[q] : \E i \in 1..w[q] : b[q][i] = x
  <2> DEFINE I == 1..w[q]
             F == b[q]
             P == part[q]
  <2>1. F \in Bijection(I, P)
    BY <1>b
  <2> HIDE DEF I, F, P
  <2>2. /\ F \in [I -> P]
        /\ \A i, j \in I : F[i] = F[j] => i = j
        /\ \A x \in P : \E i \in I : F[i] = x
    BY <2>1, Fun_BijectionProperties
  <2>3. \A i \in I : F[i] \in P
    BY <2>2
  <2> QED
    BY <2>2, <2>3 DEF I, F, P
<1>2. ASSUME NEW u \in Units(w)
      PROVE  m[u] = b[u[1]][u[2]] /\ m[u] \in part[u[1]] /\ m[u] \in S
  <2>1. u[1] \in G /\ u[2] \in 1..w[u[1]]
    BY UnitParts
  <2>2. b[u[1]][u[2]] \in part[u[1]]
    BY <1>1, <2>1
  <2> QED
    BY <2>1, <2>2
<1>3. m \in [Units(w) -> S]
  BY <1>2
<1> HIDE DEF m
<1>4. ASSUME NEW u \in Units(w), NEW v \in Units(w), m[u] = m[v]
      PROVE  u = v
  <2>1. /\ u[1] \in G /\ u[2] \in 1..w[u[1]] /\ u = <<u[1], u[2]>>
        /\ v[1] \in G /\ v[2] \in 1..w[v[1]] /\ v = <<v[1], v[2]>>
    BY UnitParts
  <2>2. m[u] \in part[u[1]] /\ m[u] \in part[v[1]]
    BY <1>2, <1>4
  <2>3. u[1] = v[1]
    BY <2>1, <2>2
  <2>4. b[u[1]][u[2]] = b[u[1]][v[2]]
    BY <1>2, <1>4, <2>3
  <2>5. u[2] = v[2]
    BY <1>1, <2>1, <2>3, <2>4
  <2> QED
    BY <2>1, <2>3, <2>5
<1>5. ASSUME NEW x \in S
      PROVE  \E u \in Units(w) : m[u] = x
  <2>1. PICK q \in G : x \in part[q]
    OBVIOUS
  <2>2. PICK n \in 1..w[q] : b[q][n] = x
    BY <1>1, <2>1
  <2>3. <<q, n>> \in Units(w)
    BY UnitParts
  <2>4. m[<<q, n>>] = b[q][n]
    BY <1>2, <2>3
  <2> QED
    BY <2>2, <2>3, <2>4
<1>6. m \in Bijection(Units(w), S)
  BY <1>3, <1>4, <1>5, Fun_IsBij
<1> QED
  BY <1>6 DEF ExistsBijection

\* The weights of the elements that h puts into group q.
Share(f, h, q) == [k \in {j \in DOMAIN f : h[j] = q} |-> f[k]]

LEMMA ShareType ==
    ASSUME NEW D, IsFiniteSet(D), NEW f \in [D -> Nat], NEW h, NEW q
    PROVE  /\ DOMAIN Share(f, h, q) \in SUBSET D
           /\ Share(f, h, q) \in [DOMAIN Share(f, h, q) -> Nat]
           /\ \A k : k \in DOMAIN Share(f, h, q) <=> k \in D /\ h[k] = q
           /\ \A k \in DOMAIN Share(f, h, q) : Share(f, h, q)[k] = f[k]
           /\ IsFiniteSet(Units(Share(f, h, q)))
           /\ Total(Share(f, h, q)) \in Nat
<1> DEFINE E == {j \in D : h[j] = q}
<1>1. /\ E \in SUBSET D
      /\ DOMAIN Share(f, h, q) = E
      /\ Share(f, h, q) \in [E -> Nat]
      /\ \A k \in E : Share(f, h, q)[k] = f[k]
  BY DEF Share
<1>2. IsFiniteSet(E)
  BY FS_Subset
<1>3. \A k : k \in E <=> k \in D /\ h[k] = q
  OBVIOUS
<1> HIDE DEF E
<1> QED
  BY <1>1, <1>2, <1>3, TotalType

\* The sum over groups of the sums in each group is the sum over all.
LEMMA TotalByGroups ==
    ASSUME NEW D, IsFiniteSet(D), NEW f \in [D -> Nat],
           NEW G, IsFiniteSet(G), NEW h \in [D -> G],
           NEW w \in [G -> Nat], \A q \in G : w[q] = Total(Share(f, h, q))
    PROVE  Total(w) = Total(f)
<1> DEFINE part == [q \in G |-> Units(Share(f, h, q))]
<1>1. ASSUME NEW q \in G
      PROVE  ExistsBijection(1..w[q], part[q])
  BY ShareType, FS_CardinalityType DEF Total
<1>3. ASSUME NEW q \in G, NEW x
      PROVE  x \in part[q] <=> x \in Units(f) /\ h[x[1]] = q
  <2> DEFINE E == DOMAIN Share(f, h, q)
             g == Share(f, h, q)
  <2>1. \A y \in Units(f) : y[1] \in D
    BY UnitParts
  <2>2. /\ E \in SUBSET D /\ g \in [E -> Nat] /\ \A k \in E : g[k] = f[k]
        /\ \A k : k \in E <=> k \in D /\ h[k] = q
    BY ShareType
  <2>3. part[q] = Units(g)
    OBVIOUS
  <2> HIDE DEF E, g, part
  <2>4. x \in Units(g) <=> x \in Units(f) /\ x[1] \in E
    BY ONLY <2>2, f \in [D -> Nat], GroupUnits
  <2> QED
    BY <2>1, <2>2, <2>3, <2>4
<1>w. w \in [G -> Nat]
  OBVIOUS
<1>4. part \in [G -> SUBSET Units(f)]
  BY <1>3
<1>5. \A x \in Units(f) : \E q \in G : x \in part[q]
  BY <1>3, UnitParts
<1>6. \A q, r \in G : \A x \in part[q] : x \in part[r] => q = r
  BY <1>3
<1>7. \A q \in G : ExistsBijection(1..w[q], part[q])
  BY <1>1
<1>8. ExistsBijection(Units(w), Units(f))
  <2> DEFINE S == Units(f)
  <2>1. part \in [G -> SUBSET S] /\ \A x \in S : \E q \in G : x \in part[q]
    BY <1>4, <1>5
  <2> HIDE DEF part, S
  <2>2. ExistsBijection(Units(w), S)
    BY ONLY <1>w, <1>6, <1>7, <2>1, PartsCounted
  <2> QED
    BY <2>2 DEF S
<1>9. IsFiniteSet(Units(w))
  BY TotalType
<1> QED
  BY <1>8, <1>9, FS_Bijection DEF Total

\* Two sums over the same elements add up to the sum of the sums.
LEMMA TotalOfSums ==
    ASSUME NEW D, IsFiniteSet(D), NEW f \in [D -> Nat], NEW g \in [D -> Nat]
    PROVE  Total([k \in D |-> f[k] + g[k]]) = Total(f) + Total(g)
<1> DEFINE s == [k \in D |-> f[k] + g[k]]
           upper == Units(s) \ Units(f)
           m == [u \in Units(g) |-> <<u[1], f[u[1]] + u[2]>>]
<1>1. s \in [D -> Nat] /\ \A k \in D : s[k] = f[k] + g[k]
  OBVIOUS
<1> HIDE DEF s
<1>2. /\ \A u \in Units(s) : u[1] \in D /\ u[2] \in 1..s[u[1]] /\ u = <<u[1], u[2]>>
      /\ \A k \in D : \A n \in 1..s[k] : <<k, n>> \in Units(s)
  BY <1>1, UnitParts
<1>3. /\ \A u \in Units(f) : u[1] \in D /\ u[2] \in 1..f[u[1]] /\ u = <<u[1], u[2]>>
      /\ \A k \in D : \A n \in 1..f[k] : <<k, n>> \in Units(f)
  BY UnitParts
<1>4. /\ \A u \in Units(g) : u[1] \in D /\ u[2] \in 1..g[u[1]] /\ u = <<u[1], u[2]>>
      /\ \A k \in D : \A n \in 1..g[k] : <<k, n>> \in Units(g)
  BY UnitParts
<1>5. IsFiniteSet(Units(s)) /\ IsFiniteSet(Units(f)) /\ IsFiniteSet(Units(g))
  BY <1>1, TotalType
<1>6. ASSUME NEW k, NEW n
      PROVE  <<k, n>> \in upper <=> k \in D /\ n \in (f[k] + 1)..(f[k] + g[k])
  <2>1. <<k, n>> \in Units(s) <=> k \in D /\ n \in 1..s[k]
    BY <1>2
  <2>2. <<k, n>> \in Units(f) <=> k \in D /\ n \in 1..f[k]
    BY <1>3
  <2>3. CASE k \in D
    <3>1. f[k] \in Nat /\ g[k] \in Nat /\ s[k] = f[k] + g[k]
      BY <1>1, <2>3
    <3> QED
      BY <2>1, <2>2, <3>1
  <2> QED
    BY <2>1, <2>3
<1>7. ASSUME NEW u \in Units(g)
      PROVE  m[u] = <<u[1], f[u[1]] + u[2]>> /\ m[u] \in upper
  <2>1. u[1] \in D /\ u[2] \in 1..g[u[1]]
    BY <1>4
  <2>2. f[u[1]] \in Nat /\ g[u[1]] \in Nat
    BY <2>1
  <2>3. f[u[1]] + u[2] \in (f[u[1]] + 1)..(f[u[1]] + g[u[1]])
    BY <2>1, <2>2
  <2> QED
    BY <1>6, <2>1, <2>3
<1>8. m \in [Units(g) -> upper]
  BY <1>7
<1> HIDE DEF m
<1>9. ASSUME NEW u \in Units(g), NEW v \in Units(g), m[u] = m[v]
      PROVE  u = v
  <2>1. /\ u[1] \in D /\ u[2] \in 1..g[u[1]] /\ u = <<u[1], u[2]>>
        /\ v[1] \in D /\ v[2] \in 1..g[v[1]] /\ v = <<v[1], v[2]>>
    BY <1>4
  <2>2. u[1] = v[1] /\ f[u[1]] + u[2] = f[v[1]] + v[2]
    BY <1>7, <1>9
  <2>3. f[u[1]] \in Nat /\ g[u[1]] \in Nat /\ g[v[1]] \in Nat
    BY <2>1
  <2>4. u[2] = v[2]
    BY <2>1, <2>2, <2>3
  <2> QED
    BY <2>1, <2>2, <2>4
<1>10. ASSUME NEW x \in upper
       PROVE  \E u \in Units(g) : m[u] = x
  <2>1. x = <<x[1], x[2]>>
    BY <1>2
  <2>2. x[1] \in D /\ x[2] \in (f[x[1]] + 1)..(f[x[1]] + g[x[1]])
    BY <1>6, <2>1
  <2>3. f[x[1]] \in Nat /\ g[x[1]] \in Nat
    BY <2>2
  <2>4. x[2] - f[x[1]] \in 1..g[x[1]] /\ f[x[1]] + (x[2] - f[x[1]]) = x[2]
    BY <2>2, <2>3
  <2>5. <<x[1], x[2] - f[x[1]]>> \in Units(g)
    BY <1>4, <2>2, <2>4
  <2>6. m[<<x[1], x[2] - f[x[1]]>>] = x
    BY <1>7, <2>1, <2>4, <2>5
  <2> QED
    BY <2>5, <2>6
<1>11. m \in Bijection(Units(g), upper)
  BY <1>8, <1>9, <1>10, Fun_IsBij
<1>12. Cardinality(upper) = Cardinality(Units(g))
  BY <1>5, <1>11, FS_Bijection DEF ExistsBijection
<1>13. Units(s) \cap Units(f) = Units(f)
  <2>1. ASSUME NEW u \in Units(f)
        PROVE  u \in Units(s)
    <3>1. u[1] \in D /\ u[2] \in 1..f[u[1]] /\ u = <<u[1], u[2]>>
      BY <1>3
    <3>2. f[u[1]] \in Nat /\ g[u[1]] \in Nat /\ s[u[1]] = f[u[1]] + g[u[1]]
      BY <1>1, <3>1
    <3>3. u[2] \in 1..s[u[1]]
      BY <3>1, <3>2
    <3> QED
      BY <1>2, <3>1, <3>3
  <2> QED
    BY <2>1
<1>14. Cardinality(upper) = Cardinality(Units(s)) - Cardinality(Units(f))
  BY <1>5, <1>13, FS_Difference
<1>15. Total(s) \in Nat /\ Total(f) \in Nat /\ Total(g) \in Nat
  BY <1>1, TotalType
<1> QED
  BY <1>12, <1>14, <1>15 DEF Total, s

\* Equal weights add up to a product.
LEMMA TotalConstant ==
    ASSUME NEW D, IsFiniteSet(D), NEW n \in Nat
    PROVE  Total([k \in D |-> n]) = n * Cardinality(D)
<1>1. Units([k \in D |-> n]) = D \X (1..n)
  BY DEF Units
<1>2. IsFiniteSet(1..n) /\ Cardinality(1..n) = n
  BY FS_Interval
<1>3. Cardinality(D \X (1..n)) = Cardinality(D) * Cardinality(1..n)
  BY <1>2, FS_Product, Zenon
<1>4. Cardinality(D) \in Nat
  BY FS_CardinalityType
<1>5. \A a, b \in Nat : a * b = b * a
  OBVIOUS
<1>6. Cardinality(D) * n = n * Cardinality(D)
  BY <1>4, <1>5
<1> QED
  BY <1>1, <1>2, <1>3, <1>6 DEF Total

\* An amount of at most w[h[k]] for each k, under an h that does not repeat, adds up to at most w.
LEMMA TotalInjection ==
    ASSUME NEW D, IsFiniteSet(D), NEW f \in [D -> Nat],
           NEW E, IsFiniteSet(E), NEW w \in [E -> Nat], NEW h \in [D -> E],
           \A j, k \in D : h[j] = h[k] => j = k,
           \A k \in D : f[k] <= w[h[k]]
    PROVE  Total(f) <= Total(w)
<1> DEFINE m == [u \in Units(f) |-> <<h[u[1]], u[2]>>]
<1>1. /\ \A u \in Units(f) : u[1] \in D /\ u[2] \in 1..f[u[1]] /\ u = <<u[1], u[2]>>
      /\ \A q \in E : \A n \in 1..w[q] : <<q, n>> \in Units(w)
  BY UnitParts
<1>2. ASSUME NEW u \in Units(f) PROVE m[u] \in Units(w)
  <2>1. h[u[1]] \in E /\ u[2] \in 1..w[h[u[1]]]
    BY <1>1
  <2> QED
    BY <1>1, <2>1
<1>3. ASSUME NEW u \in Units(f), NEW v \in Units(f), m[u] = m[v] PROVE u = v
  <2>1. h[u[1]] = h[v[1]] /\ u[2] = v[2]
    BY <1>3
  <2>2. u[1] = v[1]
    BY <1>1, <2>1
  <2> QED
    BY <1>1, <2>1, <2>2
<1>4. m \in Injection(Units(f), Units(w))
  BY <1>2, <1>3, Fun_IsInj
<1>5. IsFiniteSet(Units(f)) /\ IsFiniteSet(Units(w))
  BY TotalType
<1> QED
  BY <1>4, <1>5, FS_Injection DEF Total

\* The sum over two parts.
LEMMA TotalDisjoint ==
    ASSUME NEW D, IsFiniteSet(D), NEW f \in [D -> Nat],
           NEW A \in SUBSET D, NEW B \in SUBSET D, A \cup B = D, A \cap B = {},
           NEW g \in [A -> Nat], \A k \in A : g[k] = f[k],
           NEW rest \in [B -> Nat], \A k \in B : rest[k] = f[k]
    PROVE  Total(f) = Total(g) + Total(rest)
<1>1. Units(f) = Units(g) \cup Units(rest)
  BY DEF Units
<1>2. Units(g) \cap Units(rest) = {}
  BY DEF Units
<1>3. IsFiniteSet(A) /\ IsFiniteSet(B)
  BY FS_Subset
<1>4. IsFiniteSet(Units(g)) /\ IsFiniteSet(Units(rest))
  BY <1>3, TotalType
<1>5. Cardinality(Units(g)) \in Nat /\ Cardinality(Units(rest)) \in Nat
  BY <1>4, FS_CardinalityType
<1>6. Cardinality(Units(g) \cup Units(rest))
        = Cardinality(Units(g)) + Cardinality(Units(rest)) - Cardinality(Units(g) \cap Units(rest))
  BY <1>4, FS_Union
<1>7. Cardinality(Units(g) \cap Units(rest)) = 0
  BY <1>2, FS_EmptySet
<1> QED
  BY <1>1, <1>5, <1>6, <1>7 DEF Total

\* What is done that is q.
Fiber(h, q) == {s \in DOMAIN h : h[s] = q}

\* Of what is done h[s], at most count[q] times for each q, at amount[q] a time, the total is at
\* most that of doing everything.
LEMMA TotalOfRuns ==
    ASSUME NEW G, IsFiniteSet(G), NEW amount \in [G -> Nat], NEW count \in [G -> Nat],
           NEW S, IsFiniteSet(S), NEW h \in [S -> G],
           \A q \in G : Cardinality(Fiber(h, q)) <= count[q],
           NEW f \in [S -> Nat], \A s \in S : f[s] = amount[h[s]],
           NEW all \in [G -> Nat], \A q \in G : all[q] = amount[q] * count[q]
    PROVE  Total(f) <= Total(all)
<1> DEFINE n == [q \in G |-> Cardinality(Fiber(h, q))]
           w == [q \in G |-> amount[q] * n[q]]
<1>1. ASSUME NEW q \in G PROVE n[q] \in Nat
  BY FS_Subset, FS_CardinalityType DEF Fiber
<1>2. ASSUME NEW q \in G PROVE w[q] = Total(Share(f, h, q))
  <2> DEFINE E == {s \in S : h[s] = q}
  <2>1. Share(f, h, q) = [s \in E |-> amount[q]]
    BY DEF Share
  <2>2. IsFiniteSet(E)
    BY FS_Subset
  <2>3. Total([s \in E |-> amount[q]]) = amount[q] * Cardinality(E)
    BY <2>2, TotalConstant
  <2> QED
    BY <2>1, <2>3 DEF Fiber
<1>3. \A a, b, c \in Nat : b <= c => a * b \in Nat /\ a * b <= a * c
  OBVIOUS
<1>4. \A q \in G : n[q] <= count[q]
  OBVIOUS
<1> HIDE DEF n
<1>5. ASSUME NEW q \in G PROVE w[q] \in Nat /\ w[q] <= all[q]
  BY <1>1, <1>3, <1>4
<1>6. w \in [G -> Nat]
  BY <1>5
<1> HIDE DEF w
<1>7. Total(w) = Total(f)
  BY <1>2, <1>6, TotalByGroups
<1>8. Total(w) <= Total(all)
  BY <1>5, <1>6, TotalMonotone
<1> QED
  BY <1>7, <1>8
=============================================================================
