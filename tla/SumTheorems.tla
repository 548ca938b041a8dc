---------------------------- MODULE SumTheorems ----------------------------
(***************************************************************************)
(* Facts about SumFunctionOnSet, the sums that the money and the power of  *)
(* the DAO are counted with.  The library's induction theorems take an     *)
(* operator as a parameter; here every induction is a least counterexample *)
(* in the well-founded order of the finite subsets of a set.               *)
(***************************************************************************)
EXTENDS Functions, FiniteSetTheorems, TLAPS

First(s) == CHOOSE x \in s : TRUE

(* g tabulates the sums of f over the subsets of S, as the fold does.      *)
SumsOver(g, f, S) ==
  g = [s \in SUBSET S |-> IF s = {} THEN 0
                          ELSE f[First(s)] + g[s \ {First(s)}]]

(* A set of subsets of a finite set that is not empty has a minimal member.*)
LEMMA MinimalSubset ==
  ASSUME NEW S, IsFiniteSet(S), NEW T, T \subseteq SUBSET S, T # {}
  PROVE  \E m \in T : \A s \in T : s \subseteq m => s = m
<1>1. IsWellFoundedOn(StrictSubsetOrdering(S), SUBSET S)
  BY FS_StrictSubsetOrderingWellFounded, FS_FiniteSubsetsOfFinite, Zenon
<1>2. PICK m \in T : \A s \in T : ~(<<s, m>> \in StrictSubsetOrdering(S))
  BY <1>1, WFMin
<1>3. ASSUME NEW s \in T, s \subseteq m, s # m PROVE FALSE
  <2>1. <<s, m>> \in StrictSubsetOrdering(S)
    BY <1>3, <1>2 DEF StrictSubsetOrdering
  <2>2. QED BY <2>1, <1>2
<1>4. QED BY <1>2, <1>3, Zenon

LEMMA FirstIn == ASSUME NEW s, s # {} PROVE First(s) \in s
BY DEF First

LEMMA SumsOverStep ==
  ASSUME NEW g, NEW f, NEW S, SumsOver(g, f, S), NEW s \in SUBSET S
  PROVE  /\ g[s] = IF s = {} THEN 0 ELSE f[First(s)] + g[s \ {First(s)}]
         /\ s \ {First(s)} \in SUBSET S
BY DEF SumsOver

(* Two tables agree on the subsets they share.                             *)
LEMMA SumsOverUnique ==
  ASSUME NEW f, NEW A, NEW B, IsFiniteSet(A), NEW g, NEW h,
         SumsOver(g, f, A), SumsOver(h, f, B), NEW s0 \in SUBSET (A \cap B)
  PROVE  g[s0] = h[s0]
<1> SUFFICES ASSUME g[s0] # h[s0] PROVE FALSE
  OBVIOUS
<1> DEFINE T == {s \in SUBSET (A \cap B) : g[s] # h[s]}
<1>1. IsFiniteSet(A \cap B) /\ T \subseteq SUBSET (A \cap B) /\ T # {}
  BY FS_Subset
<1> HIDE DEF T
<1>2. PICK m \in T : \A s \in T : s \subseteq m => s = m
  BY <1>1, MinimalSubset
<1>3. m \in SUBSET A /\ m \in SUBSET B /\ g[m] # h[m]
  BY DEF T
<1>4. g[m] = IF m = {} THEN 0 ELSE f[First(m)] + g[m \ {First(m)}]
  BY <1>3, SumsOverStep
<1>5. h[m] = IF m = {} THEN 0 ELSE f[First(m)] + h[m \ {First(m)}]
  BY <1>3, SumsOverStep
<1>6. m # {}
  BY <1>3, <1>4, <1>5
<1>7. g[m \ {First(m)}] = h[m \ {First(m)}]
  <2>1. m \ {First(m)} \subseteq m /\ m \ {First(m)} # m
    BY <1>6, FirstIn
  <2>2. m \ {First(m)} \notin T
    BY <1>2, <2>1
  <2>3. m \ {First(m)} \in SUBSET (A \cap B)
    BY <1>3
  <2> QED BY <2>2, <2>3 DEF T
<1>8. QED BY <1>3, <1>4, <1>5, <1>6, <1>7

TableOf(f, S) == CHOOSE g : SumsOver(g, f, S)

LEMMA TableSum ==
  ASSUME NEW f, NEW S
  PROVE  SumFunctionOnSet(f, S) = TableOf(f, S)[S]
BY DEF SumFunctionOnSet, FoldFunctionOnSet, MapThenFoldSet, TableOf, SumsOver, First

(* Every finite set has a table, and the fold finds it.                    *)
LEMMA SumsOverExist ==
  ASSUME NEW f, NEW S, IsFiniteSet(S)
  PROVE  SumsOver(TableOf(f, S), f, S)
<1> DEFINE T == {s \in SUBSET S : ~SumsOver(TableOf(f, s), f, s)}
<1> SUFFICES ASSUME T # {} PROVE FALSE
  BY Zenon
<1>1. T \subseteq SUBSET S
  OBVIOUS
<1> HIDE DEF T
<1>2. PICK m \in T : \A s \in T : s \subseteq m => s = m
  BY <1>1, MinimalSubset
<1> DEFINE h(s) == TableOf(f, s)[s]
           g == [s \in SUBSET m |-> IF s = {} THEN 0
                                    ELSE f[First(s)] + h(s \ {First(s)})]
<1>3. \A s \in SUBSET m : s # m => SumsOver(TableOf(f, s), f, s)
  <2>1. m \in SUBSET S
    BY <1>1
  <2> SUFFICES ASSUME NEW s \in SUBSET m, s # m PROVE SumsOver(TableOf(f, s), f, s)
    OBVIOUS
  <2>2. s \notin T /\ s \in SUBSET S
    BY <1>2, <2>1
  <2> QED BY <2>2 DEF T
<1>4. ASSUME NEW s \in SUBSET m, s # {}
      PROVE  g[s \ {First(s)}] = h(s \ {First(s)})
  <2> DEFINE r == s \ {First(s)}
             q == r \ {First(r)}
  <2>1. r \in SUBSET m /\ r # m /\ SumsOver(TableOf(f, r), f, r)
    BY <1>3, <1>4, FirstIn
  <2>2. CASE r = {}
    <3>1. TableOf(f, r)[r] = 0
      BY <2>1, <2>2, SumsOverStep
    <3> QED BY <3>1, <2>1, <2>2
  <2>3. CASE r # {}
    <3>1. q \in SUBSET r /\ q \in SUBSET m /\ q # m /\ q \subseteq r
      BY <2>1
    <3>2. SumsOver(TableOf(f, q), f, q) /\ IsFiniteSet(r) /\ q \in SUBSET (r \cap q)
      BY <1>1, <1>3, <3>1, <2>1, FS_Subset
    <3>3. TableOf(f, r)[q] = TableOf(f, q)[q]
      BY <2>1, <3>2, SumsOverUnique
    <3>4. TableOf(f, r)[r] = f[First(r)] + TableOf(f, r)[q]
      <4> HIDE DEF r, g, h
      <4>1. r \in SUBSET r
        OBVIOUS
      <4>2. TableOf(f, r)[r] = IF r = {} THEN 0
                               ELSE f[First(r)] + TableOf(f, r)[r \ {First(r)}]
        BY <2>1, <4>1, SumsOverStep
      <4> QED BY <4>2, <2>3
    <3>5. g[r] = f[First(r)] + h(q)
      BY <2>1, <2>3
    <3> QED BY <3>3, <3>4, <3>5
  <2> QED BY <2>2, <2>3
<1>5. SumsOver(g, f, m)
  <2>1. g = [s \in SUBSET m |-> IF s = {} THEN 0
                                ELSE f[First(s)] + g[s \ {First(s)}]]
    BY <1>4
  <2> HIDE DEF g
  <2> QED BY <2>1 DEF SumsOver
<1>6. SumsOver(TableOf(f, m), f, m)
  <2> HIDE DEF g
  <2> QED BY <1>5 DEF TableOf
<1>7. QED BY <1>6 DEF T

(* The sum over no index at all.                                           *)
LEMMA SumEmpty ==
  ASSUME NEW f
  PROVE  SumFunctionOnSet(f, {}) = 0
<1>1. SumsOver(TableOf(f, {}), f, {}) /\ {} \in SUBSET {}
  BY SumsOverExist, FS_EmptySet
<1>2. QED BY <1>1, SumsOverStep, TableSum

(* One step of the fold: the index it picks, and the rest.                 *)
LEMMA SumFirst ==
  ASSUME NEW f, NEW S, IsFiniteSet(S), S # {}
  PROVE  SumFunctionOnSet(f, S)
           = f[First(S)] + SumFunctionOnSet(f, S \ {First(S)})
<1> DEFINE R == S \ {First(S)}
<1>1. SumsOver(TableOf(f, S), f, S) /\ SumsOver(TableOf(f, R), f, R)
  BY SumsOverExist, FS_Subset
<1>2. R \in SUBSET (S \cap R) /\ S \in SUBSET S
  OBVIOUS
<1>3. TableOf(f, S)[R] = TableOf(f, R)[R]
  BY <1>1, <1>2, SumsOverUnique
<1>4. TableOf(f, S)[S] = IF S = {} THEN 0
                         ELSE f[First(S)] + TableOf(f, S)[S \ {First(S)}]
  BY <1>1, <1>2, SumsOverStep
<1>5. QED BY <1>3, <1>4, TableSum

(* Sums of integers are integers, sums of naturals naturals.               *)
LEMMA SumInt ==
  ASSUME NEW f, NEW S, IsFiniteSet(S), \A x \in S : f[x] \in Int
  PROVE  SumFunctionOnSet(f, S) \in Int
<1> DEFINE T == {s \in SUBSET S : SumFunctionOnSet(f, s) \notin Int}
<1> SUFFICES ASSUME T # {} PROVE FALSE
  OBVIOUS
<1>1. T \subseteq SUBSET S
  OBVIOUS
<1> HIDE DEF T
<1>2. PICK m \in T : \A s \in T : s \subseteq m => s = m
  BY <1>1, MinimalSubset
<1>3. m \in SUBSET S /\ IsFiniteSet(m) /\ SumFunctionOnSet(f, m) \notin Int
  BY FS_Subset DEF T
<1>4. m # {}
  BY <1>3, SumEmpty
<1>5. First(m) \in m
  BY <1>4, FirstIn
<1>6. m \ {First(m)} \notin T /\ m \ {First(m)} \in SUBSET S
  BY <1>2, <1>3, <1>5
<1>7. SumFunctionOnSet(f, m \ {First(m)}) \in Int
  BY <1>6 DEF T
<1>8. SumFunctionOnSet(f, m) = f[First(m)] + SumFunctionOnSet(f, m \ {First(m)})
  BY <1>3, <1>4, SumFirst
<1>9. QED BY <1>3, <1>5, <1>7, <1>8

LEMMA SumNat ==
  ASSUME NEW f, NEW S, IsFiniteSet(S), \A x \in S : f[x] \in Nat
  PROVE  SumFunctionOnSet(f, S) \in Nat
<1> DEFINE T == {s \in SUBSET S : SumFunctionOnSet(f, s) \notin Nat}
<1> SUFFICES ASSUME T # {} PROVE FALSE
  OBVIOUS
<1>1. T \subseteq SUBSET S
  OBVIOUS
<1> HIDE DEF T
<1>2. PICK m \in T : \A s \in T : s \subseteq m => s = m
  BY <1>1, MinimalSubset
<1>3. m \in SUBSET S /\ IsFiniteSet(m) /\ SumFunctionOnSet(f, m) \notin Nat
  BY FS_Subset DEF T
<1>4. m # {}
  BY <1>3, SumEmpty
<1>5. First(m) \in m
  BY <1>4, FirstIn
<1>6. m \ {First(m)} \notin T /\ m \ {First(m)} \in SUBSET S
  BY <1>2, <1>3, <1>5
<1>7. SumFunctionOnSet(f, m \ {First(m)}) \in Nat
  BY <1>6 DEF T
<1>8. SumFunctionOnSet(f, m) = f[First(m)] + SumFunctionOnSet(f, m \ {First(m)})
  BY <1>3, <1>4, SumFirst
<1>9. QED BY <1>3, <1>5, <1>7, <1>8

(* Only the values at the indices count.                                   *)
LEMMA SumSame ==
  ASSUME NEW f, NEW g, NEW S, IsFiniteSet(S), \A x \in S : f[x] = g[x]
  PROVE  SumFunctionOnSet(f, S) = SumFunctionOnSet(g, S)
<1> DEFINE T == {s \in SUBSET S :
                   SumFunctionOnSet(f, s) # SumFunctionOnSet(g, s)}
<1> SUFFICES ASSUME T # {} PROVE FALSE
  OBVIOUS
<1>1. T \subseteq SUBSET S
  OBVIOUS
<1> HIDE DEF T
<1>2. PICK m \in T : \A s \in T : s \subseteq m => s = m
  BY <1>1, MinimalSubset
<1>3. /\ m \in SUBSET S /\ IsFiniteSet(m)
      /\ SumFunctionOnSet(f, m) # SumFunctionOnSet(g, m)
  BY FS_Subset DEF T
<1>4. m # {}
  BY <1>3, SumEmpty
<1>5. First(m) \in m
  BY <1>4, FirstIn
<1>6. m \ {First(m)} \notin T /\ m \ {First(m)} \in SUBSET S
  BY <1>2, <1>3, <1>5
<1>7. SumFunctionOnSet(f, m \ {First(m)}) = SumFunctionOnSet(g, m \ {First(m)})
  BY <1>6 DEF T
<1>8. SumFunctionOnSet(f, m) = f[First(m)] + SumFunctionOnSet(f, m \ {First(m)})
  BY <1>3, <1>4, SumFirst
<1>9. SumFunctionOnSet(g, m) = g[First(m)] + SumFunctionOnSet(g, m \ {First(m)})
  BY <1>3, <1>4, SumFirst
<1>10. QED BY <1>3, <1>5, <1>7, <1>8, <1>9

(* Any index may be taken out first: the order of the fold does not matter.*)
LEMMA SumRemove ==
  ASSUME NEW f, NEW S, IsFiniteSet(S), \A x \in S : f[x] \in Int, NEW x \in S
  PROVE  SumFunctionOnSet(f, S) = f[x] + SumFunctionOnSet(f, S \ {x})
<1> DEFINE T == {s \in SUBSET S : \E y \in s :
                   SumFunctionOnSet(f, s) # f[y] + SumFunctionOnSet(f, s \ {y})}
<1> SUFFICES ASSUME T # {} PROVE FALSE
  OBVIOUS
<1>1. T \subseteq SUBSET S
  OBVIOUS
<1> HIDE DEF T
<1>2. PICK m \in T : \A s \in T : s \subseteq m => s = m
  BY <1>1, MinimalSubset
<1>3. m \in SUBSET S /\ IsFiniteSet(m)
  BY FS_Subset DEF T
<1>4. PICK y \in m : SumFunctionOnSet(f, m) # f[y] + SumFunctionOnSet(f, m \ {y})
  BY DEF T
<1> DEFINE z == First(m)
<1>5. SumFunctionOnSet(f, m) = f[z] + SumFunctionOnSet(f, m \ {z}) /\ z \in m
  BY <1>3, <1>4, SumFirst, FirstIn
<1> HIDE DEF z
<1>6. y # z
  BY <1>4, <1>5
<1>7. ASSUME NEW u \in m, NEW v \in m, u # v
      PROVE  SumFunctionOnSet(f, m \ {u})
               = f[v] + SumFunctionOnSet(f, (m \ {u}) \ {v})
  <2>1. m \ {u} \notin T /\ m \ {u} \in SUBSET S /\ v \in m \ {u}
    BY <1>2, <1>3, <1>7
  <2> QED BY <2>1 DEF T
<1>8. SumFunctionOnSet(f, m \ {z}) = f[y] + SumFunctionOnSet(f, (m \ {z}) \ {y})
  BY <1>5, <1>6, <1>7
<1>9. SumFunctionOnSet(f, m \ {y}) = f[z] + SumFunctionOnSet(f, (m \ {y}) \ {z})
  BY <1>5, <1>6, <1>7
<1>10. (m \ {z}) \ {y} = (m \ {y}) \ {z}
  OBVIOUS
<1>11. SumFunctionOnSet(f, (m \ {z}) \ {y}) \in Int
  <2>1. IsFiniteSet((m \ {z}) \ {y}) /\ \A w \in (m \ {z}) \ {y} : f[w] \in Int
    BY <1>3, FS_Subset
  <2> QED BY <2>1, SumInt
<1>12. f[y] \in Int /\ f[z] \in Int
  BY <1>3, <1>5
<1> DEFINE c == SumFunctionOnSet(f, (m \ {z}) \ {y})
<1>13. /\ SumFunctionOnSet(f, m \ {z}) = f[y] + c
       /\ SumFunctionOnSet(f, m \ {y}) = f[z] + c
       /\ c \in Int
  BY <1>8, <1>9, <1>10, <1>11
<1> HIDE DEF c
<1>14. f[z] + (f[y] + c) = f[y] + (f[z] + c)
  BY <1>12, <1>13
<1>15. QED BY <1>4, <1>5, <1>13, <1>14

(* A new index adds its value.                                             *)
LEMMA SumAdd ==
  ASSUME NEW f, NEW S, IsFiniteSet(S), NEW x, x \notin S,
         \A y \in S \cup {x} : f[y] \in Int
  PROVE  SumFunctionOnSet(f, S \cup {x}) = SumFunctionOnSet(f, S) + f[x]
<1>1. IsFiniteSet(S \cup {x}) /\ x \in S \cup {x}
  BY FS_AddElement
<1>2. SumFunctionOnSet(f, S \cup {x})
        = f[x] + SumFunctionOnSet(f, (S \cup {x}) \ {x})
  BY <1>1, SumRemove
<1>3. (S \cup {x}) \ {x} = S
  OBVIOUS
<1>4. SumFunctionOnSet(f, S) \in Int
  BY SumInt
<1>5. f[x] \in Int
  OBVIOUS
<1>6. SumFunctionOnSet(f, S \cup {x}) = f[x] + SumFunctionOnSet(f, S)
  BY <1>2, <1>3
<1>7. QED BY <1>4, <1>5, <1>6

(* When one value changes, the sum changes by as much.                     *)
LEMMA SumChange ==
  ASSUME NEW f, NEW g, NEW S, IsFiniteSet(S), NEW x \in S,
         \A y \in S : f[y] \in Int /\ g[y] \in Int,
         \A y \in S \ {x} : f[y] = g[y]
  PROVE  SumFunctionOnSet(g, S) = SumFunctionOnSet(f, S) + (g[x] - f[x])
<1>1. IsFiniteSet(S \ {x})
  BY FS_Subset
<1>2. SumFunctionOnSet(f, S \ {x}) = SumFunctionOnSet(g, S \ {x})
  BY <1>1, SumSame
<1>3. SumFunctionOnSet(f, S \ {x}) \in Int
  BY <1>1, SumInt
<1>4. SumFunctionOnSet(f, S) = f[x] + SumFunctionOnSet(f, S \ {x})
  BY SumRemove
<1>5. SumFunctionOnSet(g, S) = g[x] + SumFunctionOnSet(g, S \ {x})
  BY SumRemove
<1>6. f[x] \in Int /\ g[x] \in Int
  OBVIOUS
<1>7. QED BY <1>2, <1>3, <1>4, <1>5, <1>6

(* A sum of zeros.                                                         *)
LEMMA SumZero ==
  ASSUME NEW f, NEW S, IsFiniteSet(S), \A x \in S : f[x] = 0
  PROVE  SumFunctionOnSet(f, S) = 0
<1> DEFINE T == {s \in SUBSET S : SumFunctionOnSet(f, s) # 0}
<1> SUFFICES ASSUME T # {} PROVE FALSE
  OBVIOUS
<1>1. T \subseteq SUBSET S
  OBVIOUS
<1> HIDE DEF T
<1>2. PICK m \in T : \A s \in T : s \subseteq m => s = m
  BY <1>1, MinimalSubset
<1>3. m \in SUBSET S /\ IsFiniteSet(m) /\ SumFunctionOnSet(f, m) # 0
  BY FS_Subset DEF T
<1>4. m # {}
  BY <1>3, SumEmpty
<1>5. First(m) \in m
  BY <1>4, FirstIn
<1>6. m \ {First(m)} \notin T /\ m \ {First(m)} \in SUBSET S
  BY <1>2, <1>3, <1>5
<1>7. SumFunctionOnSet(f, m \ {First(m)}) = 0
  BY <1>6 DEF T
<1>8. SumFunctionOnSet(f, m) = f[First(m)] + SumFunctionOnSet(f, m \ {First(m)})
  BY <1>3, <1>4, SumFirst
<1>9. QED BY <1>3, <1>5, <1>7, <1>8

(* No part of a sum of naturals exceeds the whole.                         *)
LEMMA SumPart ==
  ASSUME NEW f, NEW S, IsFiniteSet(S), \A x \in S : f[x] \in Nat, NEW x \in S
  PROVE  f[x] <= SumFunctionOnSet(f, S)
<1>1. SumFunctionOnSet(f, S) = f[x] + SumFunctionOnSet(f, S \ {x})
  BY SumRemove
<1>2. SumFunctionOnSet(f, S \ {x}) \in Nat
  BY SumNat, FS_Subset
<1>3. f[x] \in Nat
  OBVIOUS
<1>4. QED BY <1>1, <1>2, <1>3

(* Indices whose value is zero may be left out.                            *)
LEMMA SumSupport ==
  ASSUME NEW f, NEW S, IsFiniteSet(S), NEW U \in SUBSET S,
         \A x \in S : f[x] \in Int /\ (x \notin U => f[x] = 0)
  PROVE  SumFunctionOnSet(f, S) = SumFunctionOnSet(f, U)
<1> DEFINE T == {s \in SUBSET S :
                   /\ U \subseteq s
                   /\ SumFunctionOnSet(f, s) # SumFunctionOnSet(f, U)}
<1> SUFFICES ASSUME T # {} PROVE FALSE
  OBVIOUS
<1>1. T \subseteq SUBSET S
  OBVIOUS
<1> HIDE DEF T
<1>2. PICK m \in T : \A s \in T : s \subseteq m => s = m
  BY <1>1, MinimalSubset
<1>3. /\ m \in SUBSET S /\ U \subseteq m /\ IsFiniteSet(m)
      /\ SumFunctionOnSet(f, m) # SumFunctionOnSet(f, U)
  BY FS_Subset DEF T
<1>4. PICK x \in m : x \notin U
  BY <1>3
<1>5. /\ m \ {x} \in SUBSET S /\ U \subseteq m \ {x}
      /\ m \ {x} \subseteq m /\ m \ {x} # m
  BY <1>3, <1>4
<1>6. SumFunctionOnSet(f, m \ {x}) = SumFunctionOnSet(f, U)
  <2>1. m \ {x} \notin T
    BY <1>2, <1>5
  <2> QED BY <1>5, <2>1 DEF T
<1>7. SumFunctionOnSet(f, m) = f[x] + SumFunctionOnSet(f, m \ {x})
  BY <1>3, <1>4, SumRemove
<1>8. SumFunctionOnSet(f, m \ {x}) \in Int
  BY <1>3, <1>5, FS_Subset, SumInt
<1>9. f[x] = 0
  BY <1>3, <1>4
<1>10. QED BY <1>3, <1>6, <1>7, <1>8, <1>9

(* The same values under other indices.                                    *)
LEMMA SumReindex ==
  ASSUME NEW S, IsFiniteSet(S), NEW V, IsFiniteSet(V), NEW b \in [S -> V],
         NEW f, NEW g,
         \A x, y \in S : b[x] = b[y] => x = y,
         \A x \in S : f[x] = g[b[x]] /\ f[x] \in Int
  PROVE  SumFunctionOnSet(f, S) = SumFunctionOnSet(g, {b[x] : x \in S})
<1> DEFINE image(s) == {b[x] : x \in s}
           T == {s \in SUBSET S :
                   SumFunctionOnSet(f, s) # SumFunctionOnSet(g, image(s))}
<1> SUFFICES ASSUME T # {} PROVE FALSE
  OBVIOUS
<1>1. T \subseteq SUBSET S
  OBVIOUS
<1> HIDE DEF T
<1>2. PICK m \in T : \A s \in T : s \subseteq m => s = m
  BY <1>1, MinimalSubset
<1>3. /\ m \in SUBSET S /\ IsFiniteSet(m)
      /\ SumFunctionOnSet(f, m) # SumFunctionOnSet(g, image(m))
  BY FS_Subset DEF T
<1>4. m # {}
  <2>1. SUFFICES ASSUME m = {} PROVE FALSE
    OBVIOUS
  <2>2. image(m) = {}
    BY <2>1
  <2> QED BY <1>3, <2>1, <2>2, SumEmpty
<1>5. PICK x \in m : TRUE
  BY <1>4
<1> DEFINE r == m \ {x}
<1>6. r \in SUBSET S /\ r \subseteq m /\ r # m
  BY <1>3
<1>7. SumFunctionOnSet(f, r) = SumFunctionOnSet(g, image(r))
  <2>1. r \notin T
    BY <1>2, <1>6
  <2> QED BY <1>6, <2>1 DEF T
<1>8. SumFunctionOnSet(f, m) = f[x] + SumFunctionOnSet(f, r)
  BY <1>3, SumRemove
<1>9. b[x] \in image(m) /\ image(m) \ {b[x]} = image(r)
  BY <1>3
<1>10. SumFunctionOnSet(g, image(m))
         = g[b[x]] + SumFunctionOnSet(g, image(m) \ {b[x]})
  <2>1. IsFiniteSet(image(m))
    <3>1. image(m) \subseteq V
      BY <1>3
    <3> QED BY <3>1, FS_Subset
  <2>2. \A y \in image(m) : g[y] \in Int
    BY <1>3
  <2> HIDE DEF image
  <2> QED BY <1>9, <2>1, <2>2, SumRemove
<1>11. f[x] = g[b[x]]
  BY <1>3
<1> HIDE DEF image, r
<1> QED BY <1>3, <1>7, <1>8, <1>9, <1>10, <1>11
=============================================================================
