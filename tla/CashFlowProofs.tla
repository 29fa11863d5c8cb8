------------------------------ MODULE CashFlowProofs ------------------------------
(***************************************************************************)
(* What accounts payable and the reports of the cash flow promise, for     *)
(* every number of clients, payables, accounts, orders and days: first the *)
(* sums that both are made of, then the payables, then the figures.        *)
(***************************************************************************)
EXTENDS CashFlow, FiniteSetTheorems, TLAPS

----------------------------------------------------------------------------
(* Sums of a function over a finite set.                                   *)

(* Induction over the subsets of a finite set, element by element.           *)
LEMMA ByInduction ==
  ASSUME NEW T, 0 \in T, \A n \in Nat : n \in T => n + 1 \in T
  PROVE  \A n \in Nat : n \in T
<1>1. PICK R : R = OpToRel(<, Nat)
  OBVIOUS
<1>2. IsWellFoundedOn(R, Nat)
  BY <1>1, NatLessThanWellFounded
<1>3. SUFFICES ASSUME NEW rest, rest = Nat \ T, rest # {} PROVE FALSE
  OBVIOUS
<1>4. PICK n \in rest : \A m \in rest : ~(<<m, n>> \in R)
  BY <1>2, <1>3, WFMin
<1>5. n \in Nat /\ n # 0 /\ n - 1 \in Nat /\ n - 1 < n
  BY <1>3, <1>4
<1>6. n - 1 \notin rest
  BY <1>1, <1>4, <1>5 DEF OpToRel
<1>7. (n - 1) + 1 \in T
  BY <1>3, <1>5, <1>6
<1> QED
  BY <1>3, <1>4, <1>5, <1>7

LEMMA BySubsets ==
  ASSUME NEW S, IsFiniteSet(S), NEW U, {} \in U,
         \A s \in U : \A x \in S : s \cup {x} \in U
  PROVE  S \in U
<1>1. PICK T : T = {n \in Nat : \A s \in SUBSET S : Cardinality(s) = n => s \in U}
  OBVIOUS
<1>2. \A s \in SUBSET S : IsFiniteSet(s) /\ Cardinality(s) \in Nat
  BY FS_Subset, FS_CardinalityType
<1>3. 0 \in T
  <2>1. \A s \in SUBSET S : Cardinality(s) = 0 => s = {}
    BY <1>2, FS_EmptySet
  <2> QED
    BY <1>1, <2>1
<1>4. ASSUME NEW n \in Nat, n \in T PROVE n + 1 \in T
  <2>1. SUFFICES ASSUME NEW s \in SUBSET S, Cardinality(s) = n + 1 PROVE s \in U
    BY <1>1
  <2>2. s # {}
    <3>1. Cardinality({}) = 0
      BY FS_EmptySet
    <3> QED
      BY <2>1, <3>1
  <2>3. PICK x : x \in s
    BY <2>2
  <2>4. PICK r : r = s \ {x}
    OBVIOUS
  <2>5. r \in SUBSET S /\ x \in S \ r /\ s = r \cup {x}
    BY <2>3, <2>4
  <2>6. Cardinality(r) = n
    <3>1. IsFiniteSet(s) /\ Cardinality(s) \in Nat
      BY <1>2
    <3>2. Cardinality(r) = Cardinality(s) - 1
      BY <2>3, <2>4, <3>1, FS_RemoveElement
    <3> QED
      BY <2>1, <3>2
  <2>7. r \in U /\ x \in S
    BY <1>1, <1>4, <2>5, <2>6
  <2> QED
    BY <2>5, <2>7
<1>5. Cardinality(S) \in T
  BY <1>2, <1>3, <1>4, ByInduction
<1> QED
  BY <1>1, <1>5

(* A sum takes the elements of a set one after the other.                    *)
First(s) == CHOOSE x \in s : TRUE
Sums(g, f, S) == g = [s \in SUBSET S |-> IF s = {} THEN 0 ELSE f[First(s)] + g[s \ {First(s)}]]

LEMMA SumIs ==
  ASSUME NEW f, NEW S
  PROVE  SumFunctionOnSet(f, S) = (CHOOSE g : Sums(g, f, S))[S]
  BY DEF SumFunctionOnSet, FoldFunctionOnSet, MapThenFoldSet, Sums, First

LEMMA SumExists ==
  ASSUME NEW f, NEW S, IsFiniteSet(S)
  PROVE  \E g : Sums(g, f, S)
<1>1. PICK Small : Small = [n \in Nat |-> {s \in SUBSET S : Cardinality(s) <= n}]
  OBVIOUS
<1>2. PICK T : T = {n \in Nat : \E g : g = [s \in Small[n] |-> IF s = {} THEN 0 ELSE f[First(s)] + g[s \ {First(s)}]]}
  OBVIOUS
<1>3. \A s \in SUBSET S : IsFiniteSet(s) /\ Cardinality(s) \in Nat /\ Cardinality(s) <= Cardinality(S)
  BY FS_Subset, FS_CardinalityType
<1>4. ASSUME NEW s \in SUBSET S, s # {}
      PROVE  First(s) \in s /\ s \ {First(s)} \in SUBSET S /\ Cardinality(s \ {First(s)}) = Cardinality(s) - 1
  <2>1. First(s) \in s
    BY <1>4 DEF First
  <2> QED
    BY <1>3, <2>1, FS_RemoveElement
<1>5. 0 \in T
  <2>1. PICK g : g = [s \in Small[0] |-> 0]
    OBVIOUS
  <2>2. \A s \in Small[0] : s = {}
    BY <1>1, <1>3, FS_EmptySet
  <2>3. g = [s \in Small[0] |-> IF s = {} THEN 0 ELSE f[First(s)] + g[s \ {First(s)}]]
    BY <2>1, <2>2
  <2> QED
    BY <1>2, <2>3
<1>6. ASSUME NEW n \in Nat, n \in T PROVE n + 1 \in T
  <2>1. PICK g : g = [s \in Small[n] |-> IF s = {} THEN 0 ELSE f[First(s)] + g[s \ {First(s)}]]
    BY <1>2, <1>6
  <2>2. PICK h : h = [s \in Small[n + 1] |-> IF s = {} THEN 0 ELSE f[First(s)] + g[s \ {First(s)}]]
    OBVIOUS
  <2>3. Small[n] \subseteq Small[n + 1] /\ Small[n + 1] \subseteq SUBSET S
    BY <1>1, <1>3
  <2>4. \A s \in Small[n] : h[s] = g[s]
    BY <2>1, <2>2, <2>3
  <2>5. \A s \in Small[n + 1] : s # {} => s \ {First(s)} \in Small[n]
    BY <1>1, <1>3, <1>4, <2>3
  <2>6. h = [s \in Small[n + 1] |-> IF s = {} THEN 0 ELSE f[First(s)] + h[s \ {First(s)}]]
    BY <2>2, <2>4, <2>5
  <2>7. n + 1 \in Nat
    OBVIOUS
  <2> QED
    BY <1>2, <2>6, <2>7
<1>7. Cardinality(S) \in T
  <2>1. Cardinality(S) \in Nat
    BY FS_CardinalityType
  <2> QED
    BY <1>5, <1>6, <2>1, ByInduction
<1>8. Small[Cardinality(S)] = SUBSET S
  BY <1>1, <1>3
<1> QED
  BY <1>2, <1>7, <1>8 DEF Sums

(* The partial sums of a set are the sums of its subsets, and only the       *)
(* values on the set count.                                                  *)
LEMMA SumsAgree ==
  ASSUME NEW f, NEW h, NEW S, NEW T, IsFiniteSet(S), T \subseteq S, \A x \in T : f[x] = h[x],
         NEW g, Sums(g, f, S), NEW k, Sums(k, h, T)
  PROVE  g[T] = k[T]
<1>1. /\ \A s \in SUBSET S : g[s] = IF s = {} THEN 0 ELSE f[First(s)] + g[s \ {First(s)}]
      /\ \A s \in SUBSET T : k[s] = IF s = {} THEN 0 ELSE h[First(s)] + k[s \ {First(s)}]
  BY DEF Sums
<1>2. PICK N : N = {n \in Nat : \A s \in SUBSET T : Cardinality(s) = n => g[s] = k[s]}
  OBVIOUS
<1>3. \A s \in SUBSET T : IsFiniteSet(s) /\ Cardinality(s) \in Nat
  BY FS_Subset, FS_CardinalityType
<1>4. 0 \in N
  <2>1. \A s \in SUBSET T : Cardinality(s) = 0 => s = {}
    BY <1>3, FS_EmptySet
  <2> QED
    BY <1>1, <1>2, <2>1
<1>5. ASSUME NEW n \in Nat, n \in N PROVE n + 1 \in N
  <2>1. SUFFICES ASSUME NEW s \in SUBSET T, Cardinality(s) = n + 1 PROVE g[s] = k[s]
    BY <1>2
  <2>2. s # {}
    BY <2>1, FS_EmptySet
  <2>3. PICK x \in s : x = First(s)
    BY <2>2 DEF First
  <2>4. s \ {x} \in SUBSET T /\ Cardinality(s \ {x}) = n
    <3>1. IsFiniteSet(s) /\ Cardinality(s) \in Nat
      BY <1>3
    <3>2. Cardinality(s \ {x}) = Cardinality(s) - 1
      BY <2>3, <3>1, FS_RemoveElement
    <3> QED
      BY <2>1, <3>1, <3>2
  <2>5. g[s \ {x}] = k[s \ {x}]
    BY <1>2, <1>5, <2>4
  <2>6. g[s] = f[x] + g[s \ {x}] /\ k[s] = h[x] + k[s \ {x}] /\ f[x] = h[x]
    BY <1>1, <2>2, <2>3
  <2> QED
    BY <2>5, <2>6
<1> QED
  BY <1>2, <1>3, <1>4, <1>5, ByInduction

LEMMA SumAgrees ==
  ASSUME NEW f, NEW h, NEW S, IsFiniteSet(S), \A x \in S : f[x] = h[x]
  PROVE  SumFunctionOnSet(f, S) = SumFunctionOnSet(h, S)
<1>1. PICK g : g = (CHOOSE u : Sums(u, f, S))
  OBVIOUS
<1>2. PICK k : k = (CHOOSE u : Sums(u, h, S))
  OBVIOUS
<1>3. Sums(g, f, S) /\ Sums(k, h, S)
  BY <1>1, <1>2, SumExists
<1>4. S \subseteq S
  OBVIOUS
<1>5. g[S] = k[S]
  BY <1>3, <1>4, SumsAgree
<1> QED
  BY <1>1, <1>2, <1>5, SumIs

LEMMA SumFirst ==
  ASSUME NEW f, NEW S, IsFiniteSet(S), S # {}
  PROVE  First(S) \in S /\ SumFunctionOnSet(f, S) = f[First(S)] + SumFunctionOnSet(f, S \ {First(S)})
<1>1. PICK x \in S : x = First(S)
  BY DEF First
<1>2. PICK T : T = S \ {x}
  OBVIOUS
<1>3. IsFiniteSet(T) /\ T \subseteq S /\ T \in SUBSET T /\ S \in SUBSET S
  BY <1>2, FS_Subset
<1>4. PICK g : g = (CHOOSE u : Sums(u, f, S))
  OBVIOUS
<1>5. PICK k : k = (CHOOSE u : Sums(u, f, T))
  OBVIOUS
<1>6. Sums(g, f, S) /\ Sums(k, f, T)
  BY <1>3, <1>4, <1>5, SumExists
<1>7. g[T] = k[T]
  BY <1>3, <1>6, SumsAgree
<1>8. g[S] = f[x] + g[T]
  BY <1>1, <1>2, <1>3, <1>6 DEF Sums
<1>9. SumFunctionOnSet(f, S) = g[S] /\ SumFunctionOnSet(f, T) = k[T]
  BY <1>4, <1>5, SumIs
<1> QED
  BY <1>1, <1>2, <1>7, <1>8, <1>9

LEMMA SumEmpty ==
  ASSUME NEW f
  PROVE  SumFunctionOnSet(f, {}) = 0
<1>1. PICK g : g = (CHOOSE u : Sums(u, f, {}))
  OBVIOUS
<1>2. Sums(g, f, {})
  BY <1>1, SumExists, FS_EmptySet
<1>3. g[{}] = 0
  BY <1>2 DEF Sums
<1> QED
  BY <1>1, <1>3, SumIs

LEMMA SumTyped ==
  ASSUME NEW f, NEW S, IsFiniteSet(S), \A x \in S : f[x] \in Int
  PROVE  SumFunctionOnSet(f, S) \in Int
<1>1. PICK T : T = {n \in Nat : \A s \in SUBSET S : Cardinality(s) = n => SumFunctionOnSet(f, s) \in Int}
  OBVIOUS
<1>2. \A s \in SUBSET S : IsFiniteSet(s) /\ Cardinality(s) \in Nat
  BY FS_Subset, FS_CardinalityType
<1>3. 0 \in T
  <2>1. \A s \in SUBSET S : Cardinality(s) = 0 => s = {}
    BY <1>2, FS_EmptySet
  <2>2. SumFunctionOnSet(f, {}) \in Int
    BY SumEmpty
  <2> QED
    BY <1>1, <2>1, <2>2
<1>4. ASSUME NEW n \in Nat, n \in T PROVE n + 1 \in T
  <2>1. SUFFICES ASSUME NEW s \in SUBSET S, Cardinality(s) = n + 1 PROVE SumFunctionOnSet(f, s) \in Int
    BY <1>1
  <2>2. s # {} /\ IsFiniteSet(s)
    BY <1>2, <2>1, FS_EmptySet
  <2>3. PICK y \in s : SumFunctionOnSet(f, s) = f[y] + SumFunctionOnSet(f, s \ {y})
    BY <2>2, SumFirst
  <2>4. s \ {y} \in SUBSET S /\ Cardinality(s \ {y}) = n
    <3>1. Cardinality(s \ {y}) = Cardinality(s) - 1
      BY <2>2, FS_RemoveElement
    <3> QED
      BY <2>1, <3>1
  <2> QED
    BY <1>1, <1>4, <2>1, <2>3, <2>4
<1>5. Cardinality(S) \in T
  BY <1>2, <1>3, <1>4, ByInduction
<1> QED
  BY <1>1, <1>5

(* Whichever element is taken first.                                         *)
LEMMA SumTakes ==
  ASSUME NEW f, NEW S, IsFiniteSet(S), \A x \in S : f[x] \in Int
  PROVE  \A x \in S : SumFunctionOnSet(f, S) = f[x] + SumFunctionOnSet(f, S \ {x})
<1>1. PICK T : T = {n \in Nat : \A s \in SUBSET S : Cardinality(s) = n =>
                       \A x \in s : SumFunctionOnSet(f, s) = f[x] + SumFunctionOnSet(f, s \ {x})}
  OBVIOUS
<1>2. \A s \in SUBSET S : IsFiniteSet(s) /\ Cardinality(s) \in Nat
  BY FS_Subset, FS_CardinalityType
<1>3. 0 \in T
  <2>1. \A s \in SUBSET S : Cardinality(s) = 0 => s = {}
    BY <1>2, FS_EmptySet
  <2> QED
    BY <1>1, <2>1
<1>4. ASSUME NEW n \in Nat, n \in T PROVE n + 1 \in T
  <2>1. SUFFICES ASSUME NEW s \in SUBSET S, Cardinality(s) = n + 1, NEW x \in s
                 PROVE  SumFunctionOnSet(f, s) = f[x] + SumFunctionOnSet(f, s \ {x})
    BY <1>1
  <2>2. s # {} /\ IsFiniteSet(s)
    BY <1>2, <2>1, FS_EmptySet
  <2>3. \A z \in s : s \ {z} \in SUBSET S /\ Cardinality(s \ {z}) = n
    <3>1. \A z \in s : Cardinality(s \ {z}) = Cardinality(s) - 1
      BY <2>2, FS_RemoveElement
    <3> QED
      BY <2>1, <3>1
  <2>4. PICK y \in s : SumFunctionOnSet(f, s) = f[y] + SumFunctionOnSet(f, s \ {y})
    BY <2>2, SumFirst
  <2>5. CASE x # y
    <3>1. PICK r : r = (s \ {x}) \ {y}
      OBVIOUS
    <3>2. r = (s \ {y}) \ {x} /\ x \in s \ {y} /\ y \in s \ {x}
      BY <2>5, <3>1
    <3>3. SumFunctionOnSet(f, s \ {y}) = f[x] + SumFunctionOnSet(f, r)
      BY <1>1, <1>4, <2>3, <3>2
    <3>4. SumFunctionOnSet(f, s \ {x}) = f[y] + SumFunctionOnSet(f, r)
      BY <1>1, <1>4, <2>3, <3>1, <3>2
    <3>5. SumFunctionOnSet(f, r) \in Int
      <4>1. r \in SUBSET S /\ \A z \in r : f[z] \in Int
        BY <3>1
      <4>2. IsFiniteSet(r)
        BY <1>2, <4>1
      <4> QED
        BY <4>1, <4>2, SumTyped
    <3>6. f[x] \in Int /\ f[y] \in Int
      OBVIOUS
    <3> QED
      BY <2>4, <3>3, <3>4, <3>5, <3>6
  <2> QED
    BY <2>4, <2>5
<1>5. Cardinality(S) \in T
  BY <1>2, <1>3, <1>4, ByInduction
<1> QED
  BY <1>1, <1>5

(* Two sets that have nothing in common.                                     *)
LEMMA SumJoins ==
  ASSUME NEW f, NEW S, NEW T, IsFiniteSet(S), IsFiniteSet(T), S \cap T = {}, \A x \in S \cup T : f[x] \in Int
  PROVE  SumFunctionOnSet(f, S \cup T) = SumFunctionOnSet(f, S) + SumFunctionOnSet(f, T)
<1>1. PICK U : U = {s \in SUBSET T : SumFunctionOnSet(f, S \cup s) = SumFunctionOnSet(f, S) + SumFunctionOnSet(f, s)}
  OBVIOUS
<1>2. \A s \in SUBSET T : IsFiniteSet(s) /\ IsFiniteSet(S \cup s)
  BY FS_Subset, FS_Union
<1>3. \A s \in SUBSET T : SumFunctionOnSet(f, s) \in Int
  BY <1>2, SumTyped
<1>4. SumFunctionOnSet(f, S) \in Int
  BY SumTyped
<1>5. {} \in U
  <2>1. S \cup {} = S
    OBVIOUS
  <2> QED
    BY <1>1, <1>4, <2>1, SumEmpty
<1>6. ASSUME NEW s \in SUBSET T, NEW x \in T, s \in U, x \notin s PROVE s \cup {x} \in U
  <2>1. PICK w, v : w = s \cup {x} /\ v = S \cup w
    OBVIOUS
  <2>2. w \in SUBSET T /\ x \in w /\ x \in v /\ w \ {x} = s /\ v \ {x} = S \cup s
    BY <1>6, <2>1
  <2>3. IsFiniteSet(w) /\ IsFiniteSet(v) /\ (\A y \in w : f[y] \in Int) /\ \A y \in v : f[y] \in Int
    BY <1>2, <2>1, <2>2
  <2>4. SumFunctionOnSet(f, w) = f[x] + SumFunctionOnSet(f, s)
    BY <2>2, <2>3, SumTakes
  <2>5. SumFunctionOnSet(f, v) = f[x] + SumFunctionOnSet(f, S \cup s)
    BY <2>2, <2>3, SumTakes
  <2>6. SumFunctionOnSet(f, S \cup s) = SumFunctionOnSet(f, S) + SumFunctionOnSet(f, s)
    BY <1>1, <1>6
  <2>7. SumFunctionOnSet(f, s) \in Int /\ f[x] \in Int
    BY <1>3
  <2>8. SumFunctionOnSet(f, v) = SumFunctionOnSet(f, S) + SumFunctionOnSet(f, w)
    BY <1>4, <2>4, <2>5, <2>6, <2>7
  <2> QED
    BY <1>1, <2>1, <2>2, <2>8
<1>7. \A s \in U : \A x \in T : s \cup {x} \in U
  <2>1. ASSUME NEW s \in U, NEW x \in T, x \in s PROVE s \cup {x} = s
    BY <2>1
  <2> QED
    BY <1>1, <1>6, <2>1
<1>8. T \in U
  BY <1>5, <1>7, BySubsets
<1> QED
  BY <1>1, <1>8

LEMMA SumNatural ==
  ASSUME NEW f, NEW S, IsFiniteSet(S), \A x \in S : f[x] \in Nat
  PROVE  SumFunctionOnSet(f, S) \in Nat
<1>1. PICK U : U = {s \in SUBSET S : SumFunctionOnSet(f, s) \in Nat}
  OBVIOUS
<1>2. {} \in U
  BY <1>1, SumEmpty
<1>3. ASSUME NEW s \in SUBSET S, NEW x \in S, s \in U, x \notin s PROVE s \cup {x} \in U
  <2>1. PICK w : w = s \cup {x}
    OBVIOUS
  <2>2. w \in SUBSET S /\ x \in w /\ w \ {x} = s /\ f[x] \in Nat /\ \A y \in w : f[y] \in Int
    BY <1>3, <2>1
  <2>3. IsFiniteSet(w)
    BY <2>2, FS_Subset
  <2>4. SumFunctionOnSet(f, w) = f[x] + SumFunctionOnSet(f, s)
    BY <2>2, <2>3, SumTakes
  <2>5. SumFunctionOnSet(f, s) \in Nat
    BY <1>1, <1>3
  <2> QED
    BY <1>1, <2>1, <2>2, <2>4, <2>5
<1>4. \A s \in U : \A x \in S : s \cup {x} \in U
  <2>1. ASSUME NEW s \in U, NEW x \in S, x \in s PROVE s \cup {x} = s
    BY <2>1
  <2> QED
    BY <1>1, <1>3, <2>1
<1>5. S \in U
  BY <1>2, <1>4, BySubsets
<1> QED
  BY <1>1, <1>5

LEMMA SumAdds ==
  ASSUME NEW f, NEW g, NEW h, NEW S, IsFiniteSet(S),
         \A x \in S : f[x] \in Int /\ g[x] \in Int /\ h[x] = f[x] + g[x]
  PROVE  SumFunctionOnSet(h, S) = SumFunctionOnSet(f, S) + SumFunctionOnSet(g, S)
<1>1. PICK U : U = {s \in SUBSET S : SumFunctionOnSet(h, s) = SumFunctionOnSet(f, s) + SumFunctionOnSet(g, s)}
  OBVIOUS
<1>2. {} \in U
  BY <1>1, SumEmpty
<1>3. ASSUME NEW s \in SUBSET S, NEW x \in S, s \in U, x \notin s PROVE s \cup {x} \in U
  <2>1. PICK w : w = s \cup {x}
    OBVIOUS
  <2>2. w \in SUBSET S /\ x \in w /\ w \ {x} = s
    BY <1>3, <2>1
  <2>3. IsFiniteSet(w) /\ IsFiniteSet(s)
    BY <2>2, FS_Subset
  <2>4. (\A y \in w : f[y] \in Int) /\ (\A y \in w : g[y] \in Int) /\ (\A y \in w : h[y] \in Int)
    BY <2>2
  <2>5. SumFunctionOnSet(f, w) = f[x] + SumFunctionOnSet(f, s)
    BY <2>2, <2>3, <2>4, SumTakes
  <2>6. SumFunctionOnSet(g, w) = g[x] + SumFunctionOnSet(g, s)
    BY <2>2, <2>3, <2>4, SumTakes
  <2>7. SumFunctionOnSet(h, w) = h[x] + SumFunctionOnSet(h, s)
    BY <2>2, <2>3, <2>4, SumTakes
  <2>8. (\A y \in s : f[y] \in Int) /\ (\A y \in s : g[y] \in Int)
    OBVIOUS
  <2>9. SumFunctionOnSet(f, s) \in Int /\ SumFunctionOnSet(g, s) \in Int
    BY <2>3, <2>8, SumTyped
  <2>10. SumFunctionOnSet(h, s) = SumFunctionOnSet(f, s) + SumFunctionOnSet(g, s)
    BY <1>1, <1>3
  <2>11. f[x] \in Int /\ g[x] \in Int /\ h[x] = f[x] + g[x]
    OBVIOUS
  <2>12. SumFunctionOnSet(h, w) = SumFunctionOnSet(f, w) + SumFunctionOnSet(g, w)
    BY <2>5, <2>6, <2>7, <2>9, <2>10, <2>11
  <2> QED
    BY <1>1, <2>1, <2>2, <2>12
<1>4. \A s \in U : \A x \in S : s \cup {x} \in U
  <2>1. ASSUME NEW s \in U, NEW x \in S, x \in s PROVE s \cup {x} = s
    BY <2>1
  <2> QED
    BY <1>1, <1>3, <2>1
<1>5. S \in U
  BY <1>2, <1>4, BySubsets
<1> QED
  BY <1>1, <1>5

(* The elements of a set under other names.                                  *)
LEMMA SumRenames ==
  ASSUME NEW f, NEW k, NEW h, NEW S, IsFiniteSet(S),
         \A x \in S : f[h[x]] \in Int /\ k[x] = f[h[x]],
         \A x, y \in S : h[x] = h[y] => x = y
  PROVE  SumFunctionOnSet(f, {h[x] : x \in S}) = SumFunctionOnSet(k, S)
<1>1. PICK U : U = {s \in SUBSET S : /\ IsFiniteSet({h[x] : x \in s})
                                     /\ SumFunctionOnSet(f, {h[x] : x \in s}) = SumFunctionOnSet(k, s)}
  OBVIOUS
<1>2. {} \in U
  <2>1. {h[x] : x \in {}} = {}
    OBVIOUS
  <2> QED
    BY <1>1, <2>1, SumEmpty, FS_EmptySet
<1>3. ASSUME NEW s \in SUBSET S, NEW x \in S, s \in U, x \notin s PROVE s \cup {x} \in U
  <2>1. PICK w, old, new : w = s \cup {x} /\ old = {h[y] : y \in s} /\ new = {h[y] : y \in w}
    OBVIOUS
  <2>2. w \in SUBSET S /\ x \in w /\ w \ {x} = s
    BY <1>3, <2>1
  <2>3. h[x] \in new /\ new = old \cup {h[x]}
    BY <2>1
  <2>4. h[x] \notin old
    BY <1>3, <2>1
  <2>5. new \ {h[x]} = old
    BY <2>3, <2>4
  <2>6. IsFiniteSet(old) /\ SumFunctionOnSet(f, old) = SumFunctionOnSet(k, s)
    BY <1>1, <1>3, <2>1
  <2>7. IsFiniteSet(w) /\ IsFiniteSet(new)
    BY <2>2, <2>3, <2>6, FS_Subset, FS_AddElement
  <2>8. (\A y \in new : f[y] \in Int) /\ (\A y \in w : k[y] \in Int)
    BY <2>1, <2>2
  <2>9. SumFunctionOnSet(f, new) = f[h[x]] + SumFunctionOnSet(f, old)
    BY <2>3, <2>5, <2>7, <2>8, SumTakes
  <2>10. SumFunctionOnSet(k, w) = k[x] + SumFunctionOnSet(k, s)
    BY <2>2, <2>7, <2>8, SumTakes
  <2>11. SumFunctionOnSet(f, new) = SumFunctionOnSet(k, w)
    BY <2>6, <2>9, <2>10
  <2> QED
    BY <1>1, <2>1, <2>2, <2>7, <2>11
<1>4. \A s \in U : \A x \in S : s \cup {x} \in U
  <2>1. ASSUME NEW s \in U, NEW x \in S, x \in s PROVE s \cup {x} = s
    BY <2>1
  <2> QED
    BY <1>1, <1>3, <2>1
<1>5. S \in U
  BY <1>2, <1>4, BySubsets
<1> QED
  BY <1>1, <1>5

(* A set sorted by what belongs to each element of another one.              *)
Sorted(f, h, S, P, F, B) ==
  /\ \A x \in S : f[x] \in Int /\ h[x] \in P
  /\ \A p \in P : \A x : x \in B[p] <=> x \in S /\ h[x] = p
  /\ \A p \in P : F[p] = SumFunctionOnSet(f, B[p])

LEMMA SumSorts ==
  ASSUME NEW f, NEW h, NEW S, NEW P, NEW F, NEW B, IsFiniteSet(S), IsFiniteSet(P), Sorted(f, h, S, P, F, B)
  PROVE  SumFunctionOnSet(f, S) = SumFunctionOnSet(F, P)
<1>0. /\ \A x \in S : f[x] \in Int /\ h[x] \in P
      /\ \A p \in P : \A x : x \in B[p] <=> x \in S /\ h[x] = p
      /\ \A p \in P : F[p] = SumFunctionOnSet(f, B[p])
  BY DEF Sorted
<1>1. PICK U : U = {s \in SUBSET P : SumFunctionOnSet(f, {x \in S : h[x] \in s}) = SumFunctionOnSet(F, s)}
  OBVIOUS
<1>2. {} \in U
  <2>1. {x \in S : h[x] \in {}} = {}
    OBVIOUS
  <2> QED
    BY <1>1, <2>1, SumEmpty
<1>3. \A T \in SUBSET S : IsFiniteSet(T) /\ \A x \in T : f[x] \in Int
  BY <1>0, FS_Subset
<1>4. \A p \in P : F[p] \in Int
  <2>1. TAKE p \in P
  <2>2. PICK T : T = B[p]
    OBVIOUS
  <2>3. IsFiniteSet(T) /\ \A x \in T : f[x] \in Int
    BY <1>0, <1>3, <2>2
  <2>4. F[p] = SumFunctionOnSet(f, T)
    BY <1>0, <2>2
  <2> QED
    BY <2>3, <2>4, SumTyped
<1>5. ASSUME NEW s \in SUBSET P, NEW p \in P, s \in U, p \notin s PROVE s \cup {p} \in U
  <2>1. PICK w, A, D, C : /\ w = s \cup {p} /\ A = {x \in S : h[x] \in s}
                          /\ D = B[p] /\ C = {x \in S : h[x] \in w}
    OBVIOUS
  <2>2. w \in SUBSET P /\ p \in w /\ w \ {p} = s
    BY <1>5, <2>1
  <2>3. C = A \cup D /\ A \cap D = {} /\ A \in SUBSET S /\ D \in SUBSET S
    BY <1>0, <1>5, <2>1
  <2>4. IsFiniteSet(A) /\ IsFiniteSet(D) /\ \A x \in A \cup D : f[x] \in Int
    BY <1>3, <2>3
  <2>5. SumFunctionOnSet(f, C) = SumFunctionOnSet(f, A) + SumFunctionOnSet(f, D)
    BY <2>3, <2>4, SumJoins
  <2>6. IsFiniteSet(w) /\ \A q \in w : F[q] \in Int
    BY <1>4, <2>2, FS_Subset
  <2>7. SumFunctionOnSet(F, w) = F[p] + SumFunctionOnSet(F, s)
    BY <2>2, <2>6, SumTakes
  <2>8. SumFunctionOnSet(f, A) = SumFunctionOnSet(F, s)
    BY <1>1, <1>5, <2>1
  <2>9. F[p] = SumFunctionOnSet(f, D)
    BY <1>0, <2>1
  <2>10. SumFunctionOnSet(f, A) \in Int /\ SumFunctionOnSet(f, D) \in Int
    BY <1>3, <2>3, SumTyped
  <2>11. SumFunctionOnSet(f, C) = SumFunctionOnSet(F, w)
    BY <2>5, <2>7, <2>8, <2>9, <2>10
  <2> QED
    BY <1>1, <2>1, <2>2, <2>11
<1>6. \A s \in U : \A p \in P : s \cup {p} \in U
  <2>1. ASSUME NEW s \in U, NEW p \in P, p \in s PROVE s \cup {p} = s
    BY <2>1
  <2> QED
    BY <1>1, <1>5, <2>1
<1>7. P \in U
  BY <1>2, <1>6, BySubsets
<1>8. {x \in S : h[x] \in P} = S
  BY <1>0
<1> QED
  BY <1>1, <1>7, <1>8

(* What is nothing everywhere adds up to nothing, and can be left out.       *)
LEMMA SumZero ==
  ASSUME NEW f, NEW S, IsFiniteSet(S), \A x \in S : f[x] = 0
  PROVE  SumFunctionOnSet(f, S) = 0
<1>1. \A x \in S : f[x] \in Int /\ f[x] \in Int /\ f[x] = f[x] + f[x]
  OBVIOUS
<1>2. PICK sum : sum = SumFunctionOnSet(f, S)
  OBVIOUS
<1>3. sum = sum + sum
  BY <1>1, <1>2, SumAdds
<1>4. sum \in Int
  <2>1. \A x \in S : f[x] \in Int
    OBVIOUS
  <2> QED
    BY <1>2, <2>1, SumTyped
<1>5. sum = 0
  BY <1>3, <1>4
<1> QED
  BY <1>2, <1>5

LEMMA SumLeavesOut ==
  ASSUME NEW f, NEW S, NEW T, IsFiniteSet(S), T \subseteq S, \A x \in S : f[x] \in Int, \A x \in S \ T : f[x] = 0
  PROVE  SumFunctionOnSet(f, S) = SumFunctionOnSet(f, T)
<1>1. PICK R : R = S \ T
  OBVIOUS
<1>2. IsFiniteSet(T) /\ IsFiniteSet(R)
  BY <1>1, FS_Subset
<1>3. S = T \cup R /\ T \cap R = {} /\ (\A x \in T \cup R : f[x] \in Int) /\ \A x \in R : f[x] = 0
  BY <1>1
<1>4. SumFunctionOnSet(f, S) = SumFunctionOnSet(f, T) + SumFunctionOnSet(f, R)
  BY <1>2, <1>3, SumJoins
<1>5. SumFunctionOnSet(f, R) = 0
  BY <1>2, <1>3, SumZero
<1>6. SumFunctionOnSet(f, T) \in Int
  <2>1. \A x \in T : f[x] \in Int
    OBVIOUS
  <2> QED
    BY <1>2, <2>1, SumTyped
<1> QED
  BY <1>4, <1>5, <1>6

(* What is owed is what is due with the other sign.                          *)
LEMMA SumNegates ==
  ASSUME NEW f, NEW g, NEW S, IsFiniteSet(S), \A x \in S : g[x] \in Int /\ f[x] = 0 - g[x]
  PROVE  SumFunctionOnSet(f, S) = 0 - SumFunctionOnSet(g, S)
<1>1. PICK h : h = [x \in S |-> 0]
  OBVIOUS
<1>2. \A x \in S : f[x] \in Int /\ g[x] \in Int /\ h[x] = f[x] + g[x]
  BY <1>1
<1>3. SumFunctionOnSet(h, S) = SumFunctionOnSet(f, S) + SumFunctionOnSet(g, S)
  BY <1>2, SumAdds
<1>4. SumFunctionOnSet(h, S) = 0
  <2>1. \A x \in S : h[x] = 0
    BY <1>1
  <2> QED
    BY <2>1, SumZero
<1>5. SumFunctionOnSet(f, S) \in Int /\ SumFunctionOnSet(g, S) \in Int
  <2>1. (\A x \in S : f[x] \in Int) /\ \A x \in S : g[x] \in Int
    BY <1>2
  <2> QED
    BY <2>1, SumTyped
<1> QED
  BY <1>3, <1>4, <1>5

----------------------------------------------------------------------------
(* Payments of a payable.                                                  *)

Ops == {"pay", "update", "cancel", "reverse"}
Kinds == world.series \cup {None}
PayableRecords == [expected : Amounts, due : Nat, cancelled : BOOLEAN, series : Kinds]
PaymentRecords == [of : Nat, account : Accounts, amount : Amounts, at : Nat, reversed : BOOLEAN]

LEMMA PaidOf ==
  ASSUME NEW p, NEW paid, NEW S, S = Active(p, paid), NEW f, \A k \in S : f[k] = paid[k].amount, IsFiniteSet(S)
  PROVE  Paid(p, paid) = SumFunctionOnSet(f, S)
<1>1. PICK g : g = [k \in Active(p, paid) |-> paid[k].amount]
  OBVIOUS
<1>2. Paid(p, paid) = SumFunctionOnSet(g, S)
  BY <1>1 DEF Paid, SumFunction
<1>3. \A k \in S : f[k] = g[k]
  BY <1>1
<1> QED
  BY <1>2, <1>3, SumAgrees

LEMMA ActiveFinite ==
  ASSUME NEW paid \in Seq(PaymentRecords), NEW p
  PROVE  IsFiniteSet(Active(p, paid)) /\ Active(p, paid) \subseteq DOMAIN paid
<1>1. DOMAIN paid = 1..Len(paid) /\ Len(paid) \in Nat
  OBVIOUS
<1>2. IsFiniteSet(DOMAIN paid)
  BY <1>1, FS_Interval
<1> QED
  BY <1>2, FS_Subset DEF Active

LEMMA PaidNatural ==
  ASSUME NEW paid \in Seq(PaymentRecords), NEW p
  PROVE  Paid(p, paid) \in Nat
<1>1. PICK S, f : S = Active(p, paid) /\ f = [k \in S |-> paid[k].amount]
  OBVIOUS
<1>2. IsFiniteSet(S) /\ S \subseteq DOMAIN paid
  BY <1>1, ActiveFinite
<1>3. \A k \in S : f[k] = paid[k].amount /\ f[k] \in Nat
  <2>1. \A k \in DOMAIN paid : paid[k] \in PaymentRecords
    OBVIOUS
  <2>2. \A k \in DOMAIN paid : paid[k].amount \in Nat
    BY <2>1, PayablesAssumption DEF PaymentRecords
  <2> QED
    BY <1>1, <1>2, <2>2
<1>4. Paid(p, paid) = SumFunctionOnSet(f, S)
  BY <1>1, <1>2, <1>3, PaidOf
<1> QED
  BY <1>2, <1>3, <1>4, SumNatural

LEMMA PaidNothing ==
  ASSUME NEW paid \in Seq(PaymentRecords), NEW p, \A k \in DOMAIN paid : paid[k].of # p
  PROVE  Paid(p, paid) = 0
<1>1. Active(p, paid) = {}
  BY DEF Active
<1>2. PICK f : f = [k \in {} |-> paid[k].amount]
  OBVIOUS
<1>3. Paid(p, paid) = SumFunctionOnSet(f, {})
  BY <1>1, <1>2, PaidOf, FS_EmptySet
<1> QED
  BY <1>3, SumEmpty

(* A payment raises what its payable is paid with by its amount.             *)
LEMMA PaidMore ==
  ASSUME NEW paid \in Seq(PaymentRecords), NEW more \in Seq(PaymentRecords), NEW new \in PaymentRecords, ~new.reversed, NEW p,
         NEW x, DOMAIN more = DOMAIN paid \cup {x}, x \notin DOMAIN paid, more[x] = new, \A k \in DOMAIN paid : more[k] = paid[k]
  PROVE  Paid(p, more) = IF new.of = p THEN Paid(p, paid) + new.amount ELSE Paid(p, paid)
<1>1. PICK S, T, f : S = Active(p, paid) /\ T = Active(p, more) /\ f = [k \in DOMAIN more |-> more[k].amount]
  OBVIOUS
<1>2. DOMAIN more = DOMAIN paid \cup {x} /\ x \notin DOMAIN paid /\ more[x] = new /\ \A k \in DOMAIN paid : more[k] = paid[k]
  OBVIOUS
<1>3. T = IF new.of = p THEN S \cup {x} ELSE S
  BY <1>1, <1>2 DEF Active
<1>4. IsFiniteSet(S) /\ S \subseteq DOMAIN paid /\ IsFiniteSet(T) /\ T \subseteq DOMAIN more
  BY <1>1, ActiveFinite
<1>5. \A k \in DOMAIN more : f[k] = more[k].amount /\ f[k] \in Int
  <2>1. \A k \in DOMAIN more : more[k] \in PaymentRecords
    OBVIOUS
  <2>2. \A k \in DOMAIN more : more[k].amount \in Nat
    BY <2>1, PayablesAssumption DEF PaymentRecords
  <2> QED
    BY <1>1, <2>2
<1>6. \A k \in S : f[k] = paid[k].amount
  BY <1>2, <1>4, <1>5
<1>7. \A k \in T : f[k] = more[k].amount /\ f[k] \in Int
  BY <1>4, <1>5
<1>8. Paid(p, paid) = SumFunctionOnSet(f, S)
  BY <1>1, <1>4, <1>6, PaidOf
<1>9. Paid(p, more) = SumFunctionOnSet(f, T)
  <2>1. \A k \in T : f[k] = more[k].amount
    BY <1>7
  <2> QED
    BY <1>1, <1>4, <2>1, PaidOf
<1>10. CASE new.of = p
  <2>1. x \in T /\ T \ {x} = S
    BY <1>2, <1>3, <1>4, <1>10
  <2>2. SumFunctionOnSet(f, T) = f[x] + SumFunctionOnSet(f, S)
    BY <1>4, <1>7, <2>1, SumTakes
  <2>3. f[x] = new.amount /\ f[x] \in Int
    BY <1>2, <1>5
  <2>4. Paid(p, paid) \in Nat
    BY PaidNatural
  <2> QED
    BY <1>8, <1>9, <1>10, <2>2, <2>3, <2>4
<1>11. CASE new.of # p
  BY <1>3, <1>8, <1>9, <1>11
<1> QED
  BY <1>10, <1>11

(* A reversal never raises what any payable is paid with.                    *)
LEMMA PaidLess ==
  ASSUME NEW paid \in Seq(PaymentRecords), NEW less \in Seq(PaymentRecords), NEW k \in DOMAIN paid, NEW p,
         DOMAIN less = DOMAIN paid, less[k].reversed = TRUE, less[k].of = paid[k].of,
         less[k].amount = paid[k].amount, \A j \in DOMAIN paid \ {k} : less[j] = paid[j]
  PROVE  Paid(p, less) <= Paid(p, paid)
<1>1. PICK S, T, f : S = Active(p, paid) /\ T = Active(p, less) /\ f = [j \in DOMAIN paid |-> paid[j].amount]
  OBVIOUS
<1>2. \A j \in DOMAIN paid : paid[j] \in PaymentRecords
  OBVIOUS
<1>7. T = S \ {k}
  BY <1>1 DEF Active
<1>8. IsFiniteSet(S) /\ S \subseteq DOMAIN paid /\ IsFiniteSet(T)
  BY <1>1, ActiveFinite
<1>9. \A j \in DOMAIN paid : f[j] = paid[j].amount /\ f[j] \in Nat
  <2>1. \A j \in DOMAIN paid : paid[j].amount \in Nat
    BY <1>2, PayablesAssumption DEF PaymentRecords
  <2> QED
    BY <1>1, <2>1
<1>10. \A j \in S : f[j] = paid[j].amount /\ f[j] \in Int
  BY <1>8, <1>9
<1>11. \A j \in T : f[j] = less[j].amount /\ f[j] \in Int
  BY <1>7, <1>8, <1>9
<1>12. Paid(p, paid) = SumFunctionOnSet(f, S)
  BY <1>1, <1>8, <1>10, PaidOf
<1>13. Paid(p, less) = SumFunctionOnSet(f, T)
  <2>1. \A j \in T : f[j] = less[j].amount
    BY <1>11
  <2> QED
    BY <1>1, <1>8, <2>1, PaidOf
<1>14. CASE k \in S
  <2>1. SumFunctionOnSet(f, S) = f[k] + SumFunctionOnSet(f, T)
    BY <1>7, <1>8, <1>10, <1>14, SumTakes
  <2>2. f[k] \in Nat /\ Paid(p, paid) \in Nat /\ Paid(p, less) \in Nat
    BY <1>9, PaidNatural
  <2> QED
    BY <1>12, <1>13, <2>1, <2>2
<1>15. CASE k \notin S
  <2>1. T = S
    BY <1>7, <1>15
  <2>2. Paid(p, paid) \in Nat
    BY PaidNatural
  <2> QED
    BY <1>12, <1>13, <2>1, <2>2
<1> QED
  BY <1>14, <1>15

----------------------------------------------------------------------------
(* The occurrences of a series.                                            *)

LEMMA Times ==
  ASSUME NEW a \in Nat \ {0}, NEW x \in Nat, NEW y \in Nat
  PROVE  /\ a * x \in Nat /\ a * y \in Nat
         /\ x < y => a * x < a * y
         /\ x <= y => a * x <= a * y
<1>1. a * x \in Nat /\ a * y \in Nat
  OBVIOUS
<1>2. ASSUME x < y PROVE a * x < a * y
  <2>1. PICK d : d = y - x
    OBVIOUS
  <2>2. d \in Nat \ {0} /\ y = x + d
    BY <1>2, <2>1
  <2>3. a * y = a * x + a * d
    BY <2>2
  <2>4. a * d \in Nat /\ a * d > 0
    BY <2>2
  <2>5. PICK u, v, w : u = a * x /\ v = a * y /\ w = a * d
    OBVIOUS
  <2>6. u \in Nat /\ w \in Nat /\ w > 0 /\ v = u + w
    BY <1>1, <2>3, <2>4, <2>5
  <2>7. u < v
    BY <2>6
  <2> QED
    BY <2>5, <2>7
<1>3. x = y => a * x = a * y
  OBVIOUS
<1>4. x <= y => x < y \/ x = y
  OBVIOUS
<1> QED
  BY <1>1, <1>2, <1>3, <1>4

LEMMA MonthsFollow ==
  ASSUME NEW m \in Nat, NEW n \in Nat, n <= Cardinality(Months)
  PROVE  /\ m <= n => FirstOf(m) \in Nat
         /\ m < n => FirstOf(m) < FirstOf(n)
<1>1. ASSUME NEW k \in Nat, k <= n
      PROVE  FirstOf(k) = SumFunctionOnSet(LengthOf, 0..(k - 1)) /\ IsFiniteSet(0..(k - 1)) /\ \A j \in 0..(k - 1) : LengthOf[j] \in Nat \ {0}
  <2>1. PICK S, f : S = 0..(k - 1) /\ f = [j \in S |-> LengthOf[j]]
    OBVIOUS
  <2>2. IsFiniteSet(S)
    BY <2>1, FS_Interval
  <2>3. FirstOf(k) = SumFunctionOnSet(f, S)
    BY <2>1 DEF FirstOf, SumFunction
  <2>4. \A j \in S : f[j] = LengthOf[j]
    BY <2>1
  <2>5. SumFunctionOnSet(f, S) = SumFunctionOnSet(LengthOf, S)
    BY <2>2, <2>4, SumAgrees
  <2>6. S \subseteq Months
    BY <1>1, <2>1, PayablesAssumption
  <2> QED
    BY <2>1, <2>2, <2>3, <2>5, <2>6, PayablesAssumption
<1>2. ASSUME NEW k \in Nat, k <= n PROVE FirstOf(k) \in Nat
  <2>1. PICK S : S = 0..(k - 1)
    OBVIOUS
  <2>2. IsFiniteSet(S) /\ FirstOf(k) = SumFunctionOnSet(LengthOf, S) /\ \A j \in S : LengthOf[j] \in Nat
    BY <1>1, <1>2, <2>1
  <2> QED
    BY <2>2, SumNatural
<1>3. ASSUME m < n PROVE FirstOf(m) < FirstOf(n)
  <2>1. PICK A, B, C, D : A = 0..(m - 1) /\ B = m..(n - 1) /\ C = 0..(n - 1) /\ D = B \ {m}
    OBVIOUS
  <2>2. C = A \cup B /\ A \cap B = {} /\ m \in B
    BY <1>3, <2>1
  <2>3. IsFiniteSet(C) /\ FirstOf(n) = SumFunctionOnSet(LengthOf, C) /\ \A j \in C : LengthOf[j] \in Nat \ {0}
    BY <1>1, <2>1
  <2>4. FirstOf(m) = SumFunctionOnSet(LengthOf, A)
    BY <1>1, <1>3, <2>1
  <2>5. IsFiniteSet(A) /\ IsFiniteSet(B) /\ IsFiniteSet(D)
    BY <2>1, <2>2, <2>3, FS_Subset
  <2>6. (\A j \in A \cup B : LengthOf[j] \in Int) /\ (\A j \in B : LengthOf[j] \in Int) /\ (\A j \in D : LengthOf[j] \in Nat)
    BY <2>1, <2>2, <2>3
  <2>7. SumFunctionOnSet(LengthOf, A \cup B) = SumFunctionOnSet(LengthOf, A) + SumFunctionOnSet(LengthOf, B)
    BY <2>2, <2>5, <2>6, SumJoins
  <2>8. SumFunctionOnSet(LengthOf, B) = LengthOf[m] + SumFunctionOnSet(LengthOf, D)
    <3>1. \A x \in B : SumFunctionOnSet(LengthOf, B) = LengthOf[x] + SumFunctionOnSet(LengthOf, B \ {x})
      BY <2>5, <2>6, SumTakes
    <3>2. D = B \ {m} /\ m \in B
      BY <2>1, <2>2
    <3> QED
      BY <3>1, <3>2
  <2>9. SumFunctionOnSet(LengthOf, D) \in Nat
    BY <2>5, <2>6, SumNatural
  <2>10. LengthOf[m] \in Nat \ {0} /\ FirstOf(m) \in Nat
    BY <1>2, <1>3, <2>2, <2>3
  <2>11. FirstOf(n) = FirstOf(m) + (LengthOf[m] + SumFunctionOnSet(LengthOf, D))
    BY <2>2, <2>3, <2>4, <2>7, <2>8
  <2> QED
    BY <2>9, <2>10, <2>11
<1> QED
  BY <1>2, <1>3

MonthsOn(r, k) == r.startsOn.month + (IF r.frequency = "YEARLY" THEN Year ELSE 1) * (r.interval * (k - 1))

LEMMA MonthsGoOn ==
  ASSUME NEW r, SeriesOK(r), NEW j \in 1..Most(r), NEW k \in 1..Most(r), j <= k
  PROVE  /\ r.interval * (j - 1) \in Nat /\ MonthsOn(r, j) \in Nat /\ MonthsOn(r, j) <= Cardinality(Months)
         /\ j < k => r.interval * (j - 1) < r.interval * (k - 1) /\ MonthsOn(r, j) < MonthsOn(r, k)
<1>1. PICK y : y = IF r.frequency = "YEARLY" THEN Year ELSE 1
  OBVIOUS
<1>2. y \in Nat \ {0} /\ r.interval \in Nat \ {0} /\ r.startsOn.month \in Nat /\ Most(r) \in Nat
  BY <1>1, PayablesAssumption DEF SeriesOK, Most
<1>3. PICK a, b, c : a = r.interval * (j - 1) /\ b = r.interval * (k - 1) /\ c = r.interval * (Most(r) - 1)
  OBVIOUS
<1>4. j - 1 \in Nat /\ k - 1 \in Nat /\ Most(r) - 1 \in Nat /\ j - 1 <= Most(r) - 1 /\ (j < k => j - 1 < k - 1)
  BY <1>2
<1>5. a \in Nat /\ b \in Nat /\ c \in Nat /\ a <= c /\ (j < k => a < b)
  BY <1>2, <1>3, <1>4, Times
<1>6. y * a \in Nat /\ y * b \in Nat /\ y * c \in Nat /\ y * a <= y * c /\ (j < k => y * a < y * b)
  BY <1>2, <1>5, Times
<1>7. r.startsOn.month + y * c <= Cardinality(Months)
  BY <1>1, <1>3 DEF SeriesOK
<1>8. MonthsOn(r, j) = r.startsOn.month + y * a /\ MonthsOn(r, k) = r.startsOn.month + y * b
  BY <1>1, <1>3 DEF MonthsOn
<1>9. PICK ya, yb, yc : ya = y * a /\ yb = y * b /\ yc = y * c
  OBVIOUS
<1>10. ya \in Nat /\ yb \in Nat /\ yc \in Nat /\ ya <= yc /\ (j < k => ya < yb) /\ r.startsOn.month + yc <= Cardinality(Months)
  BY <1>6, <1>7, <1>9
<1>11. r.startsOn.month + ya \in Nat /\ r.startsOn.month + ya <= Cardinality(Months)
       /\ (j < k => r.startsOn.month + ya < r.startsOn.month + yb)
  <2>1. Cardinality(Months) \in Nat
    BY PayablesAssumption
  <2>2. PICK most, month : most = Cardinality(Months) /\ month = r.startsOn.month
    OBVIOUS
  <2>3. most \in Nat /\ month \in Nat /\ month + yc <= most
    BY <1>2, <1>10, <2>1, <2>2
  <2>4. month + ya \in Nat /\ month + ya <= most /\ (j < k => month + ya < month + yb)
    BY <1>10, <2>3
  <2> QED
    BY <2>2, <2>4
<1> QED
  BY <1>3, <1>5, <1>8, <1>9, <1>11

(* Each occurrence of a series is due after those before it.                 *)
LEMMA DueFollows ==
  ASSUME NEW r, SeriesOK(r), NEW j \in 1..Most(r), NEW k \in 1..Most(r), j <= k
  PROVE  Due(r, j) \in Nat /\ (j < k => Due(r, j) < Due(r, k))
<1>1. r.startsOn \in [month : Nat, day : Nat] /\ r.frequency \in {"WEEKLY", "MONTHLY", "YEARLY"}
  BY DEF SeriesOK
<1>2. PICK start \in [month : Nat, day : Nat] : start = r.startsOn
  BY <1>1
<1>3. start.day \in Nat /\ start.month \in Nat
  OBVIOUS
<1>4. /\ r.interval * (j - 1) \in Nat /\ MonthsOn(r, j) \in Nat /\ MonthsOn(r, j) <= Cardinality(Months)
      /\ r.interval * (k - 1) \in Nat /\ MonthsOn(r, k) \in Nat /\ MonthsOn(r, k) <= Cardinality(Months)
      /\ (j < k => r.interval * (j - 1) < r.interval * (k - 1) /\ MonthsOn(r, j) < MonthsOn(r, k))
  <2>1. k <= k
    BY PayablesAssumption DEF SeriesOK, Most
  <2> QED
    BY <2>1, MonthsGoOn
<1>5. PICK a, b : a = r.interval * (j - 1) /\ b = r.interval * (k - 1)
  OBVIOUS
<1>6. CASE r.frequency = "WEEKLY"
  <2>1. Due(r, j) = FirstOf(start.month) + start.day + 7 * a /\ Due(r, k) = FirstOf(start.month) + start.day + 7 * b
    BY <1>2, <1>5, <1>6 DEF Due, AddInterval, DayOf
  <2>2. start.month <= MonthsOn(r, j)
    <3>1. MonthsOn(r, j) = start.month + 1 * a
      BY <1>2, <1>5, <1>6 DEF MonthsOn
    <3> QED
      BY <1>3, <1>4, <1>5, <3>1
  <2>3. FirstOf(start.month) \in Nat
    BY <1>3, <1>4, <2>2, MonthsFollow
  <2> QED
    BY <1>3, <1>4, <1>5, <2>1, <2>3
<1>7. CASE r.frequency # "WEEKLY"
  <2>1. ASSUME NEW i \in {j, k} PROVE Due(r, i) = FirstOf(MonthsOn(r, i)) + start.day
    <3>1. PICK n : n = r.interval * (i - 1)
      OBVIOUS
    <3>2. PICK y : y = IF r.frequency = "YEARLY" THEN Year ELSE 1
      OBVIOUS
    <3>3. PICK then : then = [start EXCEPT !.month = @ + y * n]
      OBVIOUS
    <3>4. then.month = start.month + y * n /\ then.day = start.day
      BY <3>3
    <3>5. 1 * n = n
      BY <1>4, <2>1, <3>1
    <3>6. Due(r, i) = DayOf(then)
      BY <1>1, <1>2, <1>7, <3>1, <3>2, <3>3, <3>5 DEF Due, AddInterval
    <3>7. MonthsOn(r, i) = start.month + y * n
      BY <1>2, <3>1, <3>2 DEF MonthsOn
    <3> QED
      BY <3>4, <3>6, <3>7 DEF DayOf
  <2>2. FirstOf(MonthsOn(r, j)) \in Nat /\ FirstOf(MonthsOn(r, k)) \in Nat
        /\ (j < k => FirstOf(MonthsOn(r, j)) < FirstOf(MonthsOn(r, k)))
    <3>1. PICK x, y : x = MonthsOn(r, j) /\ y = MonthsOn(r, k)
      OBVIOUS
    <3>2. x \in Nat /\ y \in Nat /\ x <= x /\ y <= y /\ x <= Cardinality(Months) /\ y <= Cardinality(Months) /\ (j < k => x < y)
      BY <1>4, <3>1
    <3>3. FirstOf(x) \in Nat /\ FirstOf(y) \in Nat /\ (x < y => FirstOf(x) < FirstOf(y))
      BY <3>2, MonthsFollow
    <3> QED
      BY <3>1, <3>2, <3>3
  <2> QED
    BY <1>3, <2>1, <2>2
<1> QED
  BY <1>6, <1>7

(* A set of the first numbers, and so of as many as it has.                  *)
LEMMA FirstNumbers ==
  ASSUME NEW m \in Nat, NEW T, T \subseteq 1..m, \A n \in T : \A j \in 1..n : j \in T
  PROVE  Cardinality(T) \in Nat /\ T = 1..Cardinality(T)
<1>1. PICK N : N = {n \in Nat : T \subseteq 1..n => \E c \in Nat : T = 1..c}
  OBVIOUS
<1>2. 0 \in N
  <2>1. T \subseteq 1..0 => T = 1..0
    OBVIOUS
  <2> QED
    BY <1>1, <2>1
<1>3. ASSUME NEW n \in Nat, n \in N PROVE n + 1 \in N
  <2>1. SUFFICES ASSUME T \subseteq 1..(n + 1) PROVE \E c \in Nat : T = 1..c
    BY <1>1
  <2>2. CASE n + 1 \in T
    <3>1. \A j \in 1..(n + 1) : j \in T
      BY <2>2
    <3>2. PICK I : I = 1..(n + 1)
      OBVIOUS
    <3>3. T \subseteq I /\ \A j \in I : j \in T
      BY <2>1, <3>1, <3>2
    <3>4. T = I
      BY <3>3, Zenon
    <3>5. n + 1 \in Nat
      OBVIOUS
    <3> QED
      BY <3>2, <3>4, <3>5
  <2>3. CASE n + 1 \notin T
    <3>1. T \subseteq 1..n
      BY <2>1, <2>3
    <3> QED
      BY <1>1, <1>3, <3>1
  <2> QED
    BY <2>2, <2>3
<1>4. m \in N
  BY <1>2, <1>3, ByInduction
<1>5. PICK c \in Nat : T = 1..c
  BY <1>1, <1>4
<1>6. Cardinality(1..c) = c
  BY FS_Interval
<1> QED
  BY <1>5, <1>6

LEMMA OccurrencesFollow ==
  ASSUME NEW r, SeriesOK(r)
  PROVE  /\ Occurrences(r) \in Seq(Nat)
         /\ Len(Occurrences(r)) <= Most(r)
         /\ \A k \in 1..Len(Occurrences(r)) : k \in 1..Most(r) /\ Occurrences(r)[k] = Due(r, k) /\ Within(r, k)
<1>1. PICK taken : taken = {k \in 1..Most(r) : \A j \in 1..k : Within(r, j)}
  OBVIOUS
<1>2. Most(r) \in Nat
  BY PayablesAssumption DEF SeriesOK, Most
<1>3. \A n \in taken : \A j \in 1..n : j \in taken
  BY <1>1, <1>2
<1>4. taken \subseteq 1..Most(r)
  BY <1>1
<1>5. PICK c \in Nat : c = Cardinality(taken) /\ taken = 1..c
  BY <1>2, <1>3, <1>4, FirstNumbers
<1>6. c <= Most(r)
  <2>1. c = 0 \/ c \in 1..c
    OBVIOUS
  <2>2. c \in 1..c => c \in 1..Most(r)
    BY <1>4, <1>5
  <2> QED
    BY <1>2, <2>1, <2>2
<1>7. PICK days : days = [k \in 1..c |-> Due(r, k)]
  OBVIOUS
<1>8. Occurrences(r) = days
  BY <1>1, <1>5, <1>7 DEF Occurrences
<1>9. \A k \in 1..c : k \in 1..Most(r) /\ Within(r, k)
  BY <1>1, <1>2, <1>5
<1>10. \A k \in 1..c : Due(r, k) \in Nat
  BY <1>2, <1>9, DueFollows
<1>11. days \in Seq(Nat) /\ Len(days) = c /\ \A k \in 1..c : days[k] = Due(r, k)
  BY <1>7, <1>10
<1> QED
  BY <1>6, <1>8, <1>9, <1>11

LEMMA SeriesAreInOrder ==
  ASSUME world \in Worlds
  PROVE  SeriesInOrder
<1>1. SUFFICES ASSUME NEW r \in world.series \ {None}, NEW days, days = Occurrences(r)
               PROVE  /\ \A k \in 1..(Len(days) - 1) : days[k] < days[k + 1]
                      /\ \A k \in DOMAIN days : days[k] >= DayOf(r.startsOn) /\ (r.endsOn # None => days[k] <= r.endsOn)
                      /\ days # <<>> => days[1] = DayOf(r.startsOn)
  BY DEF SeriesInOrder
<1>2. SeriesOK(r)
  BY WorldsAssumption
<1>3. PICK c \in Nat : c = Len(days)
  BY <1>1, <1>2, OccurrencesFollow
<1>4. DOMAIN days = 1..c /\ days \in Seq(Nat)
  BY <1>1, <1>2, <1>3, OccurrencesFollow
<1>5. \A k \in 1..c : k \in 1..Most(r) /\ days[k] = Due(r, k) /\ Within(r, k)
  BY <1>1, <1>2, <1>3, OccurrencesFollow
<1>6. \A k \in 1..c : days[k] \in Nat
  BY <1>4
<1>7. \A j, k \in 1..c : j < k => days[j] < days[k]
  <2>1. TAKE j \in 1..c
  <2>2. TAKE k \in 1..c
  <2>3. HAVE j < k
  <2>4. j \in 1..Most(r) /\ k \in 1..Most(r) /\ j <= k
    BY <1>5, <2>3
  <2> QED
    BY <1>2, <1>5, <2>3, <2>4, DueFollows
<1>8. c > 0 => days[1] = DayOf(r.startsOn)
  <2>1. HAVE c > 0
  <2>2. PICK start \in [month : Nat, day : Nat] : start = r.startsOn
    BY <1>2 DEF SeriesOK
  <2>3. Due(r, 1) = DayOf(start)
    <3>1. r.interval * (1 - 1) = 0 /\ Year * 0 = 0
      BY <1>2, PayablesAssumption DEF SeriesOK
    <3>2. \A then : (then = [start EXCEPT !.month = @ + 0] \/ then = [start EXCEPT !.month = @ + Year * 0]) => DayOf(then) = DayOf(start)
      BY <3>1 DEF DayOf
    <3>3. Due(r, 1) = AddInterval(start, r.frequency, 0)
      BY <2>2, <3>1 DEF Due
    <3>4. r.frequency \in {"WEEKLY", "MONTHLY", "YEARLY"}
      BY <1>2 DEF SeriesOK
    <3>5. CASE r.frequency = "WEEKLY"
      <4>1. start.month <= Cardinality(Months) /\ start.month \in Nat /\ start.day \in Nat
        <5>1. 1 \in 1..Most(r) /\ 1 <= 1
          BY <1>5, <2>1
        <5>2. MonthsOn(r, 1) <= Cardinality(Months)
          BY <1>2, <5>1, MonthsGoOn
        <5>3. MonthsOn(r, 1) = start.month
          BY <2>2, <3>1, <3>5 DEF MonthsOn
        <5> QED
          BY <5>2, <5>3
      <4>2. DayOf(start) \in Nat
        BY <4>1, MonthsFollow DEF DayOf
      <4> QED
        BY <3>3, <3>5, <4>2 DEF AddInterval
    <3>6. CASE r.frequency = "MONTHLY"
      BY <3>2, <3>3, <3>6 DEF AddInterval
    <3>7. CASE r.frequency = "YEARLY"
      BY <3>2, <3>3, <3>7 DEF AddInterval
    <3> QED
      BY <3>4, <3>5, <3>6, <3>7
  <2> QED
    BY <1>5, <2>1, <2>2, <2>3
<1>9. \A k \in 1..(c - 1) : days[k] < days[k + 1]
  BY <1>7
<1>10. \A k \in 1..c : days[k] >= DayOf(r.startsOn)
  <2>1. TAKE k \in 1..c
  <2>2. 1 \in 1..c /\ days[1] = DayOf(r.startsOn) /\ (1 < k => days[1] < days[k]) /\ (k = 1 \/ 1 < k) /\ days[1] \in Nat /\ days[k] \in Nat
    BY <1>6, <1>7, <1>8
  <2> QED
    BY <2>2
<1>11. \A k \in 1..c : r.endsOn # None => days[k] <= r.endsOn
  BY <1>5 DEF Within
<1>12. days # <<>> => c > 0
  BY <1>3, <1>4
<1> QED
  BY <1>3, <1>4, <1>8, <1>9, <1>10, <1>11, <1>12

----------------------------------------------------------------------------
(* The payables: a request whose view still holds may be written.          *)

RequestRecords ==
  [op : Ops \cup {None}, of : Nat, amount : Nat, due : Nat, account : Accounts \cup {None}, at : Nat, payment : Nat, stale : BOOLEAN]

StoredTypes ==
  /\ world \in Worlds
  /\ payables \in Seq(PayableRecords)
  /\ payments \in Seq(PaymentRecords)
  /\ request \in [Clients -> RequestRecords]
  /\ \A k \in DOMAIN payments : payments[k].of \in DOMAIN payables
  /\ outdated \subseteq DOMAIN payables

Meant(c) ==
  /\ c.op \in Ops /\ c.of \in DOMAIN payables
  /\ c.op = "pay" => c.amount \in Amounts /\ c.account \in Accounts
  /\ c.op = "update" => c.amount \in Amounts
  /\ c.op = "reverse" => c.payment \in DOMAIN payments

Holds(c) ==
  /\ c.op = "pay" => ~payables[c.of].cancelled /\ Paid(c.of, payments) + c.amount <= payables[c.of].expected
  /\ c.op = "update" => ~payables[c.of].cancelled /\ Paid(c.of, payments) <= c.amount
  /\ c.op = "cancel" => Paid(c.of, payments) = 0

Requested == \A u \in Clients : request[u] # Idle => Meant(request[u]) /\ (request[u].stale \/ Holds(request[u]))

PayablesInv == StoredTypes /\ Requested /\ Settled

LEMMA StoredFields ==
  ASSUME StoredTypes
  PROVE  /\ \A p \in DOMAIN payables : /\ payables[p] \in PayableRecords /\ payables[p].expected \in Amounts
                                       /\ payables[p].expected \in Nat \ {0} /\ payables[p].due \in Nat /\ payables[p].cancelled \in BOOLEAN
         /\ \A k \in DOMAIN payments : /\ payments[k] \in PaymentRecords /\ payments[k].of \in DOMAIN payables
                                       /\ payments[k].account \in Accounts /\ payments[k].amount \in Amounts
                                       /\ payments[k].amount \in Nat \ {0} /\ payments[k].at \in Nat /\ payments[k].reversed \in BOOLEAN
         /\ DOMAIN payables = 1..Len(payables) /\ Len(payables) \in Nat /\ DOMAIN payments = 1..Len(payments) /\ Len(payments) \in Nat
         /\ IsFiniteSet(DOMAIN payables) /\ IsFiniteSet(DOMAIN payments)
         /\ \A u \in Clients : request[u] \in RequestRecords /\ request[u].amount \in Nat
         /\ \A p : Paid(p, payments) \in Nat
<1>1. payables \in Seq(PayableRecords) /\ payments \in Seq(PaymentRecords) /\ request \in [Clients -> RequestRecords]
  BY DEF StoredTypes
<1>2. \A p \in DOMAIN payables : payables[p] \in PayableRecords
  BY <1>1
<1>3. \A k \in DOMAIN payments : payments[k] \in PaymentRecords
  BY <1>1
<1>4. DOMAIN payables = 1..Len(payables) /\ Len(payables) \in Nat /\ DOMAIN payments = 1..Len(payments) /\ Len(payments) \in Nat
  BY <1>1
<1>5. IsFiniteSet(DOMAIN payables) /\ IsFiniteSet(DOMAIN payments)
  BY <1>4, FS_Interval
<1>6. Amounts \subseteq Nat \ {0}
  BY PayablesAssumption
<1>7. \A x \in PayableRecords : x.expected \in Amounts /\ x.expected \in Nat \ {0} /\ x.due \in Nat /\ x.cancelled \in BOOLEAN
  BY <1>6 DEF PayableRecords
<1>8. \A x \in PaymentRecords : x.account \in Accounts /\ x.amount \in Amounts /\ x.amount \in Nat \ {0} /\ x.at \in Nat /\ x.reversed \in BOOLEAN
  BY <1>6 DEF PaymentRecords
<1>9. \A u \in Clients : request[u] \in RequestRecords
  BY <1>1
<1>10. \A x \in RequestRecords : x.amount \in Nat
  BY DEF RequestRecords
<1>11. \A k \in DOMAIN payments : payments[k].of \in DOMAIN payables
  BY DEF StoredTypes
<1>12. \A p : Paid(p, payments) \in Nat
  BY <1>1, PaidNatural
<1>13. \A p \in DOMAIN payables : /\ payables[p] \in PayableRecords /\ payables[p].expected \in Amounts
                                  /\ payables[p].expected \in Nat \ {0} /\ payables[p].due \in Nat /\ payables[p].cancelled \in BOOLEAN
  BY <1>2, <1>7
<1>14. \A k \in DOMAIN payments : /\ payments[k] \in PaymentRecords /\ payments[k].of \in DOMAIN payables
                                  /\ payments[k].account \in Accounts /\ payments[k].amount \in Amounts
                                  /\ payments[k].amount \in Nat \ {0} /\ payments[k].at \in Nat /\ payments[k].reversed \in BOOLEAN
  BY <1>3, <1>8, <1>11
<1>15. \A u \in Clients : request[u] \in RequestRecords /\ request[u].amount \in Nat
  BY <1>9, <1>10
<1> QED
  BY <1>4, <1>5, <1>12, <1>13, <1>14, <1>15

LEMMA IdleIsARequest == Idle \in RequestRecords
  BY DEF Idle, RequestRecords

LEMMA PayablesBegin ==
  ASSUME PayablesInit
  PROVE  PayablesInv
<1>1. world \in Worlds /\ payables = world.begun /\ payments = <<>> /\ outdated = {} /\ request = [u \in Clients |-> Idle]
  BY DEF PayablesInit
<1>2. payables \in Seq(PayableRecords)
  BY <1>1, WorldsAssumption DEF PayableRecords, Kinds
<1>3. payments \in Seq(PaymentRecords) /\ DOMAIN payments = {}
  BY <1>1
<1>4. request \in [Clients -> RequestRecords]
  BY <1>1, IdleIsARequest
<1>5. StoredTypes
  BY <1>1, <1>2, <1>3, <1>4 DEF StoredTypes
<1>6. Requested
  BY <1>1 DEF Requested
<1>7. \A p : Paid(p, payments) = 0
  BY <1>3, PaidNothing
<1>8. Settled
  BY <1>5, <1>7, StoredFields DEF Settled
<1> QED
  BY <1>5, <1>6, <1>8 DEF PayablesInv

LEMMA DaysNatural ==
  ASSUME StoredTypes
  PROVE  Days \subseteq Nat
<1>1. \A k \in DOMAIN world.begun : world.begun[k].due \in Nat
  <2>1. PICK begun : begun = world.begun
    OBVIOUS
  <2>2. begun \in Seq(PayableRecords)
    BY <2>1, WorldsAssumption DEF StoredTypes, PayableRecords, Kinds
  <2>3. \A k \in DOMAIN begun : begun[k] \in PayableRecords
    BY <2>2
  <2>4. \A x \in PayableRecords : x.due \in Nat
    BY DEF PayableRecords
  <2> QED
    BY <2>1, <2>3, <2>4
<1>2. world.paidOn \subseteq Nat
  BY WorldsAssumption DEF StoredTypes
<1> QED
  BY <1>1, <1>2 DEF Days

(* Payables that are there keep their payments when others come.             *)
LEMMA CreateKeeps ==
  ASSUME PayablesInv, NEW amount \in Amounts, NEW due \in Days, NEW r \in world.series, Create(amount, due, r)
  PROVE  PayablesInv'
<1>1. StoredTypes /\ Requested /\ Settled
  BY DEF PayablesInv
<1>2. PICK days : days = IF r = None \/ Occurrences(r) = <<>> THEN <<due>> ELSE Occurrences(r)
  OBVIOUS
<1>3. due \in Nat
  BY <1>1, DaysNatural
<1>4. days \in Seq(Nat)
  <2>1. r # None => SeriesOK(r)
    BY <1>1, WorldsAssumption DEF StoredTypes
  <2> QED
    BY <1>2, <1>3, <2>1, OccurrencesFollow
<1>5. PICK new : new = [k \in DOMAIN days |-> NewPayable(amount, days[k], IF Len(days) > 1 THEN r ELSE None)]
  OBVIOUS
<1>6. payables' = payables \o new /\ UNCHANGED <<world, payments, request, outdated>>
  BY <1>2, <1>5 DEF Create
<1>7. new \in Seq(PayableRecords)
  <2>1. \A k \in DOMAIN days : days[k] \in Nat /\ DOMAIN days = 1..Len(days)
    BY <1>4
  <2>2. \A k \in DOMAIN days : NewPayable(amount, days[k], IF Len(days) > 1 THEN r ELSE None) \in PayableRecords
    BY <2>1 DEF NewPayable, PayableRecords, Kinds
  <2>3. new \in [1..Len(days) -> PayableRecords] /\ Len(days) \in Nat
    BY <1>4, <1>5, <2>1, <2>2
  <2> QED
    BY <2>3
<1>8. payables \in Seq(PayableRecords)
  BY <1>1 DEF StoredTypes
<1>9. payables' \in Seq(PayableRecords) /\ DOMAIN payables \subseteq DOMAIN payables' /\ (\A p \in DOMAIN payables : payables'[p] = payables[p])
  BY <1>6, <1>7, <1>8
<1>10. StoredTypes'
  <2>1. (payables \in Seq(PayableRecords))'
    BY <1>6, <1>9 DEF PayableRecords, Kinds
  <2> QED
    BY <1>1, <1>6, <1>9, <2>1 DEF StoredTypes
<1>11. Requested'
  <2>1. SUFFICES ASSUME NEW u \in Clients, request'[u] # Idle PROVE Meant(request[u])' /\ (request'[u].stale \/ Holds(request[u])')
    BY DEF Requested
  <2>2. Meant(request[u]) /\ (request[u].stale \/ Holds(request[u])) /\ request'[u] = request[u]
    BY <1>1, <1>6, <2>1 DEF Requested
  <2>3. request[u].of \in DOMAIN payables /\ payables'[request[u].of] = payables[request[u].of]
    BY <1>9, <2>2 DEF Meant
  <2>4. Meant(request[u])'
    BY <1>6, <1>9, <2>2 DEF Meant
  <2>5. Holds(request[u]) => Holds(request[u])'
    BY <1>6, <2>2, <2>3 DEF Holds
  <2> QED
    BY <2>2, <2>4, <2>5
<1>12. Settled'
  <2>1. SUFFICES ASSUME NEW p \in DOMAIN payables', p \notin outdated
                 PROVE  Paid(p, payments) <= payables'[p].expected /\ (payables'[p].cancelled => Paid(p, payments) = 0)
    BY <1>6 DEF Settled
  <2>2. CASE p \in DOMAIN payables
    BY <1>1, <1>9, <2>1, <2>2 DEF Settled
  <2>3. CASE p \notin DOMAIN payables
    <3>1. \A k \in DOMAIN payments : payments[k].of # p
      BY <1>1, <2>3 DEF StoredTypes
    <3>2. Paid(p, payments) = 0
      BY <1>1, <3>1, PaidNothing DEF StoredTypes
    <3>3. payables'[p] \in PayableRecords
      BY <1>9
    <3>4. payables'[p].expected \in Nat
      BY <3>3, PayablesAssumption DEF PayableRecords
    <3> QED
      BY <3>2, <3>4
  <2> QED
    BY <2>2, <2>3
<1> QED
  BY <1>10, <1>11, <1>12 DEF PayablesInv

(* A command that was checked holds until what it saw changes.               *)
LEMMA BeginKeeps ==
  ASSUME PayablesInv, NEW u \in Clients, NEW c \in RequestRecords, Begin(u, c), Meant(c), Holds(c)
  PROVE  PayablesInv'
<1>1. StoredTypes /\ Requested /\ Settled
  BY DEF PayablesInv
<1>2. request' = [request EXCEPT ![u] = c] /\ UNCHANGED <<world, payables, payments, outdated>>
  BY DEF Begin
<1>3. StoredTypes'
  BY <1>1, <1>2 DEF StoredTypes, PayableRecords, Kinds
<1>4. Requested'
  <2>1. SUFFICES ASSUME NEW v \in Clients, request'[v] # Idle PROVE Meant(request[v])' /\ (request'[v].stale \/ Holds(request[v])')
    BY DEF Requested
  <2>2. \A d : (Meant(d) => Meant(d)') /\ (Holds(d) => Holds(d)')
    BY <1>2 DEF Meant, Holds
  <2>3. CASE v = u
    <3>1. request'[v] = c
      BY <1>1, <1>2, <2>3 DEF StoredTypes
    <3>2. (Meant(request[v])' <=> Meant(c)) /\ (Holds(request[v])' <=> Holds(c))
      BY <1>2, <3>1 DEF Meant, Holds
    <3> QED
      BY <3>2
  <2>4. CASE v # u
    <3>1. request'[v] = request[v]
      BY <1>1, <1>2, <2>4 DEF StoredTypes
    <3>2. (Meant(request[v])' <=> Meant(request[v])) /\ (Holds(request[v])' <=> Holds(request[v]))
      BY <1>2, <3>1 DEF Meant, Holds
    <3> QED
      BY <1>1, <2>1, <3>1, <3>2 DEF Requested
  <2> QED
    BY <2>3, <2>4
<1>5. Settled'
  BY <1>1, <1>2 DEF Settled
<1> QED
  BY <1>3, <1>4, <1>5 DEF PayablesInv

LEMMA CommandKeeps ==
  ASSUME PayablesInv, NEW u \in Clients,
         \/ \E p \in DOMAIN payables :
              \/ \E amount \in Amounts, account \in Accounts, at \in world.paidOn : BeginPay(u, p, amount, account, at)
              \/ \E amount \in Amounts, due \in Days : BeginUpdate(u, p, amount, due)
              \/ BeginCancel(u, p)
         \/ \E k \in DOMAIN payments : BeginReverse(u, k)
  PROVE  PayablesInv'
<1>1. StoredTypes
  BY DEF PayablesInv
<1>2. \A p \in DOMAIN payables : p \in Nat
  BY <1>1, StoredFields
<1>3. Amounts \subseteq Nat \ {0}
  BY PayablesAssumption
<1>4. world.paidOn \subseteq Nat
  BY <1>1, WorldsAssumption DEF StoredTypes
<1>5. ASSUME NEW p \in DOMAIN payables, NEW amount \in Amounts, NEW account \in Accounts, NEW at \in world.paidOn,
             BeginPay(u, p, amount, account, at)
      PROVE  PayablesInv'
  <2>1. PICK c : c = [Idle EXCEPT !.op = "pay", !.of = p, !.amount = amount, !.account = account, !.at = at]
    OBVIOUS
  <2>2. c \in RequestRecords
    BY <1>2, <1>3, <1>4, <2>1 DEF Idle, RequestRecords, Ops
  <2>3. c.op = "pay" /\ c.of = p /\ c.amount = amount /\ c.account = account
    BY <2>1 DEF Idle
  <2>4. Meant(c)
    BY <2>3 DEF Meant, Ops
  <2>5. ~payables[p].cancelled /\ amount <= Remaining(payables[p].expected, Paid(p, payments)) /\ Begin(u, c)
    BY <1>5, <2>1 DEF BeginPay, CanPay
  <2>6. payables[p].expected \in Nat /\ Paid(p, payments) \in Nat /\ amount \in Nat \ {0}
    BY <1>1, <1>3, StoredFields
  <2>7. Paid(p, payments) + amount <= payables[p].expected
    BY <2>5, <2>6 DEF Remaining, Larger
  <2>8. Holds(c)
    BY <2>3, <2>5, <2>7 DEF Holds
  <2> QED
    BY <2>2, <2>4, <2>5, <2>8, BeginKeeps
<1>6. ASSUME NEW p \in DOMAIN payables, NEW amount \in Amounts, NEW due \in Days, BeginUpdate(u, p, amount, due)
      PROVE  PayablesInv'
  <2>1. PICK c : c = [Idle EXCEPT !.op = "update", !.of = p, !.amount = amount, !.due = due]
    OBVIOUS
  <2>2. c \in RequestRecords
    <3>1. due \in Nat
      BY <1>1, DaysNatural
    <3> QED
      BY <1>2, <1>3, <2>1, <3>1 DEF Idle, RequestRecords, Ops
  <2>3. c.op = "update" /\ c.of = p /\ c.amount = amount
    BY <2>1 DEF Idle
  <2>4. Meant(c)
    BY <2>3 DEF Meant, Ops
  <2>5. ~payables[p].cancelled /\ amount >= Paid(p, payments) /\ Begin(u, c)
    BY <1>6, <2>1 DEF BeginUpdate
  <2>6. amount \in Nat /\ Paid(p, payments) \in Nat
    BY <1>1, <1>3, StoredFields
  <2>7. Holds(c)
    BY <2>3, <2>5, <2>6 DEF Holds
  <2> QED
    BY <2>2, <2>4, <2>5, <2>7, BeginKeeps
<1>7. ASSUME NEW p \in DOMAIN payables, BeginCancel(u, p) PROVE PayablesInv'
  <2>1. PICK c : c = [Idle EXCEPT !.op = "cancel", !.of = p]
    OBVIOUS
  <2>2. c \in RequestRecords
    BY <1>2, <2>1 DEF Idle, RequestRecords, Ops
  <2>3. c.op = "cancel" /\ c.of = p
    BY <2>1 DEF Idle
  <2>4. Meant(c)
    BY <2>3 DEF Meant, Ops
  <2>5. Paid(p, payments) = 0 /\ Begin(u, c)
    BY <1>7, <2>1 DEF BeginCancel, CanCancel
  <2>6. Holds(c)
    BY <2>3, <2>5 DEF Holds
  <2> QED
    BY <2>2, <2>4, <2>5, <2>6, BeginKeeps
<1>8. ASSUME NEW k \in DOMAIN payments, BeginReverse(u, k) PROVE PayablesInv'
  <2>1. PICK c : c = [Idle EXCEPT !.op = "reverse", !.of = payments[k].of, !.payment = k]
    OBVIOUS
  <2>2. payments[k].of \in DOMAIN payables /\ k \in Nat
    BY <1>1, StoredFields
  <2>3. c \in RequestRecords
    BY <1>2, <2>1, <2>2 DEF Idle, RequestRecords, Ops
  <2>4. c.op = "reverse" /\ c.of = payments[k].of /\ c.payment = k
    BY <2>1 DEF Idle
  <2>5. Meant(c) /\ Holds(c)
    BY <2>2, <2>4 DEF Meant, Holds, Ops
  <2>6. Begin(u, c)
    BY <1>8, <2>1 DEF BeginReverse
  <2> QED
    BY <2>3, <2>5, <2>6, BeginKeeps
<1> QED
  BY <1>5, <1>6, <1>7, <1>8

LEMMA RollbackKeeps ==
  ASSUME PayablesInv, NEW u \in Clients, Rollback(u)
  PROVE  PayablesInv'
<1>1. StoredTypes /\ Requested /\ Settled
  BY DEF PayablesInv
<1>2. request' = [request EXCEPT ![u] = Idle] /\ UNCHANGED <<world, payables, payments, outdated>>
  BY DEF Rollback
<1>3. StoredTypes'
  BY <1>1, <1>2, IdleIsARequest DEF StoredTypes, PayableRecords, Kinds
<1>4. Requested'
  <2>1. SUFFICES ASSUME NEW v \in Clients, request'[v] # Idle PROVE Meant(request[v])' /\ (request'[v].stale \/ Holds(request[v])')
    BY DEF Requested
  <2>2. request'[v] = request[v]
    BY <1>1, <1>2, <2>1 DEF StoredTypes
  <2>3. (Meant(request[v])' <=> Meant(request[v])) /\ (Holds(request[v])' <=> Holds(request[v]))
    BY <1>2, <2>2 DEF Meant, Holds
  <2> QED
    BY <1>1, <2>1, <2>2, <2>3 DEF Requested
<1>5. Settled'
  BY <1>1, <1>2 DEF Settled
<1> QED
  BY <1>3, <1>4, <1>5 DEF PayablesInv

(* A write leaves the other payables as they were, or paid with less; and    *)
(* its own paid within what is expected, if its view still held.             *)
WellWritten ==
  /\ payables' \in Seq(PayableRecords) /\ DOMAIN payables' = DOMAIN payables
  /\ payments' \in Seq(PaymentRecords) /\ DOMAIN payments \subseteq DOMAIN payments'
  /\ \A k \in DOMAIN payments' : payments'[k].of \in DOMAIN payables
Others(c) ==
  \A p \in DOMAIN payables :
    p # c.of \/ c.op = "reverse" => payables'[p] = payables[p] /\ Paid(p, payments') <= Paid(p, payments)
Own(c) ==
  c.op # "reverse" /\ ~c.stale =>
    /\ Paid(c.of, payments') <= payables'[c.of].expected
    /\ payables'[c.of].cancelled => Paid(c.of, payments') = 0

LEMMA PayWrites ==
  ASSUME StoredTypes, NEW c \in RequestRecords, Meant(c), c.stale \/ Holds(c), Becomes(c), c.op = "pay"
  PROVE  WellWritten /\ Others(c) /\ Own(c)
<1>1. PICK new : new = [of |-> c.of, account |-> c.account, amount |-> c.amount, at |-> c.at, reversed |-> FALSE]
  OBVIOUS
<1>2. payments' = Append(payments, new) /\ payables' = payables
  BY <1>1 DEF Becomes
<1>3. c.amount \in Amounts /\ c.account \in Accounts /\ c.of \in DOMAIN payables /\ c.of \in Nat /\ c.at \in Nat
  BY DEF Meant, RequestRecords
<1>4. new \in PaymentRecords /\ ~new.reversed /\ new.of = c.of /\ new.amount = c.amount
  BY <1>1, <1>3 DEF PaymentRecords
<1>5. payments \in Seq(PaymentRecords) /\ payables \in Seq(PayableRecords)
  BY DEF StoredTypes
<1>6. PICK x, more : x = Len(payments) + 1 /\ more = payments'
  OBVIOUS
<1>7. more \in Seq(PaymentRecords) /\ DOMAIN more = DOMAIN payments \cup {x} /\ x \notin DOMAIN payments
      /\ more[x] = new /\ \A k \in DOMAIN payments : more[k] = payments[k]
  BY <1>2, <1>4, <1>5, <1>6
<1>8. \A p : Paid(p, more) = IF new.of = p THEN Paid(p, payments) + new.amount ELSE Paid(p, payments)
  BY <1>4, <1>5, <1>7, PaidMore
<1>9. \A p : Paid(p, payments) \in Nat
  BY <1>5, PaidNatural
<1>10. WellWritten
  <2>1. \A k \in DOMAIN more : more[k].of \in DOMAIN payables
    BY <1>3, <1>4, <1>7 DEF StoredTypes
  <2> QED
    BY <1>2, <1>5, <1>6, <1>7, <2>1 DEF WellWritten
<1>11. Others(c)
  BY <1>2, <1>4, <1>6, <1>8, <1>9 DEF Others
<1>12. Own(c)
  <2>1. SUFFICES ASSUME ~c.stale PROVE Paid(c.of, more) <= payables[c.of].expected /\ ~payables[c.of].cancelled
    BY <1>2, <1>6 DEF Own
  <2>2. ~payables[c.of].cancelled /\ Paid(c.of, payments) + c.amount <= payables[c.of].expected
    BY <2>1 DEF Holds
  <2> QED
    BY <1>4, <1>8, <2>2
<1> QED
  BY <1>10, <1>11, <1>12

LEMMA UpdateWrites ==
  ASSUME StoredTypes, NEW c \in RequestRecords, Meant(c), c.stale \/ Holds(c), Becomes(c), c.op = "update"
  PROVE  WellWritten /\ Others(c) /\ Own(c)
<1>1. payables' = [payables EXCEPT ![c.of].expected = c.amount, ![c.of].due = c.due] /\ payments' = payments
  BY DEF Becomes
<1>2. c.amount \in Amounts /\ c.of \in DOMAIN payables /\ c.due \in Nat
  BY DEF Meant, RequestRecords
<1>3. payments \in Seq(PaymentRecords) /\ payables \in Seq(PayableRecords)
  BY DEF StoredTypes
<1>4. PICK old \in PayableRecords : old = payables[c.of]
  BY <1>2, <1>3
<1>5. PICK one : one = [old EXCEPT !.expected = c.amount]
  OBVIOUS
<1>6. one \in PayableRecords /\ one.expected = c.amount /\ one.cancelled = old.cancelled
  BY <1>2, <1>5 DEF PayableRecords
<1>7. PICK new : new = [one EXCEPT !.due = c.due]
  OBVIOUS
<1>8. new \in PayableRecords /\ new.expected = c.amount /\ new.cancelled = old.cancelled
  BY <1>2, <1>6, <1>7 DEF PayableRecords
<1>9. DOMAIN payables' = DOMAIN payables /\ payables'[c.of] = new /\ \A p \in DOMAIN payables \ {c.of} : payables'[p] = payables[p]
  BY <1>1, <1>2, <1>4, <1>5, <1>7
<1>10. payables' \in Seq(PayableRecords)
  <2>1. DOMAIN payables = 1..Len(payables) /\ Len(payables) \in Nat
    BY <1>3
  <2>2. \A p \in DOMAIN payables : payables'[p] \in PayableRecords
    BY <1>3, <1>8, <1>9
  <2>3. PICK paid : paid = payables'
    OBVIOUS
  <2>4. paid = [p \in 1..Len(payables) |-> paid[p]]
    BY <1>1, <2>1, <2>3
  <2>5. paid \in [1..Len(payables) -> PayableRecords]
    BY <2>1, <2>2, <2>3, <2>4
  <2>6. paid \in Seq(PayableRecords)
    BY <2>1, <2>5
  <2> QED
    BY <2>3, <2>6
<1>11. \A p : Paid(p, payments) \in Nat
  BY <1>3, PaidNatural
<1>12. WellWritten
  BY <1>1, <1>3, <1>9, <1>10 DEF WellWritten, StoredTypes
<1>13. Others(c)
  BY <1>1, <1>9, <1>11 DEF Others
<1>14. Own(c)
  BY <1>1, <1>4, <1>8, <1>9 DEF Own, Holds
<1> QED
  BY <1>12, <1>13, <1>14

LEMMA CancelWrites ==
  ASSUME StoredTypes, NEW c \in RequestRecords, Meant(c), c.stale \/ Holds(c), Becomes(c), c.op = "cancel"
  PROVE  WellWritten /\ Others(c) /\ Own(c)
<1>1. payables' = [payables EXCEPT ![c.of].cancelled = TRUE] /\ payments' = payments
  BY DEF Becomes
<1>2. c.of \in DOMAIN payables
  BY DEF Meant
<1>3. payments \in Seq(PaymentRecords) /\ payables \in Seq(PayableRecords)
  BY DEF StoredTypes
<1>4. PICK old \in PayableRecords : old = payables[c.of]
  BY <1>2, <1>3
<1>5. PICK new : new = [old EXCEPT !.cancelled = TRUE]
  OBVIOUS
<1>6. new \in PayableRecords /\ new.expected = old.expected /\ old.expected \in Nat
  BY <1>5, PayablesAssumption DEF PayableRecords
<1>7. DOMAIN payables' = DOMAIN payables /\ payables'[c.of] = new /\ \A p \in DOMAIN payables \ {c.of} : payables'[p] = payables[p]
  BY <1>1, <1>2, <1>4, <1>5
<1>8. payables' \in Seq(PayableRecords)
  <2>1. DOMAIN payables = 1..Len(payables) /\ Len(payables) \in Nat
    BY <1>3
  <2>2. \A p \in DOMAIN payables : payables'[p] \in PayableRecords
    BY <1>3, <1>6, <1>7
  <2>3. PICK paid : paid = payables'
    OBVIOUS
  <2>4. paid = [p \in 1..Len(payables) |-> paid[p]]
    BY <1>1, <2>1, <2>3
  <2>5. paid \in [1..Len(payables) -> PayableRecords]
    BY <2>1, <2>2, <2>3, <2>4
  <2>6. paid \in Seq(PayableRecords)
    BY <2>1, <2>5
  <2> QED
    BY <2>3, <2>6
<1>9. \A p : Paid(p, payments) \in Nat
  BY <1>3, PaidNatural
<1>10. WellWritten
  BY <1>1, <1>3, <1>7, <1>8 DEF WellWritten, StoredTypes
<1>11. Others(c)
  BY <1>1, <1>7, <1>9 DEF Others
<1>12. Own(c)
  BY <1>1, <1>4, <1>6, <1>7 DEF Own, Holds
<1> QED
  BY <1>10, <1>11, <1>12

LEMMA ReverseWrites ==
  ASSUME StoredTypes, NEW c \in RequestRecords, Meant(c), Becomes(c), c.op = "reverse"
  PROVE  WellWritten /\ Others(c) /\ Own(c)
<1>1. payments' = [payments EXCEPT ![c.payment].reversed = TRUE] /\ payables' = payables
  BY DEF Becomes
<1>2. PICK k \in DOMAIN payments : k = c.payment
  BY DEF Meant
<1>3. payments \in Seq(PaymentRecords) /\ payables \in Seq(PayableRecords)
  BY DEF StoredTypes
<1>4. PICK old \in PaymentRecords : old = payments[k]
  BY <1>3
<1>5. PICK new : new = [old EXCEPT !.reversed = TRUE]
  OBVIOUS
<1>6. new \in PaymentRecords /\ new.reversed = TRUE /\ new.of = old.of /\ new.amount = old.amount
  BY <1>5 DEF PaymentRecords
<1>7. PICK less : less = payments'
  OBVIOUS
<1>8. DOMAIN less = DOMAIN payments /\ less[k] = new /\ \A j \in DOMAIN payments \ {k} : less[j] = payments[j]
  BY <1>1, <1>2, <1>4, <1>5, <1>7
<1>9. less \in Seq(PaymentRecords)
  <2>1. DOMAIN payments = 1..Len(payments) /\ Len(payments) \in Nat
    BY <1>3
  <2>2. \A j \in DOMAIN payments : less[j] \in PaymentRecords
    BY <1>3, <1>6, <1>8
  <2>3. less = [j \in 1..Len(payments) |-> less[j]]
    BY <1>1, <1>7, <2>1
  <2>4. less \in [1..Len(payments) -> PaymentRecords]
    BY <2>1, <2>2, <2>3
  <2> QED
    BY <2>1, <2>4
<1>10. less[k].reversed = TRUE /\ less[k].of = payments[k].of /\ less[k].amount = payments[k].amount
  BY <1>4, <1>6, <1>8
<1>11. \A p : Paid(p, less) <= Paid(p, payments)
  BY <1>3, <1>8, <1>9, <1>10, PaidLess
<1>12. WellWritten
  <2>1. \A j \in DOMAIN less : less[j].of \in DOMAIN payables
    BY <1>8, <1>10 DEF StoredTypes
  <2> QED
    BY <1>1, <1>3, <1>7, <1>8, <1>9, <2>1 DEF WellWritten
<1>13. Others(c) /\ Own(c)
  BY <1>1, <1>7, <1>11 DEF Others, Own
<1> QED
  BY <1>12, <1>13

LEMMA WriteKeeps ==
  ASSUME PayablesInv, NEW u \in Clients, Write(u)
  PROVE  PayablesInv'
<1>1. StoredTypes /\ Requested /\ Settled
  BY DEF PayablesInv
<1>2. PICK c \in RequestRecords : c = request[u]
  BY <1>1 DEF StoredTypes
<1>3. c # Idle /\ Becomes(c) /\ UNCHANGED <<world, commands>>
      /\ outdated' = (IF c.stale /\ c.op # "reverse" THEN outdated \cup {c.of} ELSE outdated)
  BY <1>2 DEF Write
<1>4. Meant(c) /\ (c.stale \/ Holds(c))
  BY <1>1, <1>2, <1>3 DEF Requested
<1>5. WellWritten /\ Others(c) /\ Own(c)
  BY <1>1, <1>3, <1>4, PayWrites, UpdateWrites, CancelWrites, ReverseWrites DEF Meant, Ops
<1>6. ASSUME NEW v \in Clients
      PROVE  /\ request'[v] \in RequestRecords
             /\ request'[v] # Idle =>
                  /\ request[v] # Idle /\ request'[v].op = request[v].op /\ request'[v].of = request[v].of
                  /\ request'[v].amount = request[v].amount /\ request'[v].account = request[v].account
                  /\ request'[v].payment = request[v].payment
                  /\ request'[v].stale \/ (request'[v].stale = request[v].stale /\ (request[v].of # c.of \/ c.op = "reverse"))
  <2>1. PICK old \in RequestRecords : old = request[v]
    BY <1>1 DEF StoredTypes
  <2>2. PICK new : new = [old EXCEPT !.stale = TRUE]
    OBVIOUS
  <2>3. new \in RequestRecords /\ new.op = old.op /\ new.of = old.of /\ new.amount = old.amount
        /\ new.account = old.account /\ new.payment = old.payment /\ new.stale = TRUE
    BY <2>2 DEF RequestRecords
  <2>4. request'[v] = IF v = u THEN Idle
                      ELSE IF old # Idle /\ old.of = c.of /\ c.op # "reverse" THEN new ELSE old
    BY <1>2, <2>1, <2>2 DEF Write
  <2>5. CASE v = u
    BY <2>4, <2>5, IdleIsARequest
  <2>6. CASE v # u /\ old # Idle /\ old.of = c.of /\ c.op # "reverse"
    <3>1. request'[v] = new
      BY <2>4, <2>6
    <3> QED
      BY <2>1, <2>3, <2>6, <3>1
  <2>7. CASE v # u /\ ~(old # Idle /\ old.of = c.of /\ c.op # "reverse")
    <3>1. request'[v] = old
      BY <2>4, <2>7
    <3> QED
      BY <2>1, <2>7, <3>1
  <2> QED
    BY <2>5, <2>6, <2>7
<1>7. request' \in [Clients -> RequestRecords]
  <2>1. PICK after : after = request'
    OBVIOUS
  <2>2. after = [v \in Clients |-> after[v]]
    BY <1>2, <2>1 DEF Write
  <2> QED
    BY <1>6, <2>1, <2>2
<1>8. StoredTypes'
  <2>1. outdated' \subseteq DOMAIN payables'
    BY <1>1, <1>3, <1>4, <1>5 DEF StoredTypes, Meant, WellWritten
  <2>2. (payables \in Seq(PayableRecords))' /\ (payments \in Seq(PaymentRecords))' /\ (request \in [Clients -> RequestRecords])'
    BY <1>3, <1>5, <1>7 DEF WellWritten, PayableRecords, PaymentRecords, RequestRecords, Kinds
  <2>3. (\A k \in DOMAIN payments : payments[k].of \in DOMAIN payables)'
    BY <1>5 DEF WellWritten
  <2> QED
    BY <1>1, <1>3, <2>1, <2>2, <2>3 DEF StoredTypes
<1>9. Requested'
  <2>1. SUFFICES ASSUME NEW v \in Clients, request'[v] # Idle PROVE Meant(request[v])' /\ (request'[v].stale \/ Holds(request[v])')
    BY DEF Requested
  <2>2. PICK old, new : old = request[v] /\ new = request'[v]
    OBVIOUS
  <2>3. /\ old # Idle /\ new.op = old.op /\ new.of = old.of /\ new.amount = old.amount
        /\ new.account = old.account /\ new.payment = old.payment
        /\ new.stale \/ (new.stale = old.stale /\ (old.of # c.of \/ c.op = "reverse"))
    BY <1>6, <2>1, <2>2
  <2>4. Meant(old) /\ (old.stale \/ Holds(old))
    BY <1>1, <2>2, <2>3 DEF Requested
  <2>5. Meant(request[v])'
    BY <1>5, <2>2, <2>3, <2>4 DEF Meant, WellWritten
  <2>6. ASSUME ~new.stale PROVE Holds(request[v])'
    <3>1. Holds(old) /\ old.of \in DOMAIN payables /\ (old.of # c.of \/ c.op = "reverse")
      BY <2>3, <2>4, <2>6 DEF Meant
    <3>2. payables'[old.of] = payables[old.of] /\ Paid(old.of, payments') <= Paid(old.of, payments)
      BY <1>5, <3>1 DEF Others
    <3>3. PICK before, after : before = Paid(old.of, payments) /\ after = Paid(old.of, payments')
      OBVIOUS
    <3>4. before \in Nat
      BY <1>1, <3>3, StoredFields
    <3>5. after \in Nat
      BY <1>5, <3>3, PaidNatural DEF WellWritten
    <3>6. payables[old.of].expected \in Nat /\ old.amount \in Nat
      BY <1>1, <2>1, <2>2, <3>1, StoredFields
    <3>7. /\ old.op = "pay" => ~payables'[old.of].cancelled /\ after + old.amount <= payables'[old.of].expected
          /\ old.op = "update" => ~payables'[old.of].cancelled /\ after <= old.amount
          /\ old.op = "cancel" => after = 0
      BY <3>1, <3>2, <3>3, <3>4, <3>5, <3>6 DEF Holds
    <3> QED
      BY <2>2, <2>3, <3>3, <3>7 DEF Holds
  <2> QED
    BY <2>2, <2>5, <2>6
<1>10. Settled'
  <2>1. SUFFICES ASSUME NEW p \in DOMAIN payables', p \notin outdated'
                 PROVE  Paid(p, payments') <= payables'[p].expected /\ (payables'[p].cancelled => Paid(p, payments') = 0)
    BY DEF Settled
  <2>2. p \in DOMAIN payables /\ p \notin outdated
    BY <1>3, <1>5, <2>1 DEF WellWritten
  <2>3. CASE p # c.of \/ c.op = "reverse"
    <3>1. payables'[p] = payables[p] /\ Paid(p, payments') <= Paid(p, payments)
      BY <1>5, <2>2, <2>3 DEF Others
    <3>2. Paid(p, payments) <= payables[p].expected /\ (payables[p].cancelled => Paid(p, payments) = 0)
      BY <1>1, <2>2 DEF Settled
    <3>3. Paid(p, payments) \in Nat /\ payables[p].expected \in Nat
      BY <1>1, <2>2, StoredFields
    <3>4. Paid(p, payments') \in Nat
      BY <1>5, PaidNatural DEF WellWritten
    <3> QED
      BY <3>1, <3>2, <3>3, <3>4
  <2>4. CASE p = c.of /\ c.op # "reverse"
    <3>1. ~c.stale
      BY <1>3, <2>1, <2>4
    <3> QED
      BY <1>5, <2>4, <3>1 DEF Own
  <2> QED
    BY <2>3, <2>4
<1> QED
  BY <1>8, <1>9, <1>10 DEF PayablesInv

LEMMA PayablesStay ==
  ASSUME PayablesInv, UNCHANGED payableVars
  PROVE  PayablesInv'
<1>1. UNCHANGED <<world, payables, payments, request, outdated>>
  BY DEF payableVars
<1>2. StoredTypes'
  BY <1>1 DEF PayablesInv, StoredTypes, PayableRecords, PaymentRecords, RequestRecords, Kinds
<1>3. Requested'
  <2>1. SUFFICES ASSUME NEW v \in Clients, request'[v] # Idle PROVE Meant(request[v])' /\ (request'[v].stale \/ Holds(request[v])')
    BY DEF Requested
  <2>2. (Meant(request[v])' <=> Meant(request[v])) /\ (Holds(request[v])' <=> Holds(request[v]))
    BY <1>1 DEF Meant, Holds
  <2> QED
    BY <1>1, <2>1, <2>2 DEF PayablesInv, Requested
<1>4. Settled'
  BY <1>1 DEF PayablesInv, Settled
<1> QED
  BY <1>2, <1>3, <1>4 DEF PayablesInv

LEMMA PayablesKeep ==
  ASSUME PayablesInv, PayablesNext
  PROVE  PayablesInv'
  BY CreateKeeps, CommandKeeps, WriteKeeps, RollbackKeeps DEF PayablesNext

LEMMA NextKeepsPayables ==
  ASSUME PayablesInv, [Next]_vars
  PROVE  PayablesInv'
<1>1. CASE PayableStep
  BY <1>1, PayablesKeep DEF PayableStep
<1>2. CASE UNCHANGED payableVars
  BY <1>2, PayablesStay
<1>3. PayableStep \/ UNCHANGED payableVars
  BY DEF Next, vars, Move, ReverseMove, Deliver, DeleteOrder, Tomorrow, StartReport, Read
<1> QED
  BY <1>1, <1>2, <1>3

(* Unless it was written on a view that no longer held, no payable is paid   *)
(* beyond what is expected or stays paid once cancelled, and the occurrences *)
(* of a series follow one another: whatever clients overlap, pay, change,    *)
(* cancel and reverse, and in any calendar.                                  *)
THEOREM PayablesAreCorrect == Spec => []PayablesCorrect
<1>1. Init => PayablesInv
  BY PayablesBegin DEF Init
<1>2. PayablesInv /\ [Next]_vars => PayablesInv'
  BY NextKeepsPayables
<1>3. PayablesInv => PayablesCorrect
  BY SeriesAreInOrder DEF PayablesInv, StoredTypes, PayablesCorrect
<1> QED
  BY <1>1, <1>2, <1>3, PTL DEF Spec

----------------------------------------------------------------------------
(* The reports: what a report has read is of one moment, or it is torn.      *)

MoveRecords ==
  [type : {"MANUAL_INFLOW", "MANUAL_OUTFLOW", "TRANSFER", "ADJUSTMENT"}, from : Accounts, to : Accounts \cup {None},
   amount : Amounts, at : Nat, reversed : BOOLEAN]
Goes(move) == move.to \in (Accounts \ {move.from}) \cup {None} /\ (move.type = "TRANSFER" => move.to \in Accounts)

ViewOK(v) ==
  /\ v.orders \subseteq Orders /\ IsFiniteSet(v.orders)
  /\ v.payables \in Seq(PayableRecords) /\ v.payments \in Seq(PaymentRecords) /\ v.paidThen = v.payments
  /\ \A k \in DOMAIN v.payments : v.payments[k].of \in DOMAIN v.payables
  /\ v.movements \in Seq(MoveRecords) /\ \A k \in DOMAIN v.movements : Goes(v.movements[k])

CashInv ==
  /\ movements \in Seq(MoveRecords) /\ (\A k \in DOMAIN movements : Goes(movements[k]))
  /\ delivered \subseteq world.orders /\ IsFiniteSet(delivered) /\ today \in 1..world.lastDay

Fields == {"orders", "payables", "paidThen", "payments", "movements"}
Current(read, v, end) ==
  /\ "orders" \in read => v.orders = Fetched(end)
  /\ "payables" \in read => v.payables = payables /\ v.paidThen = payments
  /\ "payments" \in read => v.payments = payments
  /\ "movements" \in read => v.movements = movements

ReportInv ==
  /\ DOMAIN report = {"asOf", "end", "read", "view", "torn", "open"} /\ DOMAIN report.view = Fields
  /\ report.asOf \in Nat /\ report.end \in Nat /\ report.read \subseteq Queries
  /\ ~report.torn /\ report.read # Queries => Current(report.read, report.view, report.end)
  /\ ~report.torn /\ report.read = Queries => ViewOK(report.view)

LEMMA StoredIsWhole ==
  ASSUME PayablesInv, CashInv, NEW v,
         v.orders \subseteq delivered, v.payables = payables, v.paidThen = payments, v.payments = payments, v.movements = movements
  PROVE  ViewOK(v)
<1>1. v.orders \subseteq Orders /\ IsFiniteSet(v.orders)
  BY CashFlowAssumption, FS_Subset DEF PayablesInv, StoredTypes, CashInv
<1> QED
  BY <1>1 DEF PayablesInv, StoredTypes, CashInv, ViewOK

LEMMA ReportsBegin ==
  ASSUME Init
  PROVE  CashInv /\ ReportInv
<1>1. world \in Worlds /\ movements = <<>> /\ delivered = {} /\ today = 1 /\ report = NoReport
  BY DEF Init, PayablesInit
<1>2. CashInv
  <2>1. world.lastDay \in Nat \ {0}
    BY <1>1, WorldsAssumption
  <2>2. today \in 1..world.lastDay
    BY <1>1, <2>1
  <2>3. IsFiniteSet(delivered) /\ delivered \subseteq world.orders
    BY <1>1, FS_EmptySet
  <2>4. movements \in Seq(MoveRecords) /\ DOMAIN movements = {}
    BY <1>1
  <2> QED
    BY <2>2, <2>3, <2>4 DEF CashInv
<1>3. DOMAIN report = {"asOf", "end", "read", "view", "torn", "open"} /\ DOMAIN report.view = Fields
      /\ report.asOf = 0 /\ report.end = 0 /\ report.read = {} /\ ~report.torn
  BY <1>1 DEF NoReport, NoView, Fields
<1>4. {} # Queries
  BY DEF Queries
<1>5. ReportInv
  BY <1>3, <1>4 DEF ReportInv, Current
<1> QED
  BY <1>2, <1>5

(* What is written under a report tears it, before it is whole.              *)
LEMMA TearsWhatIsUnderWay ==
  ASSUME ReportInv, Written, UNCHANGED world
  PROVE  ReportInv'
<1>1. CASE report.read \notin {{}, Queries}
  <2>1. report' = [report EXCEPT !.torn = TRUE]
    BY <1>1 DEF Written
  <2>2. DOMAIN report' = DOMAIN report /\ report'.torn = TRUE /\ report'.asOf = report.asOf /\ report'.end = report.end
        /\ report'.read = report.read /\ report'.view = report.view
    BY <2>1 DEF ReportInv
  <2> QED
    BY <2>2 DEF ReportInv
<1>2a. "orders" \notin {} /\ "payables" \notin {} /\ "payments" \notin {} /\ "movements" \notin {}
  OBVIOUS
<1>2. CASE report.read \in {{}, Queries}
  <2>1. report' = report
    BY <1>2 DEF Written
  <2>2. report.read # Queries => Current(report.read, report.view, report.end)'
    BY <1>2, <2>1, <1>2a DEF Current
  <2>3. ViewOK(report.view)' <=> ViewOK(report.view)
    BY <2>1 DEF ViewOK, PayableRecords, PaymentRecords, MoveRecords, Goes, Kinds
  <2> QED
    BY <2>1, <2>2, <2>3 DEF ReportInv
<1> QED
  BY <1>1, <1>2

LEMMA ReadKeeps ==
  ASSUME PayablesInv, CashInv, ReportInv, NEW query \in Queries, Read(query)
  PROVE  ReportInv'
<1>1. UNCHANGED <<payables, payments, movements, delivered, world>>
  BY DEF Read, payableVars
<1>2. PICK old : old = report.view
  OBVIOUS
<1>3. PICK new : new = Take(old, query)
  OBVIOUS
<1>4. report' = [report EXCEPT !.read = report.read \cup {query}, !.view = new]
  BY <1>2, <1>3 DEF Read
<1>5. DOMAIN report' = DOMAIN report /\ report'.torn = report.torn /\ report'.asOf = report.asOf /\ report'.end = report.end
      /\ report'.read = report.read \cup {query} /\ report'.view = new
  BY <1>4 DEF ReportInv
<1>6. DOMAIN old = Fields
  BY <1>2 DEF ReportInv
<1>7. DOMAIN new = Fields
  BY <1>3, <1>6 DEF Take, Queries, Fields
<1>8. report.read \subseteq Queries /\ query \notin report.read /\ report.read # Queries
  BY DEF ReportInv, Read
<1>9. ASSUME ~report.torn PROVE Current(report'.read, new, report.end)
  <2>1. Current(report.read, old, report.end)
    BY <1>2, <1>8, <1>9 DEF ReportInv
  <2>2. CASE query = "orders"
    <3>1. new.orders = Fetched(report.end) /\ new.payables = old.payables /\ new.paidThen = old.paidThen
          /\ new.payments = old.payments /\ new.movements = old.movements
      BY <1>3, <1>6, <2>2 DEF Take, Fields
    <3> QED
      BY <1>5, <2>1, <2>2, <3>1 DEF Current
  <2>3. CASE query = "payables"
    <3>1. new.orders = old.orders /\ new.payables = payables /\ new.paidThen = payments
          /\ new.payments = old.payments /\ new.movements = old.movements
      BY <1>3, <1>6, <2>3 DEF Take, Fields
    <3> QED
      BY <1>5, <2>1, <2>3, <3>1 DEF Current
  <2>4. CASE query = "payments"
    <3>1. new.orders = old.orders /\ new.payables = old.payables /\ new.paidThen = old.paidThen
          /\ new.payments = payments /\ new.movements = old.movements
      BY <1>3, <1>6, <2>4 DEF Take, Fields
    <3> QED
      BY <1>5, <2>1, <2>4, <3>1 DEF Current
  <2>5. CASE query = "movements"
    <3>1. new.orders = old.orders /\ new.payables = old.payables /\ new.paidThen = old.paidThen
          /\ new.payments = old.payments /\ new.movements = movements
      BY <1>3, <1>6, <2>5 DEF Take, Fields
    <3> QED
      BY <1>5, <2>1, <2>5, <3>1 DEF Current
  <2> QED
    BY <2>2, <2>3, <2>4, <2>5 DEF Queries
<1>10. ASSUME ~report.torn, report'.read = Queries PROVE ViewOK(new)
  <2>1. new.orders \subseteq delivered /\ new.payables = payables /\ new.paidThen = payments
        /\ new.payments = payments /\ new.movements = movements
    BY <1>9, <1>10 DEF Current, Queries, Fetched
  <2> QED
    BY <2>1, StoredIsWhole
<1>11. (Current(report.read, report.view, report.end)' <=> Current(report'.read, new, report.end)) /\ (ViewOK(report.view)' <=> ViewOK(new))
  <2>1. ViewOK(report.view)' <=> ViewOK(new)
    BY <1>1, <1>5 DEF ViewOK, PayableRecords, PaymentRecords, MoveRecords, Goes, Kinds
  <2>2. Current(report.read, report.view, report.end)' <=> Current(report'.read, new, report.end)
    BY <1>1, <1>5 DEF Current, Fetched
  <2> QED
    BY <2>1, <2>2
<1>12. report'.read \subseteq Queries
  BY <1>5, <1>8
<1> QED
  BY <1>5, <1>7, <1>9, <1>10, <1>11, <1>12 DEF ReportInv

LEMMA StartKeeps ==
  ASSUME PayablesInv, CashInv, NEW asked \in world.asked, StartReport(asked.asOf, asked.end)
  PROVE  ReportInv'
<1>1. PICK now \in Midnight(today)..EndOf(today) :
         report' = [NoReport EXCEPT !.asOf = IF asked.asOf = None THEN now ELSE EndOf(asked.asOf), !.open = TRUE,
                                    !.end = EndOf(IF asked.end = None
                                                  THEN (IF asked.asOf = None THEN now ELSE EndOf(asked.asOf)) \div 3 + Horizon
                                                  ELSE asked.end)]
  BY DEF StartReport
<1>8. PICK moment : moment = IF asked.asOf = None THEN now ELSE EndOf(asked.asOf)
  OBVIOUS
<1>9. PICK until : until = EndOf(IF asked.end = None THEN moment \div 3 + Horizon ELSE asked.end)
  OBVIOUS
<1>10. report' = [NoReport EXCEPT !.asOf = moment, !.open = TRUE, !.end = until]
  BY <1>1, <1>8, <1>9
<1>2. DOMAIN report' = {"asOf", "end", "read", "view", "torn", "open"} /\ DOMAIN report'.view = Fields
      /\ report'.asOf = moment /\ report'.end = until /\ report'.read = {} /\ ~report'.torn
  BY <1>10 DEF NoReport, NoView, Fields
<1>3. asked.asOf \in Nat \cup {None} /\ asked.end \in Nat \cup {None} /\ Horizon \in Nat
  BY CashFlowAssumption DEF PayablesInv, StoredTypes
<1>4. now \in Nat
  <2>1. today \in Nat
    BY WorldsAssumption DEF PayablesInv, StoredTypes, CashInv
  <2> QED
    BY <2>1 DEF Midnight, EndOf
<1>5. moment \in Nat
  BY <1>8, <1>3, <1>4 DEF EndOf
<1>6. until \in Nat
  BY <1>9, <1>3, <1>5 DEF EndOf
<1>7. {} # Queries
  BY DEF Queries
<1> QED
  BY <1>2, <1>5, <1>6, <1>7 DEF ReportInv, Current

LEMMA CashStays ==
  ASSUME CashInv, UNCHANGED <<world, movements, delivered, today>>
  PROVE  CashInv'
  BY DEF CashInv, MoveRecords, Goes

LEMMA ReportStays ==
  ASSUME ReportInv, UNCHANGED <<world, payables, payments, movements, delivered, report>>
  PROVE  ReportInv'
<1>1. (Current(report.read, report.view, report.end)' <=> Current(report.read, report.view, report.end)) /\ (ViewOK(report.view)' <=> ViewOK(report.view))
  <2>1. ViewOK(report.view)' <=> ViewOK(report.view)
    BY DEF ViewOK, PayableRecords, PaymentRecords, MoveRecords, Goes, Kinds
  <2>2. Current(report.read, report.view, report.end)' <=> Current(report.read, report.view, report.end)
    BY DEF Current, Fetched
  <2> QED
    BY <2>1, <2>2
<1> QED
  BY <1>1 DEF ReportInv

LEMMA MovementsKeep ==
  ASSUME PayablesInv, CashInv, NEW type \in {"MANUAL_INFLOW", "MANUAL_OUTFLOW", "TRANSFER", "ADJUSTMENT"},
         NEW from \in Accounts, NEW to \in Accounts, NEW amount \in Amounts, NEW at \in world.paidOn, Move(type, from, to, amount, at)
  PROVE  CashInv'
<1>1. PICK new : new = [type |-> type, from |-> from, to |-> IF type = "TRANSFER" THEN to ELSE None,
                        amount |-> amount, at |-> at, reversed |-> FALSE]
  OBVIOUS
<1>2. movements' = Append(movements, new) /\ (type = "TRANSFER" => to # from) /\ UNCHANGED <<world, delivered, today>>
  BY <1>1 DEF Move, payableVars
<1>3. at \in Nat
  BY WorldsAssumption DEF PayablesInv, StoredTypes
<1>4. new \in MoveRecords
  BY <1>1, <1>3 DEF MoveRecords
<1>5. Goes(new)
  BY <1>1, <1>2 DEF Goes
<1>6. movements \in Seq(MoveRecords) /\ \A k \in DOMAIN movements : Goes(movements[k])
  BY DEF CashInv
<1>7. movements' \in Seq(MoveRecords) /\ \A k \in DOMAIN movements' : (k \in DOMAIN movements /\ movements'[k] = movements[k]) \/ movements'[k] = new
  BY <1>2, <1>4, <1>6
<1>8. \A k \in DOMAIN movements' : Goes(movements'[k])
  BY <1>5, <1>6, <1>7
<1>9. delivered' \subseteq world'.orders /\ IsFiniteSet(delivered') /\ today' \in 1..world'.lastDay
  BY <1>2 DEF CashInv
<1>10. (movements \in Seq(MoveRecords))' /\ (\A k \in DOMAIN movements : Goes(movements[k]))'
  BY <1>7, <1>8 DEF MoveRecords, Goes
<1> QED
  BY <1>9, <1>10 DEF CashInv

LEMMA ReversalsKeep ==
  ASSUME CashInv, NEW k \in DOMAIN movements, ReverseMove(k)
  PROVE  CashInv'
<1>1. movements' = [movements EXCEPT ![k].reversed = TRUE] /\ UNCHANGED <<world, delivered, today>>
  BY DEF ReverseMove, payableVars
<1>2. movements \in Seq(MoveRecords) /\ \A j \in DOMAIN movements : Goes(movements[j])
  BY DEF CashInv
<1>3. PICK old \in MoveRecords : old = movements[k]
  BY <1>2
<1>4. PICK new : new = [old EXCEPT !.reversed = TRUE]
  OBVIOUS
<1>5. new \in MoveRecords /\ new.to = old.to /\ new.from = old.from /\ new.type = old.type
  BY <1>4 DEF MoveRecords
<1>6. PICK moves : moves = movements'
  OBVIOUS
<1>7. DOMAIN moves = DOMAIN movements /\ moves[k] = new /\ \A j \in DOMAIN movements \ {k} : moves[j] = movements[j]
  BY <1>1, <1>3, <1>4, <1>6
<1>8. moves \in Seq(MoveRecords)
  <2>1. DOMAIN movements = 1..Len(movements) /\ Len(movements) \in Nat
    BY <1>2
  <2>2. \A j \in DOMAIN movements : moves[j] \in MoveRecords
    BY <1>2, <1>5, <1>7
  <2>3. moves = [j \in 1..Len(movements) |-> moves[j]]
    BY <1>1, <1>6, <2>1
  <2>4. moves \in [1..Len(movements) -> MoveRecords]
    BY <2>1, <2>2, <2>3
  <2> QED
    BY <2>1, <2>4
<1>9. \A j \in DOMAIN moves : Goes(moves[j])
  <2>1. Goes(new)
    BY <1>2, <1>3, <1>5 DEF Goes
  <2> QED
    BY <1>2, <1>7, <2>1
<1>10. delivered' \subseteq world'.orders /\ IsFiniteSet(delivered') /\ today' \in 1..world'.lastDay
  BY <1>1 DEF CashInv
<1>11. (movements \in Seq(MoveRecords))' /\ (\A j \in DOMAIN movements : Goes(movements[j]))'
  BY <1>6, <1>8, <1>9 DEF MoveRecords, Goes
<1> QED
  BY <1>10, <1>11 DEF CashInv

FiguresInv == PayablesInv /\ CashInv /\ ReportInv

LEMMA NextKeepsFigures ==
  ASSUME FiguresInv, [Next]_vars
  PROVE  FiguresInv'
<1>1. PayablesInv /\ CashInv /\ ReportInv
  BY DEF FiguresInv
<1>2. PayablesInv'
  BY <1>1, NextKeepsPayables
<1>3. ASSUME Written, UNCHANGED world PROVE ReportInv'
  BY <1>1, <1>3, TearsWhatIsUnderWay
<1>4. CASE PayableStep
  <2>1. UNCHANGED <<world, movements, delivered, today>> /\ Written
    BY <1>4 DEF PayableStep, PayablesNext, Create, BeginPay, BeginUpdate, BeginCancel, BeginReverse, Begin, Write, Rollback
  <2> QED
    BY <1>1, <1>2, <1>3, <2>1, CashStays DEF FiguresInv
<1>5. ASSUME NEW type \in {"MANUAL_INFLOW", "MANUAL_OUTFLOW", "TRANSFER", "ADJUSTMENT"},
             NEW from \in Accounts, NEW to \in Accounts, NEW amount \in Amounts, NEW at \in world.paidOn, Move(type, from, to, amount, at)
      PROVE  FiguresInv'
  <2>1. Written /\ UNCHANGED world
    BY <1>5 DEF Move, payableVars
  <2> QED
    BY <1>1, <1>2, <1>3, <1>5, <2>1, MovementsKeep DEF FiguresInv
<1>6. ASSUME NEW k \in DOMAIN movements, ReverseMove(k) PROVE FiguresInv'
  <2>1. Written /\ UNCHANGED world
    BY <1>6 DEF ReverseMove, payableVars
  <2> QED
    BY <1>1, <1>2, <1>3, <1>6, <2>1, ReversalsKeep DEF FiguresInv
<1>7. ASSUME NEW o \in Orders, Deliver(o) \/ DeleteOrder(o) PROVE FiguresInv'
  <2>1. Written /\ UNCHANGED <<world, movements, today>> /\ delivered' \subseteq world.orders
        /\ (delivered' = delivered \cup {o} \/ delivered' = delivered \ {o})
    BY <1>1, <1>7 DEF Deliver, DeleteOrder, payableVars, CashInv
  <2>2. IsFiniteSet(delivered')
    BY <1>1, <2>1, FS_AddElement, FS_RemoveElement DEF CashInv
  <2>3. CashInv'
    BY <1>1, <2>1, <2>2 DEF CashInv, MoveRecords, Goes
  <2> QED
    BY <1>2, <1>3, <2>1, <2>3 DEF FiguresInv
<1>8. CASE Tomorrow
  <2>1. UNCHANGED <<world, payables, payments, movements, delivered, report>> /\ today < world.lastDay /\ today' = today + 1
    BY <1>8 DEF Tomorrow, payableVars
  <2>2. world.lastDay \in Nat
    BY <1>1, WorldsAssumption DEF PayablesInv, StoredTypes
  <2>3. CashInv'
    BY <1>1, <2>1, <2>2 DEF CashInv, MoveRecords, Goes
  <2> QED
    BY <1>1, <1>2, <2>1, <2>3, ReportStays DEF FiguresInv
<1>9. ASSUME NEW asked \in world.asked, StartReport(asked.asOf, asked.end) PROVE FiguresInv'
  <2>1. UNCHANGED <<world, movements, delivered, today>>
    BY <1>9 DEF StartReport, payableVars
  <2> QED
    BY <1>1, <1>2, <1>9, <2>1, CashStays, StartKeeps DEF FiguresInv
<1>10. ASSUME NEW query \in Queries, Read(query) PROVE FiguresInv'
  <2>1. UNCHANGED <<world, movements, delivered, today>>
    BY <1>10 DEF Read, payableVars
  <2> QED
    BY <1>1, <1>2, <1>10, <2>1, CashStays, ReadKeeps DEF FiguresInv
<1>11. CASE UNCHANGED vars
  <2>1. UNCHANGED <<world, payables, payments, movements, delivered, today, report>>
    BY <1>11 DEF vars, payableVars, cashVars
  <2> QED
    BY <1>1, <1>2, <2>1, CashStays, ReportStays DEF FiguresInv
<1> QED
  BY <1>4, <1>5, <1>6, <1>7, <1>8, <1>9, <1>10, <1>11 DEF Next

----------------------------------------------------------------------------
(* The figures of a view: its entries.                                       *)

EntryKinds == {"OPENING_BALANCE", "ORDER_RECEIPT", "PAYABLE_PAYMENT", "CASH_MOVEMENT", "CASH_MOVEMENT:out", "CASH_MOVEMENT:in"}
Value(e) == e.inflow - e.outflow
ValueOK(e) == e.inflow \in Nat /\ e.outflow \in Nat /\ Value(e) \in Int /\ e.at \in Nat /\ e.account \in Accounts \cup {None}

LEMMA BalanceOf ==
  ASSUME NEW S, NEW f, IsFiniteSet(S), \A e \in S : f[e] = Value(e)
  PROVE  Balance(S) = SumFunctionOnSet(f, S)
<1>1. PICK g : g = [e \in S |-> e.inflow - e.outflow]
  OBVIOUS
<1>2. Balance(S) = SumFunctionOnSet(g, S)
  BY <1>1 DEF Balance, SumFunction
<1>3. \A e \in S : f[e] = g[e]
  BY <1>1 DEF Value
<1> QED
  BY <1>2, <1>3, SumAgrees

LEMMA BalanceTyped ==
  ASSUME NEW S, IsFiniteSet(S), \A e \in S : Value(e) \in Int
  PROVE  Balance(S) \in Int
<1>1. PICK f : f = [e \in S |-> Value(e)]
  OBVIOUS
<1>2. \A e \in S : f[e] = Value(e)
  BY <1>1
<1>3. \A e \in S : f[e] \in Int
  BY <1>2
<1>4. Balance(S) = SumFunctionOnSet(f, S)
  BY <1>2, BalanceOf
<1> QED
  BY <1>3, <1>4, SumTyped

LEMMA BalanceEmpty == Balance({}) = 0
<1>1. PICK f : f = [e \in {} |-> Value(e)]
  OBVIOUS
<1>2. Balance({}) = SumFunctionOnSet(f, {})
  BY <1>1, BalanceOf, FS_EmptySet
<1> QED
  BY <1>2, SumEmpty

LEMMA BalanceJoins ==
  ASSUME NEW S, NEW T, IsFiniteSet(S), IsFiniteSet(T), S \cap T = {}, \A e \in S \cup T : Value(e) \in Int
  PROVE  Balance(S \cup T) = Balance(S) + Balance(T)
<1>1. PICK U, f : U = S \cup T /\ f = [e \in U |-> Value(e)]
  OBVIOUS
<1>2. \A e \in U : f[e] = Value(e) /\ f[e] \in Int
  BY <1>1
<1>3. IsFiniteSet(U)
  BY <1>1, FS_Union
<1>4. (\A e \in S : f[e] = Value(e)) /\ (\A e \in T : f[e] = Value(e)) /\ (\A e \in U : f[e] = Value(e)) /\ (\A e \in S \cup T : f[e] \in Int)
  BY <1>1, <1>2
<1>5. Balance(S) = SumFunctionOnSet(f, S) /\ Balance(T) = SumFunctionOnSet(f, T)
  BY <1>4, BalanceOf
<1>6. Balance(U) = SumFunctionOnSet(f, U)
  BY <1>3, <1>4, BalanceOf
<1>7. SumFunctionOnSet(f, S \cup T) = SumFunctionOnSet(f, S) + SumFunctionOnSet(f, T)
  BY <1>4, SumJoins
<1> QED
  BY <1>1, <1>5, <1>6, <1>7

(* The entries of a view are many but finite, each of one source.            *)
LEMMA MadeFinite ==
  ASSUME NEW K, IsFiniteSet(K), NEW h
  PROVE  IsFiniteSet({h[k] : k \in K})
<1>1. PICK U : U = {s \in SUBSET K : IsFiniteSet({h[k] : k \in s})}
  OBVIOUS
<1>2. {} \in U
  <2>1. {h[k] : k \in {}} = {}
    OBVIOUS
  <2> QED
    BY <1>1, <2>1, FS_EmptySet
<1>3. \A s \in U : \A x \in K : s \cup {x} \in U
  <2>1. TAKE s \in U
  <2>2. TAKE x \in K
  <2>3. {h[k] : k \in s \cup {x}} = {h[k] : k \in s} \cup {h[x]}
    OBVIOUS
  <2>4. IsFiniteSet({h[k] : k \in s})
    BY <1>1
  <2>5. IsFiniteSet({h[k] : k \in s \cup {x}})
    BY <2>3, <2>4, FS_AddElement
  <2> QED
    BY <1>1, <2>5
<1>4. K \in U
  BY <1>2, <1>3, BySubsets
<1> QED
  BY <1>1, <1>4

LEMMA JoinedFinite ==
  ASSUME NEW K, IsFiniteSet(K), NEW h, \A k \in K : IsFiniteSet(h[k])
  PROVE  IsFiniteSet(UNION {h[k] : k \in K})
<1>1. PICK U : U = {s \in SUBSET K : IsFiniteSet(UNION {h[k] : k \in s})}
  OBVIOUS
<1>2. {} \in U
  <2>1. UNION {h[k] : k \in {}} = {}
    OBVIOUS
  <2> QED
    BY <1>1, <2>1, FS_EmptySet
<1>3. \A s \in U : \A x \in K : s \cup {x} \in U
  <2>1. TAKE s \in U
  <2>2. TAKE x \in K
  <2>3. PICK old, new, add : old = UNION {h[k] : k \in s} /\ new = UNION {h[k] : k \in s \cup {x}} /\ add = h[x]
    OBVIOUS
  <2>4. new = old \cup add
    <3>1. \A e : e \in new <=> \E k \in s \cup {x} : e \in h[k]
      BY <2>3
    <3>2. \A e : e \in old <=> \E k \in s : e \in h[k]
      BY <2>3
    <3>3. \A e : e \in new <=> e \in old \/ e \in add
      BY <2>3, <3>1, <3>2
    <3> QED
      BY <3>3
  <2>5. IsFiniteSet(old) /\ IsFiniteSet(add)
    BY <1>1, <2>3
  <2>6. IsFiniteSet(new)
    BY <2>4, <2>5, FS_Union
  <2> QED
    BY <1>1, <2>3, <2>6
<1>4. K \in U
  BY <1>2, <1>3, BySubsets
<1> QED
  BY <1>1, <1>4

LEMMA ViewFields ==
  ASSUME NEW v, ViewOK(v)
  PROVE  /\ \A k \in DOMAIN v.payments : /\ v.payments[k].account \in Accounts /\ v.payments[k].amount \in Nat /\ v.payments[k].at \in Nat
                                         /\ v.payments[k].reversed \in BOOLEAN /\ v.payments[k].of \in DOMAIN v.payables
         /\ \A k \in DOMAIN v.movements : /\ v.movements[k] \in MoveRecords /\ Goes(v.movements[k]) /\ v.movements[k].amount \in Nat
                                          /\ v.movements[k].at \in Nat /\ v.movements[k].from \in Accounts
         /\ \A p \in DOMAIN v.payables : v.payables[p].expected \in Nat /\ v.payables[p].due \in Nat
         /\ \A o \in v.orders : AccountOf[o] \in Accounts \cup {None} /\ Release[o] \in Nat /\ Net[o] \in Nat
         /\ IsFiniteSet(DOMAIN v.payments) /\ IsFiniteSet(DOMAIN v.movements) /\ IsFiniteSet(DOMAIN v.payables) /\ IsFiniteSet(v.orders)
<1>1. PICK paid, moves, owed : paid = v.payments /\ moves = v.movements /\ owed = v.payables
  OBVIOUS
<1>2. paid \in Seq(PaymentRecords) /\ moves \in Seq(MoveRecords) /\ owed \in Seq(PayableRecords)
  BY <1>1 DEF ViewOK
<1>3. (\A k \in DOMAIN paid : paid[k] \in PaymentRecords) /\ (\A k \in DOMAIN moves : moves[k] \in MoveRecords)
      /\ (\A p \in DOMAIN owed : owed[p] \in PayableRecords)
  BY <1>2
<1>4. Amounts \subseteq Nat
  BY PayablesAssumption
<1>5. \A x \in PaymentRecords : x.account \in Accounts /\ x.amount \in Nat /\ x.at \in Nat /\ x.reversed \in BOOLEAN
  BY <1>4 DEF PaymentRecords
<1>6. \A x \in MoveRecords : x.amount \in Nat /\ x.at \in Nat /\ x.from \in Accounts
  BY <1>4 DEF MoveRecords
<1>7. \A x \in PayableRecords : x.expected \in Nat /\ x.due \in Nat
  BY <1>4 DEF PayableRecords
<1>8. DOMAIN paid = 1..Len(paid) /\ Len(paid) \in Nat /\ DOMAIN moves = 1..Len(moves) /\ Len(moves) \in Nat
      /\ DOMAIN owed = 1..Len(owed) /\ Len(owed) \in Nat
  BY <1>2
<1>9. IsFiniteSet(DOMAIN paid) /\ IsFiniteSet(DOMAIN moves) /\ IsFiniteSet(DOMAIN owed)
  BY <1>8, FS_Interval
<1>10. \A o \in v.orders : AccountOf[o] \in Accounts \cup {None} /\ Release[o] \in Nat /\ Net[o] \in Nat
  BY CashFlowAssumption DEF ViewOK
<1>11. (\A k \in DOMAIN paid : paid[k].of \in DOMAIN owed) /\ (\A k \in DOMAIN moves : Goes(moves[k])) /\ IsFiniteSet(v.orders)
  BY <1>1 DEF ViewOK
<1>12. \A k \in DOMAIN paid : /\ paid[k].account \in Accounts /\ paid[k].amount \in Nat /\ paid[k].at \in Nat
                              /\ paid[k].reversed \in BOOLEAN /\ paid[k].of \in DOMAIN owed
  BY <1>3, <1>5, <1>11
<1>13. \A k \in DOMAIN moves : /\ moves[k] \in MoveRecords /\ Goes(moves[k]) /\ moves[k].amount \in Nat
                               /\ moves[k].at \in Nat /\ moves[k].from \in Accounts
  BY <1>3, <1>6, <1>11
<1>14. \A p \in DOMAIN owed : owed[p].expected \in Nat /\ owed[p].due \in Nat
  BY <1>3, <1>7
<1> QED
  BY <1>1, <1>9, <1>10, <1>11, <1>12, <1>13, <1>14

(* What a movement comes to, and to whom.                                    *)
LEMMA SidesAre ==
  ASSUME NEW k, NEW m \in MoveRecords, Goes(m)
  PROVE  /\ IsFiniteSet(Sides(k, m)) /\ Balance(Sides(k, m)) = Signed(m)
         /\ \A e \in Sides(k, m) : /\ ValueOK(e) /\ e.id = k /\ e.at = Midnight(m.at)
                                   /\ e.source \in {"CASH_MOVEMENT", "CASH_MOVEMENT:out", "CASH_MOVEMENT:in"}
                                   /\ (e.account = m.from \/ (m.type = "TRANSFER" /\ e.account = m.to))
<1>1. m.amount \in Nat /\ m.at \in Nat /\ m.from \in Accounts /\ (m.type = "TRANSFER" => m.to \in Accounts)
  BY PayablesAssumption DEF MoveRecords, Goes
<1>2. PICK i, o, t, h : /\ i = Entry("CASH_MOVEMENT", k, m.from, Midnight(m.at), m.amount, 0)
                        /\ o = Entry("CASH_MOVEMENT", k, m.from, Midnight(m.at), 0, m.amount)
                        /\ t = Entry("CASH_MOVEMENT:out", k, m.from, Midnight(m.at), 0, m.amount)
                        /\ h = Entry("CASH_MOVEMENT:in", k, m.to, Midnight(m.at), m.amount, 0)
  OBVIOUS
<1>3. /\ Value(i) = m.amount /\ Value(o) = 0 - m.amount /\ Value(t) = 0 - m.amount /\ Value(h) = m.amount
      /\ i.inflow \in Nat /\ i.outflow \in Nat /\ o.inflow \in Nat /\ o.outflow \in Nat
      /\ t.inflow \in Nat /\ t.outflow \in Nat /\ h.inflow \in Nat /\ h.outflow \in Nat
      /\ i.account = m.from /\ o.account = m.from /\ t.account = m.from /\ h.account = m.to
      /\ i.id = k /\ o.id = k /\ t.id = k /\ h.id = k
      /\ i.source = "CASH_MOVEMENT" /\ o.source = "CASH_MOVEMENT" /\ t.source = "CASH_MOVEMENT:out" /\ h.source = "CASH_MOVEMENT:in"
  BY <1>1, <1>2 DEF Entry, Value
<1>4. i.at = Midnight(m.at) /\ o.at = Midnight(m.at) /\ t.at = Midnight(m.at) /\ h.at = Midnight(m.at) /\ Midnight(m.at) \in Nat
  BY <1>1, <1>2 DEF Entry, Midnight
<1>5. ValueOK(i) /\ ValueOK(o) /\ ValueOK(t) /\ (m.type = "TRANSFER" => ValueOK(h))
  BY <1>1, <1>3, <1>4 DEF ValueOK
<1>6. \A e : Value(e) \in Int => Balance({e}) = Value(e)
  <2>1. SUFFICES ASSUME NEW e, Value(e) \in Int PROVE Balance({e}) = Value(e)
    OBVIOUS
  <2>2. PICK S, f : S = {e} /\ f = [x \in S |-> Value(x)]
    OBVIOUS
  <2>3. IsFiniteSet(S)
    BY <2>2, FS_Singleton
  <2>4. \A x \in S : f[x] = Value(x)
    BY <2>2
  <2>5. Balance(S) = SumFunctionOnSet(f, S)
    BY <2>3, <2>4, BalanceOf
  <2>6. (\A x \in S : f[x] \in Int) /\ e \in S /\ S \ {e} = {}
    BY <2>1, <2>2
  <2>7. SumFunctionOnSet(f, S) = f[e] + SumFunctionOnSet(f, {})
    BY <2>3, <2>6, SumTakes
  <2> QED
    BY <2>1, <2>2, <2>4, <2>5, <2>6, <2>7, SumEmpty
<1>7. CASE m.type = "TRANSFER"
  <2>1. Sides(k, m) = {t, h}
    BY <1>2, <1>7 DEF Sides
  <2>2. {t, h} = {t} \cup {h} /\ {t} \cap {h} = {}
    BY <1>3
  <2>3. IsFiniteSet({t}) /\ IsFiniteSet({h})
    BY FS_Singleton
  <2>4. IsFiniteSet({t} \cup {h})
    BY <2>3, FS_Union
  <2>5. \A e \in {t} \cup {h} : Value(e) \in Int
    BY <1>1, <1>3
  <2>6. Balance({t} \cup {h}) = Balance({t}) + Balance({h})
    BY <2>2, <2>3, <2>5, BalanceJoins
  <2>7. Balance({t}) = 0 - m.amount /\ Balance({h}) = m.amount
    BY <1>1, <1>3, <1>6
  <2>8. Signed(m) = 0
    BY <1>7 DEF Signed
  <2>9. Balance(Sides(k, m)) = Signed(m)
    <3>1. PICK n : n = m.amount
      OBVIOUS
    <3>2. PICK b, c : b = Balance({t}) /\ c = Balance({h})
      OBVIOUS
    <3>3. n \in Nat /\ b = 0 - n /\ c = n
      BY <1>1, <2>7, <3>1, <3>2
    <3>4. b + c = 0
      BY <3>3
    <3>5. Balance({t} \cup {h}) = b + c
      BY <2>6, <3>2
    <3>6. Sides(k, m) = {t} \cup {h}
      BY <2>1, <2>2
    <3> QED
      BY <2>8, <3>4, <3>5, <3>6
  <2> QED
    BY <1>3, <1>4, <1>5, <1>7, <2>1, <2>2, <2>4, <2>9
<1>8. CASE m.type = "MANUAL_OUTFLOW"
  <2>1. Sides(k, m) = {o}
    BY <1>2, <1>8 DEF Sides
  <2>2. Signed(m) = 0 - m.amount
    BY <1>8 DEF Signed
  <2>3. IsFiniteSet({o})
    BY FS_Singleton
  <2>4. Value(o) \in Int
    BY <1>1, <1>3
  <2>5. Balance({o}) = Value(o)
    BY <1>6, <2>4
  <2> QED
    BY <1>3, <1>4, <1>5, <2>1, <2>2, <2>3, <2>5
<1>9. CASE m.type \notin {"TRANSFER", "MANUAL_OUTFLOW"}
  <2>1. Sides(k, m) = {i}
    BY <1>2, <1>9 DEF Sides
  <2>2. Signed(m) = m.amount
    BY <1>9 DEF Signed
  <2>3. IsFiniteSet({i})
    BY FS_Singleton
  <2>4. Value(i) \in Int
    BY <1>1, <1>3
  <2>5. Balance({i}) = Value(i)
    BY <1>6, <2>4
  <2> QED
    BY <1>3, <1>4, <1>5, <2>1, <2>2, <2>3, <2>5
<1> QED
  BY <1>7, <1>8, <1>9

(* The entries of all accounts, source by source.                            *)
Paying(v) == {j \in DOMAIN v.payments : ~v.payments[j].reversed}
Moving(v) == {j \in DOMAIN v.movements : ~v.movements[j].reversed}
OpeningOf(a) == Entry("OPENING_BALANCE", 0, a, Midnight(0), Opening[a], 0)
ReceiptOf(o) == Entry("ORDER_RECEIPT", o, AccountOf[o], Release[o], Net[o], 0)
PaymentOf(v, k) == Entry("PAYABLE_PAYMENT", k, v.payments[k].account, Midnight(v.payments[k].at), 0, v.payments[k].amount)

LEMMA EntriesAre ==
  ASSUME NEW v, ViewOK(v)
  PROVE  /\ OpeningEntries({}) = {OpeningOf(a) : a \in Accounts}
         /\ Receipts(v, {}) = {ReceiptOf(o) : o \in v.orders}
         /\ PaymentEntries(v, {}) = {PaymentOf(v, k) : k \in Paying(v)}
         /\ MovementEntries(v, {}) = UNION {Sides(k, v.movements[k]) : k \in Moving(v)}
<1>1. \A a : Chosen(a, {})
  BY DEF Chosen
<1>2. OpeningEntries({}) = {OpeningOf(a) : a \in Accounts}
  BY <1>1 DEF OpeningEntries, OpeningOf
<1>3. Receipts(v, {}) = {ReceiptOf(o) : o \in v.orders}
  BY <1>1 DEF Receipts, ReceiptOf
<1>4. PaymentEntries(v, {}) = {PaymentOf(v, k) : k \in Paying(v)}
  BY <1>1 DEF PaymentEntries, PaymentOf, Paying
<1>5. MovementEntries(v, {}) = UNION {Sides(k, v.movements[k]) : k \in Moving(v)}
  BY <1>1 DEF MovementEntries, Concerns, Moving
<1> QED
  BY <1>2, <1>3, <1>4, <1>5

LEMMA EntriesTyped ==
  ASSUME NEW v, ViewOK(v)
  PROVE  /\ IsFiniteSet(OpeningEntries({})) /\ IsFiniteSet(Receipts(v, {}))
         /\ IsFiniteSet(PaymentEntries(v, {})) /\ IsFiniteSet(MovementEntries(v, {}))
         /\ \A e \in OpeningEntries({}) : ValueOK(e) /\ e.source = "OPENING_BALANCE" /\ e.at = 0
         /\ \A e \in Receipts(v, {}) : ValueOK(e) /\ e.source = "ORDER_RECEIPT"
         /\ \A e \in PaymentEntries(v, {}) : ValueOK(e) /\ e.source = "PAYABLE_PAYMENT"
         /\ \A e \in MovementEntries(v, {}) : /\ ValueOK(e) /\ e.source \in {"CASH_MOVEMENT", "CASH_MOVEMENT:out", "CASH_MOVEMENT:in"}
                                              /\ e.id \in Moving(v) /\ e.at = Midnight(v.movements[e.id].at)
                                              /\ e \in Sides(e.id, v.movements[e.id])
<1>1. \A a \in Accounts : ValueOK(OpeningOf(a)) /\ OpeningOf(a).source = "OPENING_BALANCE" /\ OpeningOf(a).at = 0
  <2>1. TAKE a \in Accounts
  <2>2. Opening[a] \in Nat /\ Midnight(0) = 0
    BY CashFlowAssumption DEF Midnight
  <2> QED
    BY <2>2 DEF ValueOK, Value, OpeningOf, Entry
<1>2. \A o \in v.orders : ValueOK(ReceiptOf(o)) /\ ReceiptOf(o).source = "ORDER_RECEIPT"
  <2>1. TAKE o \in v.orders
  <2>2. AccountOf[o] \in Accounts \cup {None} /\ Release[o] \in Nat /\ Net[o] \in Nat
    BY ViewFields
  <2> QED
    BY <2>2 DEF ValueOK, Value, ReceiptOf, Entry
<1>3. \A k \in Paying(v) : ValueOK(PaymentOf(v, k)) /\ PaymentOf(v, k).source = "PAYABLE_PAYMENT"
  <2>1. TAKE k \in Paying(v)
  <2>2. v.payments[k].account \in Accounts /\ v.payments[k].amount \in Nat /\ v.payments[k].at \in Nat
    BY ViewFields DEF Paying
  <2>3. Midnight(v.payments[k].at) \in Nat
    BY <2>2 DEF Midnight
  <2> QED
    BY <2>2, <2>3 DEF ValueOK, Value, PaymentOf, Entry
<1>4. \A k \in Moving(v) : v.movements[k] \in MoveRecords /\ Goes(v.movements[k])
  BY ViewFields DEF Moving
<1>5. IsFiniteSet(Accounts) /\ IsFiniteSet(v.orders) /\ IsFiniteSet(Paying(v)) /\ IsFiniteSet(Moving(v))
  <2>1. Paying(v) \subseteq DOMAIN v.payments /\ Moving(v) \subseteq DOMAIN v.movements
    BY DEF Paying, Moving
  <2>2. IsFiniteSet(v.orders) /\ IsFiniteSet(DOMAIN v.payments) /\ IsFiniteSet(DOMAIN v.movements)
    BY ViewFields
  <2>3. IsFiniteSet(Accounts)
    BY PayablesAssumption
  <2> QED
    BY <2>1, <2>2, <2>3, FS_Subset
<1>6. IsFiniteSet(OpeningEntries({}))
  <2>1. PICK h : h = [a \in Accounts |-> OpeningOf(a)]
    OBVIOUS
  <2>2. {h[a] : a \in Accounts} = {OpeningOf(a) : a \in Accounts}
    BY <2>1
  <2>3. IsFiniteSet({h[a] : a \in Accounts})
    BY <1>5, MadeFinite
  <2> QED
    BY <2>2, <2>3, EntriesAre
<1>7. IsFiniteSet(Receipts(v, {}))
  <2>1. PICK K, h : K = v.orders /\ h = [o \in K |-> ReceiptOf(o)]
    OBVIOUS
  <2>2. {h[o] : o \in K} = {ReceiptOf(o) : o \in v.orders}
    BY <2>1
  <2>3. IsFiniteSet({h[o] : o \in K})
    BY <1>5, <2>1, MadeFinite
  <2> QED
    BY <2>2, <2>3, EntriesAre
<1>8. IsFiniteSet(PaymentEntries(v, {}))
  <2>1. PICK K, h : K = Paying(v) /\ h = [k \in K |-> PaymentOf(v, k)]
    OBVIOUS
  <2>2. {h[k] : k \in K} = {PaymentOf(v, k) : k \in Paying(v)}
    BY <2>1
  <2>3. IsFiniteSet({h[k] : k \in K})
    BY <1>5, <2>1, MadeFinite
  <2> QED
    BY <2>2, <2>3, EntriesAre
<1>9. IsFiniteSet(MovementEntries(v, {}))
  <2>1. PICK K, h : K = Moving(v) /\ h = [k \in K |-> Sides(k, v.movements[k])]
    OBVIOUS
  <2>2. UNION {h[k] : k \in K} = UNION {Sides(k, v.movements[k]) : k \in Moving(v)}
    BY <2>1
  <2>3. \A k \in K : IsFiniteSet(h[k])
    BY <1>4, <2>1, SidesAre
  <2>4. IsFiniteSet(UNION {h[k] : k \in K})
    BY <1>5, <2>1, <2>3, JoinedFinite
  <2> QED
    BY <2>2, <2>4, EntriesAre
<1>10. \A e \in OpeningEntries({}) : ValueOK(e) /\ e.source = "OPENING_BALANCE" /\ e.at = 0
  BY <1>1, EntriesAre
<1>11. \A e \in Receipts(v, {}) : ValueOK(e) /\ e.source = "ORDER_RECEIPT"
  BY <1>2, EntriesAre
<1>12. \A e \in PaymentEntries(v, {}) : ValueOK(e) /\ e.source = "PAYABLE_PAYMENT"
  BY <1>3, EntriesAre
<1>13. ASSUME NEW e \in MovementEntries(v, {})
       PROVE  /\ ValueOK(e) /\ e.source \in {"CASH_MOVEMENT", "CASH_MOVEMENT:out", "CASH_MOVEMENT:in"}
              /\ e.id \in Moving(v) /\ e.at = Midnight(v.movements[e.id].at) /\ e \in Sides(e.id, v.movements[e.id])
  <2>1. PICK k \in Moving(v) : e \in Sides(k, v.movements[k])
    BY <1>13, EntriesAre
  <2>2. PICK m \in MoveRecords : m = v.movements[k] /\ Goes(m)
    BY <1>4
  <2>3. ValueOK(e) /\ e.id = k /\ e.at = Midnight(m.at) /\ e.source \in {"CASH_MOVEMENT", "CASH_MOVEMENT:out", "CASH_MOVEMENT:in"}
    BY <2>1, <2>2, SidesAre
  <2> QED
    BY <2>1, <2>2, <2>3
<1> QED
  BY <1>6, <1>7, <1>8, <1>9, <1>10, <1>11, <1>12, <1>13

LEMMA LedgerTyped ==
  ASSUME NEW v, ViewOK(v), NEW t
  PROVE  IsFiniteSet(Ledger(v, t, {})) /\ \A e \in Ledger(v, t, {}) : ValueOK(e) /\ e.at <= t
<1>1. PICK O, R, P, M : O = OpeningEntries({}) /\ R = Receipts(v, {}) /\ P = PaymentEntries(v, {}) /\ M = MovementEntries(v, {})
  OBVIOUS
<1>2. IsFiniteSet(O) /\ IsFiniteSet(R) /\ IsFiniteSet(P) /\ IsFiniteSet(M)
  BY <1>1, EntriesTyped
<1>3. PICK L : L = O \cup R \cup P \cup M
  OBVIOUS
<1>4. IsFiniteSet(L)
  BY <1>2, <1>3, FS_Union
<1>5. \A e \in L : ValueOK(e)
  BY <1>1, <1>3, EntriesTyped
<1>6. Ledger(v, t, {}) = {e \in L : e.at <= t}
  BY <1>1, <1>3 DEF Ledger
<1>7. Ledger(v, t, {}) \subseteq L
  BY <1>6
<1> QED
  BY <1>4, <1>5, <1>6, <1>7, FS_Subset

(* The ledger of one account holds what the ledger of all holds of it.       *)
LEMMA LedgerOfOne ==
  ASSUME NEW v, ViewOK(v), NEW t, NEW a \in Accounts
  PROVE  Ledger(v, t, {a}) = {e \in Ledger(v, t, {}) : e.account = a}
<1>1. \A b : Chosen(b, {a}) <=> b = a
  BY DEF Chosen
<1>2. \A b : Chosen(b, {})
  BY DEF Chosen
<1>3. OpeningEntries({a}) = {e \in OpeningEntries({}) : e.account = a}
  BY <1>1, <1>2 DEF OpeningEntries, Entry
<1>4. Receipts(v, {a}) = {e \in Receipts(v, {}) : e.account = a}
  BY <1>1, <1>2 DEF Receipts, Entry
<1>5. PaymentEntries(v, {a}) = {e \in PaymentEntries(v, {}) : e.account = a}
  BY <1>1, <1>2 DEF PaymentEntries, Entry
<1>6. MovementEntries(v, {a}) = {e \in MovementEntries(v, {}) : e.account = a}
  <2>1. PICK J, K : /\ J = {k \in Moving(v) : Concerns(v.movements[k], {a})} /\ K = Moving(v)
    OBVIOUS
  <2>2. MovementEntries(v, {a}) = {e \in UNION {Sides(k, v.movements[k]) : k \in J} : e.account = a}
    BY <1>1, <2>1 DEF MovementEntries, Moving
  <2>3. MovementEntries(v, {}) = UNION {Sides(k, v.movements[k]) : k \in K}
    BY <2>1, EntriesAre
  <2>4. \A k \in K : \A e \in Sides(k, v.movements[k]) : e.account = a => k \in J
    <3>1. TAKE k \in K
    <3>2. TAKE e \in Sides(k, v.movements[k])
    <3>3. HAVE e.account = a
    <3>4. PICK m \in MoveRecords : m = v.movements[k] /\ Goes(m)
      BY <2>1, ViewFields DEF Moving
    <3>5. e.account = m.from \/ (m.type = "TRANSFER" /\ e.account = m.to)
      BY <3>4, SidesAre
    <3>6. Concerns(m, {a})
      BY <1>1, <3>3, <3>5 DEF Concerns
    <3> QED
      BY <2>1, <3>4, <3>6
  <2>5. J \subseteq K
    BY <2>1
  <2>6. ASSUME NEW e, e.account = a
        PROVE  (\E k \in J : e \in Sides(k, v.movements[k])) <=> (\E k \in K : e \in Sides(k, v.movements[k]))
    BY <2>4, <2>5, <2>6
  <2>7. \A e : e \in MovementEntries(v, {a}) <=> e.account = a /\ \E k \in J : e \in Sides(k, v.movements[k])
    BY <2>2
  <2>8. \A e : e \in MovementEntries(v, {}) <=> \E k \in K : e \in Sides(k, v.movements[k])
    BY <2>3
  <2> QED
    BY <2>6, <2>7, <2>8
<1>7. PICK O, R, P, M : O = OpeningEntries({}) /\ R = Receipts(v, {}) /\ P = PaymentEntries(v, {}) /\ M = MovementEntries(v, {})
  OBVIOUS
<1>8. Ledger(v, t, {a}) = {e \in {x \in O : x.account = a} \cup {x \in R : x.account = a} \cup {x \in P : x.account = a}
                                 \cup {x \in M : x.account = a} : e.at <= t}
  BY <1>3, <1>4, <1>5, <1>6, <1>7 DEF Ledger
<1>9. Ledger(v, t, {}) = {e \in O \cup R \cup P \cup M : e.at <= t}
  BY <1>7 DEF Ledger
<1> QED
  BY <1>8, <1>9

(* The balances of the accounts add up.                                      *)
LEMMA BalancesAddUp ==
  ASSUME NEW v, ViewOK(v), NEW t
  PROVE  Balance(Ledger(v, t, {})) = SumFunction([a \in Accounts |-> Balance(Ledger(v, t, {a}))])
                                     + Balance({e \in Ledger(v, t, {}) : e.account = None})
<1>1. PICK L, f, h, P, F : /\ L = Ledger(v, t, {}) /\ f = [e \in L |-> Value(e)] /\ h = [e \in L |-> e.account]
                           /\ P = Accounts \cup {None} /\ F = [p \in P |-> Balance({e \in L : e.account = p})]
  OBVIOUS
<1>1a. PICK B : B = [p \in P |-> {e \in L : e.account = p}]
  OBVIOUS
<1>2. IsFiniteSet(L) /\ \A e \in L : Value(e) \in Int /\ e.account \in P
  BY <1>1, LedgerTyped DEF ValueOK
<1>3. IsFiniteSet(P) /\ None \in P /\ P \ {None} = Accounts /\ IsFiniteSet(Accounts)
  BY <1>1, PayablesAssumption, FS_AddElement
<1>4. (\A e \in L : f[e] = Value(e)) /\ \A e \in L : f[e] \in Int /\ h[e] \in P
  BY <1>1, <1>2
<1>5. \A p \in P : F[p] = SumFunctionOnSet(f, B[p]) /\ F[p] \in Int
  <2>1. TAKE p \in P
  <2>2. PICK S : S = B[p]
    OBVIOUS
  <2>3. S \subseteq L /\ S = {e \in L : e.account = p}
    BY <1>1a, <2>2
  <2>4. IsFiniteSet(S) /\ (\A e \in S : f[e] = Value(e)) /\ (\A e \in S : Value(e) \in Int)
    BY <1>2, <1>4, <2>3, FS_Subset
  <2>5. F[p] = Balance(S)
    BY <1>1, <2>3
  <2>6. Balance(S) = SumFunctionOnSet(f, S)
    BY <2>4, BalanceOf
  <2>7. Balance(S) \in Int
    BY <2>4, BalanceTyped
  <2> QED
    BY <2>2, <2>5, <2>6, <2>7
<1>6. Balance(L) = SumFunctionOnSet(f, L)
  BY <1>2, <1>4, BalanceOf
<1>7. (\A p \in P : F[p] = SumFunctionOnSet(f, B[p])) /\ \A p \in P : \A e : e \in B[p] <=> e \in L /\ h[e] = p
  BY <1>1, <1>5, <1>1a
<1>8. SumFunctionOnSet(f, L) = SumFunctionOnSet(F, P)
  <2>1. Sorted(f, h, L, P, F, B)
    BY <1>4, <1>7 DEF Sorted
  <2> QED
    BY <1>2, <1>3, <2>1, SumSorts
<1>9. SumFunctionOnSet(F, P) = F[None] + SumFunctionOnSet(F, Accounts)
  <2>1. \A p \in P : F[p] \in Int
    BY <1>5
  <2>2. \A p \in P : SumFunctionOnSet(F, P) = F[p] + SumFunctionOnSet(F, P \ {p})
    BY <1>3, <2>1, SumTakes
  <2> QED
    BY <1>3, <2>2
<1>10. PICK g : g = [a \in Accounts |-> Balance(Ledger(v, t, {a}))]
  OBVIOUS
<1>11. \A a \in Accounts : F[a] = g[a]
  <2>1. TAKE a \in Accounts
  <2>2. F[a] = Balance({e \in L : e.account = a})
    BY <1>1
  <2>3. Ledger(v, t, {a}) = {e \in L : e.account = a}
    BY <1>1, LedgerOfOne
  <2> QED
    BY <1>10, <2>2, <2>3
<1>12. SumFunctionOnSet(F, Accounts) = SumFunctionOnSet(g, Accounts)
  BY <1>3, <1>11, SumAgrees
<1>13. SumFunction(g) = SumFunctionOnSet(g, Accounts)
  BY <1>10 DEF SumFunction
<1>14. SumFunctionOnSet(F, Accounts) \in Int
  <2>1. \A a \in Accounts : F[a] \in Int
    BY <1>3, <1>5
  <2> QED
    BY <1>3, <2>1, SumTyped
<1>15. F[None] \in Int /\ F[None] = Balance({e \in L : e.account = None})
  BY <1>1, <1>3, <1>5
<1> QED
  BY <1>1, <1>6, <1>8, <1>9, <1>10, <1>12, <1>13, <1>14, <1>15

----------------------------------------------------------------------------
(* The statements.                                                           *)

LEMMA StatementOf ==
  ASSUME NEW v, ViewOK(v), NEW selected, selected = {} \/ \E a \in Accounts : selected = {a}, NEW t \in Nat
  PROVE  /\ IsFiniteSet(Ledger(v, t, selected))
         /\ \A e \in Ledger(v, t, selected) : ValueOK(e) /\ e.at <= t /\ e.at \in Nat
<1>1. Ledger(v, t, selected) \subseteq Ledger(v, t, {})
  BY LedgerOfOne
<1>2. IsFiniteSet(Ledger(v, t, {})) /\ \A e \in Ledger(v, t, {}) : ValueOK(e) /\ e.at <= t
  BY LedgerTyped
<1> QED
  BY <1>1, <1>2, FS_Subset DEF ValueOK

(* The ledger of an earlier moment is what a later one holds till then.      *)
LEMMA LedgerUpTo ==
  ASSUME NEW v, ViewOK(v), NEW selected, selected = {} \/ \E a \in Accounts : selected = {a},
         NEW s \in Nat, NEW t \in Nat, s <= t
  PROVE  Ledger(v, s, selected) = {e \in Ledger(v, t, selected) : e.at <= s}
<1>1. PICK E : E = OpeningEntries(selected) \cup Receipts(v, selected) \cup PaymentEntries(v, selected) \cup MovementEntries(v, selected)
  OBVIOUS
<1>2. Ledger(v, s, selected) = {e \in E : e.at <= s} /\ Ledger(v, t, selected) = {e \in E : e.at <= t}
  BY <1>1 DEF Ledger
<1>3. \A e \in Ledger(v, s, selected) : e.at \in Nat /\ e.at <= s
  BY StatementOf
<1>4. \A e \in Ledger(v, s, selected) : e.at <= t
  BY <1>3
<1> QED
  BY <1>2, <1>4

(* What is shown before a day, and what is shown from it on.                 *)
LEMMA ShownBefore ==
  ASSUME NEW n \in Nat, NEW first \in Nat
  PROVE  ToDateOnly(n) < first <=> n < 3 * first \/ n = 3 * first + 1
<1>1. PICK d \in Nat : d = n \div 3
  OBVIOUS
<1>2. CASE n = 3 * d
  <2>1. ToDateOnly(n) = d
    BY <1>1, <1>2 DEF ToDateOnly
  <2> QED
    BY <1>2, <2>1
<1>3. CASE n = 3 * d + 1
  <2>1. ToDateOnly(n) = d - 1
    BY <1>1, <1>3 DEF ToDateOnly
  <2> QED
    BY <1>3, <2>1
<1>4. CASE n = 3 * d + 2
  <2>1. ToDateOnly(n) = d
    BY <1>1, <1>4 DEF ToDateOnly
  <2> QED
    BY <1>4, <2>1
<1>5. n = 3 * d \/ n = 3 * d + 1 \/ n = 3 * d + 2
  BY <1>1
<1> QED
  BY <1>2, <1>3, <1>4, <1>5

LEMMA ShownBy ==
  ASSUME NEW n \in Nat, NEW last \in Nat, n <= 3 * last + 2
  PROVE  ToDateOnly(n) \in Int /\ ToDateOnly(n) <= last
<1>1. PICK d \in Nat : d = n \div 3 /\ d <= last
  OBVIOUS
<1>2. ToDateOnly(n) \in {d, d - 1}
  BY <1>1 DEF ToDateOnly
<1> QED
  BY <1>1, <1>2

LEMMA LatestExists ==
  ASSUME NEW S, IsFiniteSet(S), S # {}, \A e \in S : e.at \in Nat
  PROVE  \E n \in {e.at : e \in S} : \A e \in S : e.at <= n
<1>1. PICK U : U = {s \in SUBSET S : s # {} => \E x \in s : \A e \in s : e.at <= x.at}
  OBVIOUS
<1>2. {} \in U
  BY <1>1
<1>3. \A s \in U : \A x \in S : s \cup {x} \in U
  <2>1. TAKE s \in U
  <2>2. TAKE y \in S
  <2>3. s \in SUBSET S /\ y.at \in Nat /\ \A e \in s : e.at \in Nat
    BY <1>1
  <2>4. CASE s = {}
    <3>1. \E x \in s \cup {y} : \A e \in s \cup {y} : e.at <= x.at
      BY <2>3, <2>4
    <3> QED
      BY <1>1, <2>3, <3>1
  <2>5. CASE s # {}
    <3>1. PICK x \in s : \A e \in s : e.at <= x.at
      BY <1>1, <2>5
    <3>2. CASE y.at <= x.at
      <4>1. \E z \in s \cup {y} : \A e \in s \cup {y} : e.at <= z.at
        BY <3>1, <3>2
      <4> QED
        BY <1>1, <2>3, <4>1
    <3>3. CASE x.at < y.at
      <4>1. \A e \in s \cup {y} : e.at <= y.at
        BY <2>3, <3>1, <3>3
      <4>2. \E z \in s \cup {y} : \A e \in s \cup {y} : e.at <= z.at
        BY <4>1
      <4> QED
        BY <1>1, <2>3, <4>2
    <3> QED
      BY <2>3, <3>1, <3>2, <3>3
  <2> QED
    BY <2>4, <2>5
<1>4. S \in U
  BY <1>2, <1>3, BySubsets
<1>5. PICK x \in S : \A e \in S : e.at <= x.at
  BY <1>1, <1>4
<1> QED
  BY <1>5

(* A ledger until the end of the last day of a statement falls into what is  *)
(* before the first day, of its midnight, of the hours after and the rest.   *)
Cut(L, A, D, E, P, first) ==
  /\ A = {e \in L : e.at < 3 * first} /\ D = {e \in L : e.at = 3 * first}
  /\ E = {e \in L : e.at = 3 * first + 1} /\ P = {e \in L : e.at > 3 * first + 1}

LEMMA CutBalances ==
  ASSUME NEW L, NEW A, NEW D, NEW E, NEW P, NEW first \in Nat, Cut(L, A, D, E, P, first),
         IsFiniteSet(L), \A e \in L : ValueOK(e)
  PROVE  /\ Balance(L) = Balance(A) + Balance(D) + Balance(E) + Balance(P)
         /\ Balance(A \cup (D \cup E)) = Balance(A) + Balance(D) + Balance(E)
         /\ Balance(D \cup P) = Balance(D) + Balance(P)
         /\ Balance(A) \in Int /\ Balance(D) \in Int /\ Balance(E) \in Int /\ Balance(P) \in Int
<1>1. \A e \in L : e.at \in Nat /\ Value(e) \in Int
  BY DEF ValueOK
<1>2. A \subseteq L /\ D \subseteq L /\ E \subseteq L /\ P \subseteq L
  BY DEF Cut
<1>3. IsFiniteSet(A) /\ IsFiniteSet(D) /\ IsFiniteSet(E) /\ IsFiniteSet(P)
  BY <1>2, FS_Subset
<1>4. IsFiniteSet(D \cup E) /\ IsFiniteSet(A \cup (D \cup E))
  BY <1>3, FS_Union
<1>5. D \cap E = {} /\ D \cap P = {} /\ A \cap (D \cup E) = {} /\ (A \cup (D \cup E)) \cap P = {}
  BY <1>1 DEF Cut
<1>6. L = (A \cup (D \cup E)) \cup P
  BY <1>1 DEF Cut
<1>7. \A S : S \subseteq L => \A e \in S : Value(e) \in Int
  BY <1>1
<1>8. Balance(D \cup E) = Balance(D) + Balance(E) /\ Balance(D \cup P) = Balance(D) + Balance(P)
  BY <1>1, <1>2, <1>3, <1>5, BalanceJoins
<1>9. Balance(A \cup (D \cup E)) = Balance(A) + Balance(D \cup E)
  BY <1>1, <1>2, <1>3, <1>4, <1>5, BalanceJoins
<1>10. Balance(L) = Balance(A \cup (D \cup E)) + Balance(P)
  BY <1>1, <1>2, <1>3, <1>4, <1>5, <1>6, BalanceJoins
<1>11. Balance(A) \in Int /\ Balance(D) \in Int /\ Balance(E) \in Int /\ Balance(P) \in Int
  BY <1>2, <1>3, <1>7, BalanceTyped
<1> QED
  BY <1>8, <1>9, <1>10, <1>11

(* What a statement opens with.                                              *)
LEMMA OpensWith ==
  ASSUME NEW v, ViewOK(v), NEW selected, selected = {} \/ \E a \in Accounts : selected = {a},
         NEW first \in Nat, NEW last \in Nat, NEW L, NEW A, NEW D, NEW E, NEW P,
         L = Ledger(v, EndOf(last), selected), Cut(L, A, D, E, P, first)
  PROVE  /\ E = {} => OpeningBalance(v, first, last, selected) = Balance(A)
         /\ E # {} => OpeningBalance(v, first, last, selected) = Balance(A \cup (D \cup E))
<1>1. IsFiniteSet(L) /\ \A e \in L : e.at \in Nat
  <2>1. EndOf(last) \in Nat
    BY DEF EndOf
  <2> QED
    BY <2>1, StatementOf
<1>2. PICK prior : prior = {e \in L : ToDateOnly(e.at) < first}
  OBVIOUS
<1>3. prior = A \cup E
  <2>1. \A e \in L : ToDateOnly(e.at) < first <=> e.at < 3 * first \/ e.at = 3 * first + 1
    BY <1>1, ShownBefore
  <2> QED
    BY <1>2, <2>1 DEF Cut
<1>4. OpeningBalance(v, first, last, selected) = IF prior = {} THEN 0 ELSE Balance({e \in L : e.at <= Last(prior)})
  BY <1>2 DEF OpeningBalance
<1>5. CASE prior = {}
  BY <1>3, <1>4, <1>5, BalanceEmpty
<1>6. CASE prior # {}
  <2>1. PICK n : n = Last(prior)
    OBVIOUS
  <2>2. \E m \in {e.at : e \in prior} : \A e \in prior : e.at <= m
    <3>1. IsFiniteSet(prior) /\ \A e \in prior : e.at \in Nat
      BY <1>1, <1>2, FS_Subset
    <3> QED
      BY <1>6, <3>1, LatestExists
  <2>3. n \in {e.at : e \in prior} /\ \A e \in prior : e.at <= n
    BY <2>1, <2>2 DEF Last
  <2>4. PICK x \in prior : n = x.at
    BY <2>3
  <2>5. n \in Nat /\ x \in L
    BY <1>1, <1>2, <2>4
  <2>6. CASE E = {}
    <3>1. n < 3 * first
      BY <1>3, <2>4, <2>6 DEF Cut
    <3>2. \A e \in L : e.at <= n <=> e \in A
      BY <1>1, <1>3, <2>3, <2>5, <3>1 DEF Cut
    <3>3. {e \in L : e.at <= n} = A
      BY <3>2 DEF Cut
    <3> QED
      BY <1>4, <1>6, <2>1, <2>6, <3>3
  <2>7. CASE E # {}
    <3>1. n = 3 * first + 1
      <4>1. n < 3 * first \/ n = 3 * first + 1
        BY <1>3, <2>4 DEF Cut
      <4>2. 3 * first + 1 <= n
        BY <1>3, <2>3, <2>7 DEF Cut
      <4> QED
        BY <2>5, <4>1, <4>2
    <3>2. {e \in L : e.at <= n} = A \cup (D \cup E)
      BY <1>1, <3>1 DEF Cut
    <3> QED
      BY <1>4, <1>6, <2>1, <2>7, <3>2
  <2> QED
    BY <2>6, <2>7
<1> QED
  BY <1>5, <1>6

(* A statement opens and closes with the balances of the position, but for a *)
(* receipt in the hours after the first midnight.                            *)
LEMMA StatementsDoAgree ==
  ASSUME NEW v, ViewOK(v), NEW selected, selected = {} \/ \E a \in Accounts : selected = {a},
         NEW first \in Nat \ {0}, NEW last \in Nat, first <= last, NEW early, NEW dated,
         early = {e \in Ledger(v, EndOf(first), selected) : e.at = Midnight(first) + 1},
         dated = {e \in Ledger(v, EndOf(first), selected) : e.at = Midnight(first)},
         NEW twice, twice = IF early = {} THEN 0 ELSE Balance(dated)
  PROVE  /\ OpeningBalance(v, first, last, selected) = Balance(Ledger(v, EndOf(first - 1), selected)) + Balance(early) + twice
         /\ ClosingBalance(v, first, last, selected) = Balance(Ledger(v, EndOf(last), selected)) + twice
<1>1. PICK r, s, t : r = EndOf(first - 1) /\ s = EndOf(first) /\ t = EndOf(last)
  OBVIOUS
<1>2. r \in Nat /\ s \in Nat /\ t \in Nat /\ r <= t /\ s <= t /\ r = 3 * first - 1 /\ s = 3 * first + 2 /\ t = 3 * last + 2
  BY <1>1 DEF EndOf
<1>3. PICK L, A, D, E, P : L = Ledger(v, t, selected) /\ Cut(L, A, D, E, P, first)
  BY DEF Cut
<1>4. IsFiniteSet(L) /\ \A e \in L : ValueOK(e) /\ e.at <= t /\ e.at \in Nat
  BY <1>2, <1>3, StatementOf
<1>5. Ledger(v, r, selected) = A
  <2>1. Ledger(v, r, selected) = {e \in L : e.at <= r}
    BY <1>2, <1>3, LedgerUpTo
  <2>2. \A e \in L : e.at <= r <=> e.at < 3 * first
    BY <1>2, <1>4
  <2> QED
    BY <1>3, <2>1, <2>2 DEF Cut
<1>6. early = E /\ dated = D
  <2>1. Ledger(v, s, selected) = {e \in L : e.at <= s}
    BY <1>2, <1>3, LedgerUpTo
  <2>2. early = {e \in Ledger(v, s, selected) : e.at = 3 * first + 1} /\ dated = {e \in Ledger(v, s, selected) : e.at = 3 * first}
    BY <1>1 DEF Midnight
  <2>3. \A e \in L : e.at = 3 * first + 1 \/ e.at = 3 * first => e.at <= s
    BY <1>2
  <2> QED
    BY <1>3, <2>1, <2>2, <2>3 DEF Cut
<1>7. /\ Balance(L) = Balance(A) + Balance(D) + Balance(E) + Balance(P)
      /\ Balance(A \cup (D \cup E)) = Balance(A) + Balance(D) + Balance(E)
      /\ Balance(D \cup P) = Balance(D) + Balance(P)
      /\ Balance(A) \in Int /\ Balance(D) \in Int /\ Balance(E) \in Int /\ Balance(P) \in Int
  <2>1. IsFiniteSet(L) /\ \A e \in L : ValueOK(e)
    BY <1>4
  <2>2. first \in Nat /\ Cut(L, A, D, E, P, first)
    BY <1>3
  <2> QED
    BY <2>1, <2>2, CutBalances
<1>8. /\ E = {} => OpeningBalance(v, first, last, selected) = Balance(A)
      /\ E # {} => OpeningBalance(v, first, last, selected) = Balance(A \cup (D \cup E))
  <2>1. L = Ledger(v, EndOf(last), selected) /\ Cut(L, A, D, E, P, first)
    BY <1>1, <1>3
  <2>2. first \in Nat /\ last \in Nat
    OBVIOUS
  <2>3. ViewOK(v) /\ (selected = {} \/ \E a \in Accounts : selected = {a})
    OBVIOUS
  <2> QED
    BY <2>1, <2>2, <2>3, OpensWith
<1>9. OpeningBalance(v, first, last, selected) = Balance(A) + Balance(E) + twice
  <2>1. CASE E = {}
    BY <1>6, <1>7, <1>8, <2>1, BalanceEmpty
  <2>2. CASE E # {}
    <3>1. OpeningBalance(v, first, last, selected) = Balance(A \cup (D \cup E)) /\ twice = Balance(D)
      BY <1>6, <1>8, <2>2
    <3> QED
      BY <1>6, <1>7, <3>1
  <2> QED
    BY <2>1, <2>2
<1>10. OfPeriod(v, first, last, selected) = D \cup P
  <2>1. \A e \in L : ToDateOnly(e.at) \in first..last <=> e.at = 3 * first \/ e.at > 3 * first + 1
    <3>1. TAKE e \in L
    <3>2. PICK n \in Nat : n = e.at /\ n <= 3 * last + 2
      BY <1>2, <1>4
    <3>3. ToDateOnly(n) < first <=> n < 3 * first \/ n = 3 * first + 1
      BY ShownBefore
    <3>4. ToDateOnly(n) \in Int /\ ToDateOnly(n) <= last
      BY <3>2, ShownBy
    <3>5. ToDateOnly(n) \in first..last <=> ~(ToDateOnly(n) < first)
      BY <3>4
    <3> QED
      BY <3>2, <3>3, <3>5
  <2>2. OfPeriod(v, first, last, selected) = {e \in L : ToDateOnly(e.at) \in first..last}
    BY <1>1, <1>3 DEF OfPeriod
  <2> QED
    BY <1>3, <2>1, <2>2 DEF Cut
<1>11. ClosingBalance(v, first, last, selected) = OpeningBalance(v, first, last, selected) + Balance(D \cup P)
  BY <1>10 DEF ClosingBalance
<1>12. twice \in Int
  BY <1>6, <1>7
<1>13. ClosingBalance(v, first, last, selected) = Balance(L) + twice
  BY <1>7, <1>9, <1>11, <1>12
<1> QED
  BY <1>1, <1>3, <1>5, <1>6, <1>9, <1>13

----------------------------------------------------------------------------
(* What a report projects is what there is.                                  *)

Makes(h, K, S, g) ==
  /\ S = {h[k] : k \in K}
  /\ \A k \in K : g[k] \in Int /\ Value(h[k]) = g[k]
  /\ \A j, k \in K : h[j] = h[k] => j = k

LEMMA BalanceMade ==
  ASSUME NEW h, NEW K, NEW S, NEW g, IsFiniteSet(K), Makes(h, K, S, g)
  PROVE  IsFiniteSet(S) /\ Balance(S) = SumFunctionOnSet(g, K)
<1>1. S = {h[k] : k \in K} /\ (\A k \in K : g[k] \in Int /\ Value(h[k]) = g[k]) /\ (\A j, k \in K : h[j] = h[k] => j = k)
  BY DEF Makes
<1>2. IsFiniteSet({h[k] : k \in K})
  BY MadeFinite
<1>3. IsFiniteSet(S)
  BY <1>1, <1>2
<1>4. PICK f : f = [e \in S |-> Value(e)]
  OBVIOUS
<1>5. \A e \in S : f[e] = Value(e)
  BY <1>4
<1>6. Balance(S) = SumFunctionOnSet(f, S)
  BY <1>3, <1>5, BalanceOf
<1>7. \A k \in K : f[h[k]] \in Int /\ g[k] = f[h[k]]
  BY <1>1, <1>5
<1>8. SumFunctionOnSet(f, {h[k] : k \in K}) = SumFunctionOnSet(g, K)
  BY <1>1, <1>7, SumRenames
<1> QED
  BY <1>1, <1>3, <1>6, <1>8

LEMMA OpeningComesTo ==
  ASSUME NEW v, ViewOK(v)
  PROVE  Balance(OpeningEntries({})) = SumFunction(Opening) /\ SumFunction(Opening) \in Int
<1>1. PICK h : h = [a \in Accounts |-> OpeningOf(a)]
  OBVIOUS
<1>2. Opening \in [Accounts -> Nat] /\ IsFiniteSet(Accounts)
  BY CashFlowAssumption, PayablesAssumption
<1>3. \A a \in Accounts : Opening[a] \in Int /\ Value(h[a]) = Opening[a] /\ h[a].account = a
  BY <1>1, <1>2 DEF Value, OpeningOf, Entry
<1>4. OpeningEntries({}) = {h[a] : a \in Accounts}
  BY <1>1, EntriesAre
<1>5. Makes(h, Accounts, OpeningEntries({}), Opening)
  BY <1>3, <1>4 DEF Makes
<1>6. Balance(OpeningEntries({})) = SumFunctionOnSet(Opening, Accounts)
  BY <1>2, <1>5, BalanceMade
<1>7. SumFunction(Opening) = SumFunctionOnSet(Opening, Accounts)
  BY <1>2 DEF SumFunction
<1>8. SumFunctionOnSet(Opening, Accounts) \in Int
  <2>1. \A a \in Accounts : Opening[a] \in Int
    BY <1>2
  <2> QED
    BY <1>2, <2>1, SumTyped
<1> QED
  BY <1>6, <1>7, <1>8

LEMMA ReceiptsComeTo ==
  ASSUME NEW v, ViewOK(v), NEW asOf \in Nat
  PROVE  /\ Balance({e \in Receipts(v, {}) : e.at <= asOf}) + Receivable(v, asOf)
              = SumFunction([o \in v.orders |-> Net[o]])
         /\ Balance({e \in Receipts(v, {}) : e.at <= asOf}) \in Int /\ Receivable(v, asOf) \in Int
<1>1. PICK R, A, B : R = Receipts(v, {}) /\ A = {e \in R : e.at <= asOf} /\ B = {e \in R : e.at > asOf}
  OBVIOUS
<1>2. IsFiniteSet(R) /\ \A e \in R : ValueOK(e)
  BY <1>1, EntriesTyped
<1>3. A \subseteq R /\ B \subseteq R /\ A \cap B = {}
  <2>1. \A e \in R : e.at \in Nat
    BY <1>2 DEF ValueOK
  <2> QED
    BY <1>1, <2>1
<1>4. IsFiniteSet(A) /\ IsFiniteSet(B) /\ \A e \in A \cup B : Value(e) \in Int
  BY <1>2, <1>3, FS_Subset DEF ValueOK
<1>5. Balance(A \cup B) = Balance(A) + Balance(B)
  BY <1>3, <1>4, BalanceJoins
<1>6. Receivable(v, asOf) = Balance(B)
  <2>1. PICK g, f : g = [e \in B |-> e.inflow] /\ f = [e \in B |-> Value(e)]
    OBVIOUS
  <2>2. Receivable(v, asOf) = SumFunctionOnSet(g, B)
    BY <1>1, <2>1 DEF Receivable, Inflows, ProjectedReceipts, SumFunction
  <2>3. Balance(B) = SumFunctionOnSet(f, B)
    BY <1>4, <2>1, BalanceOf
  <2>4. \A e \in B : f[e] = g[e]
    <3>1. TAKE e \in B
    <3>2. PICK o \in v.orders : e = ReceiptOf(o)
      BY <1>1, <1>3, EntriesAre
    <3>3. e.inflow = Net[o] /\ e.outflow = 0 /\ Net[o] \in Nat
      BY <3>2, ViewFields DEF ReceiptOf, Entry
    <3> QED
      BY <2>1, <3>3 DEF Value
  <2> QED
    BY <1>4, <2>2, <2>3, <2>4, SumAgrees
<1>7. PICK K, h, g : /\ K = v.orders /\ h = [o \in K |-> ReceiptOf(o)] /\ g = [o \in K |-> Net[o]]
  OBVIOUS
<1>8. A \cup B = {h[o] : o \in K}
  <2>1. R = {ReceiptOf(o) : o \in v.orders}
    BY <1>1, EntriesAre
  <2>2. \A e \in R : e.at \in Nat
    BY <1>2 DEF ValueOK
  <2>3. A \cup B = R
    BY <1>1, <2>2
  <2> QED
    BY <1>7, <2>1, <2>3
<1>9. Makes(h, K, A \cup B, g)
  <2>1. \A o \in K : h[o].id = o /\ Value(h[o]) = Net[o] /\ Net[o] \in Int
    BY <1>7, ViewFields DEF ReceiptOf, Entry, Value
  <2> QED
    BY <1>7, <1>8, <2>1 DEF Makes
<1>10. IsFiniteSet(K)
  BY <1>7, ViewFields
<1>11. Balance(A \cup B) = SumFunctionOnSet(g, K)
  BY <1>9, <1>10, BalanceMade
<1>12. SumFunction(g) = SumFunctionOnSet(g, K)
  BY <1>7 DEF SumFunction
<1>13. Balance(A) \in Int /\ Balance(B) \in Int
  BY <1>4, BalanceTyped
<1> QED
  BY <1>1, <1>5, <1>6, <1>7, <1>11, <1>12, <1>13

(* The payments, sorted by what they pay.                                    *)
LEMMA PaymentsComeTo ==
  ASSUME NEW v, ViewOK(v), NEW F, F = [p \in DOMAIN v.payables |-> Paid(p, v.payments)]
  PROVE  /\ Balance(PaymentEntries(v, {})) = 0 - SumFunctionOnSet(F, DOMAIN v.payables)
         /\ \A p \in DOMAIN v.payables : F[p] \in Nat
<1>1. PICK paid, K, P : paid = v.payments /\ K = Paying(v) /\ P = DOMAIN v.payables
  OBVIOUS
<1>2. PICK f, g, h, o, B : /\ f = [k \in K |-> paid[k].amount] /\ g = [k \in K |-> 0 - paid[k].amount] /\ h = [k \in K |-> PaymentOf(v, k)]
                           /\ o = [k \in K |-> paid[k].of] /\ B = [p \in P |-> Active(p, paid)]
  OBVIOUS
<1>3. IsFiniteSet(K) /\ IsFiniteSet(P) /\ K \subseteq DOMAIN paid
  <2>1. K \subseteq DOMAIN paid /\ IsFiniteSet(DOMAIN v.payments) /\ IsFiniteSet(P)
    BY <1>1, ViewFields DEF Paying
  <2> QED
    BY <1>1, <2>1, FS_Subset
<1>4. \A k \in K : paid[k].amount \in Nat /\ paid[k].of \in P
  BY <1>1, <1>3, ViewFields
<1>5. Makes(h, K, PaymentEntries(v, {}), g)
  <2>1. \A k \in K : h[k].id = k /\ Value(h[k]) = g[k] /\ g[k] \in Int
    BY <1>1, <1>2, <1>4 DEF PaymentOf, Entry, Value
  <2>2. PaymentEntries(v, {}) = {h[k] : k \in K}
    BY <1>1, <1>2, EntriesAre
  <2> QED
    BY <2>1, <2>2 DEF Makes
<1>6. Balance(PaymentEntries(v, {})) = SumFunctionOnSet(g, K)
  BY <1>3, <1>5, BalanceMade
<1>7. SumFunctionOnSet(g, K) = 0 - SumFunctionOnSet(f, K)
  <2>1. \A k \in K : f[k] \in Int /\ g[k] = 0 - f[k]
    BY <1>2, <1>4
  <2> QED
    BY <1>3, <2>1, SumNegates
<1>8. paid \in Seq(PaymentRecords)
  BY <1>1 DEF ViewOK
<1>9. \A p \in P : F[p] = SumFunctionOnSet(f, B[p])
  <2>1. TAKE p \in P
  <2>2. PICK S : S = Active(p, paid)
    OBVIOUS
  <2>3. S \subseteq K
    BY <1>1, <2>2 DEF Active, Paying
  <2>4. IsFiniteSet(S) /\ \A k \in S : f[k] = paid[k].amount
    BY <1>2, <1>3, <2>3, FS_Subset
  <2>5. Paid(p, paid) = SumFunctionOnSet(f, S)
    BY <2>2, <2>4, PaidOf
  <2> QED
    BY <1>1, <1>2, <2>2, <2>5
<1>10. Sorted(f, o, K, P, F, B)
  <2>1. \A p \in P : \A k : k \in B[p] <=> k \in K /\ o[k] = p
    BY <1>1, <1>2 DEF Active, Paying
  <2>2. \A k \in K : f[k] \in Int /\ o[k] \in P
    BY <1>2, <1>4
  <2> QED
    BY <1>9, <2>1, <2>2 DEF Sorted
<1>11. SumFunctionOnSet(f, K) = SumFunctionOnSet(F, P)
  BY <1>3, <1>10, SumSorts
<1>12. \A p \in P : F[p] \in Nat
  BY <1>1, <1>8, PaidNatural
<1> QED
  BY <1>1, <1>6, <1>7, <1>11, <1>12

LEMMA MovementsComeTo ==
  ASSUME NEW v, ViewOK(v), NEW asOf \in Nat
  PROVE  /\ Balance({e \in MovementEntries(v, {}) : e.at <= asOf}) = SumFunction([k \in Kept(v.movements, asOf) |-> Signed(v.movements[k])])
         /\ Balance({e \in MovementEntries(v, {}) : e.at <= asOf}) \in Int
<1>1. PICK M, K, moves : M = {e \in MovementEntries(v, {}) : e.at <= asOf} /\ moves = v.movements /\ K = Kept(moves, asOf)
  OBVIOUS
<1>2. PICK f, h, F, B : /\ f = [e \in M |-> Value(e)] /\ h = [e \in M |-> e.id] /\ F = [k \in K |-> Signed(moves[k])]
                        /\ B = [k \in K |-> Sides(k, moves[k])]
  OBVIOUS
<1>3. K = {k \in Moving(v) : Midnight(moves[k].at) <= asOf}
  BY <1>1 DEF Kept, Moving
<1>4. \A k \in Moving(v) : moves[k] \in MoveRecords /\ Goes(moves[k])
  BY <1>1, ViewFields DEF Moving
<1>5. IsFiniteSet(M) /\ IsFiniteSet(K)
  <2>1. IsFiniteSet(DOMAIN v.movements) /\ K \subseteq DOMAIN v.movements
    BY <1>1, ViewFields DEF Kept
  <2>2. IsFiniteSet(MovementEntries(v, {})) /\ M \subseteq MovementEntries(v, {})
    BY <1>1, EntriesTyped
  <2> QED
    BY <2>1, <2>2, FS_Subset
<1>6. \A e \in M : ValueOK(e) /\ e.id \in K /\ e \in Sides(e.id, moves[e.id])
  BY <1>1, <1>3, EntriesTyped
<1>7. \A k \in K : \A e : e \in B[k] <=> e \in M /\ h[e] = k
  <2>1. TAKE k \in K
  <2>2. k \in Moving(v) /\ Midnight(moves[k].at) <= asOf
    BY <1>3
  <2>3. PICK m \in MoveRecords : m = moves[k] /\ Goes(m)
    BY <1>4, <2>2
  <2>4. \A e \in Sides(k, m) : e.id = k /\ e.at = Midnight(m.at)
    BY <2>3, SidesAre
  <2>5. \A e \in Sides(k, m) : e \in M
    BY <1>1, <2>2, <2>3, <2>4, EntriesAre
  <2>6. B[k] = Sides(k, m)
    BY <1>2, <2>3
  <2>7. \A e \in M : e.id = k => e \in Sides(k, m)
    BY <1>6, <2>3
  <2> QED
    BY <1>2, <2>4, <2>5, <2>6, <2>7
<1>8. \A k \in K : F[k] = SumFunctionOnSet(f, B[k])
  <2>1. TAKE k \in K
  <2>2. PICK m \in MoveRecords : m = moves[k] /\ Goes(m)
    BY <1>3, <1>4
  <2>3. PICK S : S = Sides(k, m)
    OBVIOUS
  <2>4. IsFiniteSet(S) /\ Balance(S) = Signed(m)
    BY <2>2, <2>3, SidesAre
  <2>5. B[k] = S
    BY <1>2, <2>2, <2>3
  <2>6. \A e \in S : f[e] = Value(e)
    BY <1>2, <1>7, <2>5
  <2>7. Balance(S) = SumFunctionOnSet(f, S)
    BY <2>4, <2>6, BalanceOf
  <2> QED
    BY <1>2, <2>2, <2>4, <2>5, <2>7
<1>9. Sorted(f, h, M, K, F, B)
  <2>1. \A e \in M : f[e] \in Int /\ h[e] \in K
    BY <1>2, <1>6 DEF ValueOK
  <2> QED
    BY <1>7, <1>8, <2>1 DEF Sorted
<1>10. SumFunctionOnSet(f, M) = SumFunctionOnSet(F, K)
  BY <1>5, <1>9, SumSorts
<1>11. Balance(M) = SumFunctionOnSet(f, M)
  <2>1. \A e \in M : f[e] = Value(e)
    BY <1>2
  <2> QED
    BY <1>5, <2>1, BalanceOf
<1>12. SumFunction(F) = SumFunctionOnSet(F, K)
  BY <1>2 DEF SumFunction
<1>13. Balance(M) \in Int
  BY <1>5, <1>6, BalanceTyped DEF ValueOK
<1> QED
  BY <1>1, <1>2, <1>10, <1>11, <1>12, <1>13

(* What a payable costs is what it is paid with and what is still to pay.    *)
LEMMA CostsComeTo ==
  ASSUME NEW v, ViewOK(v), NEW end \in Nat, NEW F, F = [p \in DOMAIN v.payables |-> Paid(p, v.payments)],
         \A p \in DOMAIN v.payables : F[p] \in Nat
  PROVE  /\ SumFunction([p \in DOMAIN v.payables |-> Cost(v, p, end)]) = SumFunctionOnSet(F, DOMAIN v.payables) + ToPay(v, end)
         /\ SumFunctionOnSet(F, DOMAIN v.payables) \in Int /\ ToPay(v, end) \in Int
<1>1. PICK P, Q, C, G, T : /\ P = DOMAIN v.payables /\ Q = OpenAt(v, end) /\ C = [p \in P |-> Cost(v, p, end)]
                           /\ G = [p \in P |-> IF p \in Q THEN Outstanding(v, p) ELSE 0] /\ T = [p \in Q |-> Outstanding(v, p)]
  OBVIOUS
<1>2. IsFiniteSet(P) /\ Q \subseteq P /\ IsFiniteSet(Q)
  <2>1. IsFiniteSet(P) /\ Q \subseteq P
    BY <1>1, ViewFields DEF OpenAt
  <2> QED
    BY <2>1, FS_Subset
<1>3. \A p \in P : F[p] \in Int /\ G[p] \in Int /\ C[p] = F[p] + G[p]
  <2>1. TAKE p \in P
  <2>2. PICK expected \in Nat : expected = v.payables[p].expected
    BY <1>1, ViewFields
  <2>3. PICK paid \in Nat : paid = F[p] /\ paid = Paid(p, v.payments)
    BY <1>1
  <2>4. Outstanding(v, p) = Larger(expected - paid, 0)
    BY <2>2, <2>3 DEF Outstanding, Remaining, ViewOK
  <2>5. C[p] = IF p \in Q THEN Larger(expected, paid) ELSE paid
    BY <1>1, <2>2, <2>3 DEF Cost
  <2>6. Larger(expected, paid) = paid + Larger(expected - paid, 0) /\ Larger(expected - paid, 0) \in Int
    BY DEF Larger
  <2> QED
    BY <1>1, <2>3, <2>4, <2>5, <2>6
<1>4. SumFunctionOnSet(C, P) = SumFunctionOnSet(F, P) + SumFunctionOnSet(G, P)
  BY <1>2, <1>3, SumAdds
<1>5. SumFunctionOnSet(G, P) = SumFunctionOnSet(G, Q)
  <2>1. (\A p \in P : G[p] \in Int) /\ \A p \in P \ Q : G[p] = 0
    BY <1>1, <1>3
  <2> QED
    BY <1>2, <2>1, SumLeavesOut
<1>6. SumFunctionOnSet(G, Q) = SumFunctionOnSet(T, Q)
  <2>1. \A p \in Q : G[p] = T[p]
    BY <1>1, <1>2
  <2> QED
    BY <1>2, <2>1, SumAgrees
<1>7. ToPay(v, end) = SumFunctionOnSet(T, Q) /\ SumFunction(C) = SumFunctionOnSet(C, P)
  BY <1>1 DEF ToPay, SumFunction
<1>8. SumFunctionOnSet(F, P) \in Int /\ SumFunctionOnSet(G, P) \in Int
  <2>1. (\A p \in P : F[p] \in Int) /\ \A p \in P : G[p] \in Int
    BY <1>3
  <2> QED
    BY <1>2, <2>1, SumTyped
<1> QED
  BY <1>1, <1>4, <1>5, <1>6, <1>7, <1>8

LEMMA ProjectionComesTo ==
  ASSUME NEW v, ViewOK(v), NEW asOf \in Nat, NEW end \in Nat, ~Postdated(v, asOf)
  PROVE  ProjectedBalance(v, asOf, end) = WorthThen(v, asOf, end)
<1>1. PICK O, R, P, M : /\ O = OpeningEntries({}) /\ R = {e \in Receipts(v, {}) : e.at <= asOf} /\ P = PaymentEntries(v, {})
                        /\ M = {e \in MovementEntries(v, {}) : e.at <= asOf}
  OBVIOUS
<1>2. \A e \in P : e.at <= asOf
  <2>1. SUFFICES ASSUME NEW k \in Paying(v) PROVE PaymentOf(v, k).at <= asOf
    BY <1>1, EntriesAre
  <2>2. k \in DOMAIN v.payments /\ ~v.payments[k].reversed
    BY DEF Paying
  <2>3. PICK at \in Nat : at = Midnight(v.payments[k].at)
    BY <2>2, ViewFields DEF Midnight
  <2>4. ~(at > asOf)
    BY <2>2, <2>3 DEF Postdated
  <2>5. PaymentOf(v, k).at = at
    BY <2>3 DEF PaymentOf, Entry
  <2> QED
    BY <2>4, <2>5
<1>3. \A e \in O : e.at <= asOf
  BY <1>1, EntriesTyped
<1>4. Ledger(v, asOf, {}) = ((O \cup R) \cup P) \cup M
  <2>1. Ledger(v, asOf, {}) = {e \in O \cup Receipts(v, {}) \cup P \cup MovementEntries(v, {}) : e.at <= asOf}
    BY <1>1 DEF Ledger
  <2> QED
    BY <1>1, <1>2, <1>3, <2>1
<1>5. IsFiniteSet(O) /\ IsFiniteSet(R) /\ IsFiniteSet(P) /\ IsFiniteSet(M)
  <2>1. IsFiniteSet(O) /\ IsFiniteSet(P) /\ IsFiniteSet(Receipts(v, {})) /\ IsFiniteSet(MovementEntries(v, {}))
    BY <1>1, EntriesTyped
  <2>2. R \subseteq Receipts(v, {}) /\ M \subseteq MovementEntries(v, {})
    BY <1>1
  <2> QED
    BY <2>1, <2>2, FS_Subset
<1>6. IsFiniteSet(O \cup R) /\ IsFiniteSet((O \cup R) \cup P)
  BY <1>5, FS_Union
<1>7. (\A e \in O : Value(e) \in Int /\ e.source = "OPENING_BALANCE") /\ (\A e \in R : Value(e) \in Int /\ e.source = "ORDER_RECEIPT")
      /\ (\A e \in P : Value(e) \in Int /\ e.source = "PAYABLE_PAYMENT")
      /\ (\A e \in M : Value(e) \in Int /\ e.source \in {"CASH_MOVEMENT", "CASH_MOVEMENT:out", "CASH_MOVEMENT:in"})
  BY <1>1, EntriesTyped DEF ValueOK
<1>8. O \cap R = {} /\ (O \cup R) \cap P = {} /\ ((O \cup R) \cup P) \cap M = {}
  BY <1>7
<1>9. Balance(O \cup R) = Balance(O) + Balance(R)
  BY <1>5, <1>7, <1>8, BalanceJoins
<1>10. Balance((O \cup R) \cup P) = Balance(O \cup R) + Balance(P)
  BY <1>5, <1>6, <1>7, <1>8, BalanceJoins
<1>11. Balance(((O \cup R) \cup P) \cup M) = Balance((O \cup R) \cup P) + Balance(M)
  BY <1>5, <1>6, <1>7, <1>8, BalanceJoins
<1>12. PICK F, D : F = [p \in DOMAIN v.payables |-> Paid(p, v.payments)] /\ D = DOMAIN v.payables
  OBVIOUS
<1>13. Balance(P) = 0 - SumFunctionOnSet(F, D) /\ \A p \in DOMAIN v.payables : F[p] \in Nat
  BY <1>1, <1>12, PaymentsComeTo
<1>14. /\ SumFunction([p \in DOMAIN v.payables |-> Cost(v, p, end)]) = SumFunctionOnSet(F, D) + ToPay(v, end)
       /\ SumFunctionOnSet(F, D) \in Int /\ ToPay(v, end) \in Int
  BY <1>12, <1>13, CostsComeTo
<1>15. Balance(O) = SumFunction(Opening) /\ SumFunction(Opening) \in Int
  BY <1>1, OpeningComesTo
<1>16. /\ Balance(R) + Receivable(v, asOf) = SumFunction([o \in v.orders |-> Net[o]])
       /\ Balance(R) \in Int /\ Receivable(v, asOf) \in Int
  BY <1>1, ReceiptsComeTo
<1>17. Balance(M) = SumFunction([k \in Kept(v.movements, asOf) |-> Signed(v.movements[k])]) /\ Balance(M) \in Int
  BY <1>1, MovementsComeTo
<1>19. PICK opening, received, moved, paid, due, cost, come :
         /\ opening = SumFunction(Opening) /\ received = Balance(R) /\ come = Receivable(v, asOf) /\ moved = Balance(M)
         /\ paid = SumFunctionOnSet(F, D) /\ due = ToPay(v, end) /\ cost = SumFunction([p \in DOMAIN v.payables |-> Cost(v, p, end)])
  OBVIOUS
<1>20. opening \in Int /\ received \in Int /\ moved \in Int /\ paid \in Int /\ due \in Int /\ come \in Int /\ cost = paid + due
  BY <1>14, <1>15, <1>16, <1>17, <1>19
<1>21. Balance(Ledger(v, asOf, {})) = ((opening + received) + (0 - paid)) + moved
  BY <1>4, <1>9, <1>10, <1>11, <1>13, <1>15, <1>19
<1>22. ProjectedBalance(v, asOf, end) = ((opening + received) + (0 - paid)) + moved + come - due
  BY <1>19, <1>21 DEF ProjectedBalance
<1>23. WorthThen(v, asOf, end) = opening + (received + come) + moved - cost
  BY <1>16, <1>17, <1>19 DEF WorthThen
<1> QED
  BY <1>20, <1>22, <1>23

----------------------------------------------------------------------------
(* What the reports promise.                                                 *)

LEMMA TypesHold ==
  ASSUME FiguresInv
  PROVE  TypeOK
<1>1. StoredTypes /\ Requested /\ CashInv /\ ReportInv
  BY DEF FiguresInv, PayablesInv
<1>2. \A p \in DOMAIN payables : payables[p].expected \in Amounts /\ payables[p].due \in Nat /\ payables[p].cancelled \in BOOLEAN
  BY <1>1, StoredFields
<1>3. \A k \in DOMAIN payments : payments[k].of \in DOMAIN payables /\ payments[k].amount \in Amounts
  BY <1>1, StoredFields
<1>4. \A u \in Clients : request[u] # Idle => request[u].of \in DOMAIN payables
  BY <1>1 DEF Requested, Meant
<1>5. \A k \in DOMAIN movements : movements[k].from \in Accounts /\ movements[k].to \in (Accounts \ {movements[k].from}) \cup {None}
  <2>1. \A k \in DOMAIN movements : movements[k] \in MoveRecords /\ Goes(movements[k])
    BY <1>1 DEF CashInv
  <2>2. \A m \in MoveRecords : m.from \in Accounts
    BY DEF MoveRecords
  <2> QED
    BY <2>1, <2>2 DEF Goes
<1> QED
  BY <1>1, <1>2, <1>3, <1>4, <1>5 DEF TypeOK, CashInv, ReportInv, StoredTypes

LEMMA CountsDoAgree ==
  ASSUME FiguresInv
  PROVE  CountsAgree
<1>1. SUFFICES ASSUME NEW p \in DOMAIN payables,
                      NEW shown, shown = Status(payables[p].expected, Paid(p, payments), payables[p].cancelled, payables[p].due, today),
                      NEW found, found = SqlStatus(payables[p].expected, Paid(p, payments), payables[p].cancelled, payables[p].due, today),
                      shown \in Ended \/ found \in Ended
               PROVE  shown = found
  BY DEF CountsAgree, StatusOf
<1>2. PICK expected, paid, cancelled, due : expected = payables[p].expected /\ paid = Paid(p, payments)
                                            /\ cancelled = payables[p].cancelled /\ due = payables[p].due
  OBVIOUS
<1>3. expected \in Nat \ {0} /\ paid \in Nat /\ cancelled \in BOOLEAN
  BY <1>2, StoredFields DEF FiguresInv, PayablesInv
<1>4. shown = Status(expected, paid, cancelled, due, today) /\ found = SqlStatus(expected, paid, cancelled, due, today)
  BY <1>1, <1>2
<1>5. CASE cancelled
  BY <1>4, <1>5 DEF Status, SqlStatus
<1>6. CASE ~cancelled /\ paid >= expected
  BY <1>3, <1>4, <1>6 DEF Status, SqlStatus
<1>7. CASE ~cancelled /\ paid < expected
  <2>1. shown \in {"PARTIALLY_PAID", "OVERDUE", "OPEN"}
    <3>1. paid > 0 \/ paid = 0
      BY <1>3
    <3> QED
      BY <1>3, <1>4, <1>7, <3>1 DEF Status
  <2>2. found \in {"PARTIALLY_PAID", "OVERDUE", "OPEN"}
    BY <1>3, <1>4, <1>7 DEF SqlStatus
  <2> QED
    BY <1>1, <2>1, <2>2 DEF Ended
<1> QED
  BY <1>3, <1>5, <1>6, <1>7

LEMMA FiguresFollow ==
  ASSUME FiguresInv
  PROVE  TypeOK /\ CountedOnce /\ CountsAgree /\ AccountsAddUp /\ StatementsAgree
<1>1. ViewOK(Stored)
  <2>1. PICK v : v = Stored
    OBVIOUS
  <2>2. v.orders \subseteq delivered /\ v.payables = payables /\ v.paidThen = payments /\ v.payments = payments /\ v.movements = movements
    BY <2>1 DEF Stored
  <2> QED
    BY <2>1, <2>2, StoredIsWhole DEF FiguresInv
<1>2. CountedOnce
  <2>1. SUFFICES ASSUME Whole(report), ~report.torn, ~Postdated(report.view, report.asOf)
                 PROVE  ProjectedBalance(report.view, report.asOf, report.end) = WorthThen(report.view, report.asOf, report.end)
    BY DEF CountedOnce
  <2>2. ViewOK(report.view) /\ report.asOf \in Nat /\ report.end \in Nat
    BY <2>1 DEF FiguresInv, ReportInv, Whole
  <2> QED
    BY <2>1, <2>2, ProjectionComesTo
<1>3. AccountsAddUp
  BY <1>1, BalancesAddUp DEF AccountsAddUp
<1>4. StatementsAgree
  <2>1. SUFFICES ASSUME NEW first \in 1..world.lastDay, NEW last \in 1..world.lastDay,
                        NEW selected \in {{}} \cup {{a} : a \in Accounts}, first <= last
                 PROVE  LET early == {e \in Ledger(Stored, EndOf(first), selected) : e.at = Midnight(first) + 1}
                            dated == {e \in Ledger(Stored, EndOf(first), selected) : e.at = Midnight(first)}
                            twice == IF early = {} THEN 0 ELSE Balance(dated)
                        IN  /\ OpeningBalance(Stored, first, last, selected)
                                 = Balance(Ledger(Stored, EndOf(first - 1), selected)) + Balance(early) + twice
                            /\ ClosingBalance(Stored, first, last, selected) = Balance(Ledger(Stored, EndOf(last), selected)) + twice
    BY DEF StatementsAgree
  <2>2. world.lastDay \in Nat
    BY WorldsAssumption DEF FiguresInv, PayablesInv, StoredTypes
  <2>3. selected = {} \/ \E a \in Accounts : selected = {a}
    OBVIOUS
  <2>4. first \in Nat \ {0} /\ last \in Nat
    BY <2>2
  <2> QED
    BY <1>1, <2>1, <2>3, <2>4, StatementsDoAgree
<1> QED
  BY <1>2, <1>3, <1>4, TypesHold, CountsDoAgree

LEMMA FiguresAlways == Spec => []FiguresInv
<1>1. Init => FiguresInv
  BY PayablesBegin, ReportsBegin DEF Init, FiguresInv
<1>2. FiguresInv /\ [Next]_vars => FiguresInv'
  BY NextKeepsFigures
<1> QED
  BY <1>1, <1>2, PTL DEF Spec

(* Whatever is delivered, moved, paid, reversed or written while queries run *)
(* one by one, and whatever moment and end are asked for: a report that      *)
(* nothing tore projects what there is, each source once; the counts of the  *)
(* database are those of the program; the balances of the accounts add up to *)
(* the balance of all; and statements, of all accounts and of each, open and *)
(* close with the balances of the position, but for what the dates shown do  *)
(* with a receipt in the hours after midnight.                               *)
THEOREM ReportsAlwaysAgree == Spec => []ReportsAgree
<1>1. FiguresInv => ReportsAgree
  BY FiguresFollow DEF ReportsAgree
<1> QED
  BY <1>1, FiguresAlways, PTL
================================================================================
