---------------------------- MODULE SumTheorems ----------------------------
(***************************************************************************)
(* Facts about SumFunctionOnSet, which says what money there is in rows    *)
(* and replies: what a sum over a finite set is when an element joins,     *)
(* leaves or changes.  Each is a proof by induction on the subsets of a    *)
(* finite set, in the form "no smallest subset fails" (MinimalSubset).     *)
(***************************************************************************)
EXTENDS FiniteSetTheorems, TLAPS

Pick(s) == CHOOSE x \in s : TRUE

(* The function that SumFunctionOnSet defines by recursion on the subsets of S. *)
Iterates(g, f, S) ==
  g = [s \in SUBSET S |-> IF s = {} THEN 0 ELSE f[Pick(s)] + g[s \ {Pick(s)}]]

Iterate(f, S) == CHOOSE g : Iterates(g, f, S)

LEMMA SumIsIterate ==
  ASSUME NEW f, NEW S
  PROVE  SumFunctionOnSet(f, S) = Iterate(f, S)[S]
BY DEF SumFunctionOnSet, FoldFunctionOnSet, MapThenFoldSet, Iterate, Iterates, Pick

(* A set of subsets of a finite set has a least one. *)
LEMMA MinimalSubset ==
  ASSUME NEW S, IsFiniteSet(S), NEW T \in SUBSET SUBSET S, T # {}
  PROVE  \E A \in T : \A B \in T : B \subseteq A => B = A
<1>1. T \subseteq FiniteSubsetsOf(S)
  BY FS_Subset DEF FiniteSubsetsOf
<1>2. PICK A \in T : \A B \in T : <<B, A>> \notin StrictSubsetOrdering(S)
  BY <1>1, FS_StrictSubsetOrderingWellFounded, WFMin, Zenon
<1> QED
  BY <1>2 DEF StrictSubsetOrdering

LEMMA PickIn == ASSUME NEW s, s # {} PROVE Pick(s) \in s
BY DEF Pick

(* Two such functions agree where both are defined. *)
LEMMA IteratesAgree ==
  ASSUME NEW f, NEW S, IsFiniteSet(S), NEW A \in SUBSET S, NEW B \in SUBSET S,
         NEW g, Iterates(g, f, A), NEW h, Iterates(h, f, B)
  PROVE  \A s \in SUBSET (A \cap B) : g[s] = h[s]
<1> DEFINE Bad == {s \in SUBSET (A \cap B) : g[s] # h[s]}
<1>1. SUFFICES ASSUME Bad # {} PROVE FALSE
  OBVIOUS
<1>2. PICK s \in Bad : \A t \in Bad : t \subseteq s => t = s
  <2>1. Bad \in SUBSET SUBSET S
    OBVIOUS
  <2> HIDE DEF Bad
  <2> QED
    BY <1>1, <2>1, MinimalSubset
<1>3. s # {}
  BY DEF Iterates
<1>4. Pick(s) \in s
  BY <1>3, PickIn
<1>5. g[s \ {Pick(s)}] = h[s \ {Pick(s)}]
  BY <1>2, <1>4
<1>6. g[s] = f[Pick(s)] + g[s \ {Pick(s)}]
  BY <1>3 DEF Iterates
<1>7. h[s] = f[Pick(s)] + h[s \ {Pick(s)}]
  BY <1>3 DEF Iterates
<1> QED
  BY <1>5, <1>6, <1>7

(* And there is one for every finite set. *)
LEMMA IterateExists ==
  ASSUME NEW f, NEW S, IsFiniteSet(S)
  PROVE  \A A \in SUBSET S : Iterates(Iterate(f, A), f, A)
<1> DEFINE Bad == {A \in SUBSET S : ~ \E g : Iterates(g, f, A)}
<1>1. SUFFICES ASSUME Bad # {} PROVE FALSE
  BY DEF Iterate
<1>2. PICK A \in Bad : \A B \in Bad : B \subseteq A => B = A
  <2>1. Bad \in SUBSET SUBSET S
    OBVIOUS
  <2> HIDE DEF Bad
  <2> QED
    BY <1>1, <2>1, MinimalSubset
<1> DEFINE it(s) == Iterate(f, s)
<1>3. \A s \in SUBSET A : s # A => Iterates(it(s), f, s)
  BY <1>2 DEF Iterate
<1> DEFINE v(s) == it(s)[s]
           step(s) == f[Pick(s)] + v(s \ {Pick(s)})
           g == [s \in SUBSET A |-> IF s = {} THEN 0 ELSE step(s)]
<1>4. \A s \in SUBSET A : s # {} => s \ {Pick(s)} \in SUBSET A /\ s \ {Pick(s)} # A
  BY PickIn
<1>5. \A s \in SUBSET A : s # A => v(s) = g[s]
  <2> SUFFICES ASSUME NEW s \in SUBSET A, s # A PROVE v(s) = g[s]
    OBVIOUS
  <2>1. Iterates(it(s), f, s)
    BY <1>3
  <2>2. CASE s = {}
    BY <2>1, <2>2 DEF Iterates
  <2>3. CASE s # {}
    <3> DEFINE t == s \ {Pick(s)}
    <3>1. Iterates(it(t), f, t)
      BY <1>3, <1>4, <2>3
    <3>2. it(s)[t] = it(t)[t]
      <4>1. /\ s \in SUBSET S /\ t \in SUBSET S
            /\ t \in SUBSET (s \cap t)
        OBVIOUS
      <4> HIDE DEF t, it
      <4> QED
        BY <2>1, <3>1, <4>1, IteratesAgree
    <3>3. it(s)[s] = f[Pick(s)] + it(s)[t]
      BY <2>1, <2>3 DEF Iterates
    <3> QED
      BY <2>3, <3>2, <3>3
  <2> QED
    BY <2>2, <2>3
<1>6. \A s \in SUBSET A : s # {} => v(s \ {Pick(s)}) = g[s \ {Pick(s)}]
  BY <1>4, <1>5
<1>7. Iterates(g, f, A)
  <2> HIDE DEF v
  <2> QED
    BY <1>6 DEF Iterates
<1> QED
  BY <1>2, <1>7

-----------------------------------------------------------------------------
LEMMA SumEmpty == ASSUME NEW f PROVE SumFunctionOnSet(f, {}) = 0
<1>1. Iterates(Iterate(f, {}), f, {})
  BY FS_EmptySet, IterateExists
<1>2. Iterate(f, {})[{}] = 0
  BY <1>1 DEF Iterates
<1> QED
  BY <1>2, SumIsIterate

LEMMA SumPick ==
  ASSUME NEW f, NEW S, IsFiniteSet(S), S # {}
  PROVE  SumFunctionOnSet(f, S) = f[Pick(S)] + SumFunctionOnSet(f, S \ {Pick(S)})
<1> DEFINE T == S \ {Pick(S)}
<1>1. Iterates(Iterate(f, S), f, S) /\ Iterates(Iterate(f, T), f, T)
  BY IterateExists
<1>2. Iterate(f, S)[T] = Iterate(f, T)[T]
  <2>1. T \in SUBSET S /\ T \in SUBSET (S \cap T)
    OBVIOUS
  <2> HIDE DEF T
  <2> QED
    BY <1>1, <2>1, IteratesAgree
<1>3. Iterate(f, S)[S] = f[Pick(S)] + Iterate(f, S)[T]
  BY <1>1 DEF Iterates
<1> QED
  BY <1>2, <1>3, SumIsIterate

LEMMA SumInt ==
  ASSUME NEW f, NEW S, IsFiniteSet(S), \A x \in S : f[x] \in Int
  PROVE  SumFunctionOnSet(f, S) \in Int
<1> DEFINE Bad == {A \in SUBSET S : SumFunctionOnSet(f, A) \notin Int}
<1>1. SUFFICES ASSUME Bad # {} PROVE FALSE
  OBVIOUS
<1>2. PICK A \in Bad : \A B \in Bad : B \subseteq A => B = A
  <2>1. Bad \in SUBSET SUBSET S
    OBVIOUS
  <2> HIDE DEF Bad
  <2> QED
    BY <1>1, <2>1, MinimalSubset
<1>3. A # {}
  BY SumEmpty
<1>4. Pick(A) \in A /\ IsFiniteSet(A)
  BY <1>3, PickIn, FS_Subset
<1>5. SumFunctionOnSet(f, A \ {Pick(A)}) \in Int
  BY <1>2, <1>4
<1> QED
  BY <1>3, <1>4, <1>5, SumPick

(* The order in which a sum takes its elements does not matter. *)
LEMMA SumRemove ==
  ASSUME NEW f, NEW S, IsFiniteSet(S), \A y \in S : f[y] \in Int, NEW x \in S
  PROVE  SumFunctionOnSet(f, S) = f[x] + SumFunctionOnSet(f, S \ {x})
<1> DEFINE Good(A) == \A y \in A : SumFunctionOnSet(f, A) = f[y] + SumFunctionOnSet(f, A \ {y})
           Bad == {A \in SUBSET S : ~Good(A)}
<1>1. SUFFICES ASSUME Bad # {} PROVE FALSE
  OBVIOUS
<1>2. PICK A \in Bad : \A B \in Bad : B \subseteq A => B = A
  <2>1. Bad \in SUBSET SUBSET S
    OBVIOUS
  <2> HIDE DEF Bad
  <2> QED
    BY <1>1, <2>1, MinimalSubset
<1>3. PICK y \in A : SumFunctionOnSet(f, A) # f[y] + SumFunctionOnSet(f, A \ {y})
  OBVIOUS
<1> DEFINE z == Pick(A)
<1>4. /\ z \in A /\ IsFiniteSet(A)
      /\ SumFunctionOnSet(f, A) = f[z] + SumFunctionOnSet(f, A \ {z})
  BY PickIn, FS_Subset, SumPick
<1>5. y # z
  BY <1>3, <1>4
<1> DEFINE R == (A \ {z}) \ {y}
<1> HIDE DEF z
<1>6. Good(A \ {z}) /\ Good(A \ {y})
  BY <1>2, <1>4
<1>7. SumFunctionOnSet(f, A \ {z}) = f[y] + SumFunctionOnSet(f, R)
  BY <1>5, <1>6
<1>8. SumFunctionOnSet(f, A \ {y}) = f[z] + SumFunctionOnSet(f, R)
  <2>1. (A \ {y}) \ {z} = R
    OBVIOUS
  <2> QED
    BY <1>4, <1>5, <1>6, <2>1
<1>9. SumFunctionOnSet(f, R) \in Int /\ f[y] \in Int /\ f[z] \in Int
  <2>1. R \in SUBSET A
    OBVIOUS
  <2>2. IsFiniteSet(R)
    BY <2>1, <1>4, FS_Subset
  <2> QED
    BY <2>1, <2>2, <1>4, SumInt
<1> HIDE DEF R
<1> QED
  BY <1>3, <1>4, <1>7, <1>8, <1>9

LEMMA SumAdd ==
  ASSUME NEW f, NEW S, IsFiniteSet(S), NEW x, x \notin S,
         \A y \in S \cup {x} : f[y] \in Int
  PROVE  SumFunctionOnSet(f, S \cup {x}) = f[x] + SumFunctionOnSet(f, S)
<1>1. IsFiniteSet(S \cup {x})
  BY FS_AddElement
<1>2. (S \cup {x}) \ {x} = S
  OBVIOUS
<1>3. SumFunctionOnSet(f, S \cup {x}) = f[x] + SumFunctionOnSet(f, (S \cup {x}) \ {x})
  BY <1>1, SumRemove
<1> QED
  BY <1>2, <1>3

(* Only the values in the set count. *)
LEMMA SumSame ==
  ASSUME NEW f, NEW g, NEW S, IsFiniteSet(S), \A x \in S : f[x] = g[x]
  PROVE  SumFunctionOnSet(f, S) = SumFunctionOnSet(g, S)
<1> DEFINE Bad == {A \in SUBSET S : SumFunctionOnSet(f, A) # SumFunctionOnSet(g, A)}
<1>1. SUFFICES ASSUME Bad # {} PROVE FALSE
  OBVIOUS
<1>2. PICK A \in Bad : \A B \in Bad : B \subseteq A => B = A
  <2>1. Bad \in SUBSET SUBSET S
    OBVIOUS
  <2> HIDE DEF Bad
  <2> QED
    BY <1>1, <2>1, MinimalSubset
<1>3. A # {}
  BY SumEmpty
<1>4. Pick(A) \in A /\ IsFiniteSet(A)
  BY <1>3, PickIn, FS_Subset
<1>5. SumFunctionOnSet(f, A \ {Pick(A)}) = SumFunctionOnSet(g, A \ {Pick(A)})
  BY <1>2, <1>4
<1>6. f[Pick(A)] = g[Pick(A)]
  BY <1>4
<1> QED
  BY <1>3, <1>4, <1>5, <1>6, SumPick

(* A larger value for every element gives no smaller sum. *)
LEMMA SumMonotone ==
  ASSUME NEW f, NEW g, NEW S, IsFiniteSet(S),
         \A x \in S : f[x] \in Int /\ g[x] \in Int /\ f[x] <= g[x]
  PROVE  SumFunctionOnSet(f, S) <= SumFunctionOnSet(g, S)
<1> DEFINE Bad == {A \in SUBSET S : ~(SumFunctionOnSet(f, A) <= SumFunctionOnSet(g, A))}
<1>1. SUFFICES ASSUME Bad # {} PROVE FALSE
  OBVIOUS
<1>2. PICK A \in Bad : \A B \in Bad : B \subseteq A => B = A
  <2>1. Bad \in SUBSET SUBSET S
    OBVIOUS
  <2> HIDE DEF Bad
  <2> QED
    BY <1>1, <2>1, MinimalSubset
<1>3. A # {}
  BY SumEmpty
<1> DEFINE x == Pick(A)
           R == A \ {x}
<1>4. x \in A /\ IsFiniteSet(A) /\ R \in SUBSET A
  BY <1>3, PickIn, FS_Subset
<1>5. SumFunctionOnSet(f, R) <= SumFunctionOnSet(g, R)
  BY <1>2, <1>4
<1>6. IsFiniteSet(R)
  BY <1>4, FS_Subset
<1>7. SumFunctionOnSet(f, R) \in Int /\ SumFunctionOnSet(g, R) \in Int
  <2> HIDE DEF R
  <2> QED
    BY <1>4, <1>6, SumInt
<1>8. /\ SumFunctionOnSet(f, A) = f[x] + SumFunctionOnSet(f, R)
      /\ SumFunctionOnSet(g, A) = g[x] + SumFunctionOnSet(g, R)
  BY <1>3, <1>4, SumPick
<1> HIDE DEF x, R
<1>9. f[x] \in Int /\ g[x] \in Int /\ f[x] <= g[x]
  BY <1>4
<1> QED
  BY <1>5, <1>7, <1>8, <1>9

LEMMA SumZero ==
  ASSUME NEW f, NEW S, IsFiniteSet(S), \A x \in S : f[x] = 0
  PROVE  SumFunctionOnSet(f, S) = 0
<1> DEFINE Bad == {A \in SUBSET S : SumFunctionOnSet(f, A) # 0}
<1>1. SUFFICES ASSUME Bad # {} PROVE FALSE
  OBVIOUS
<1>2. PICK A \in Bad : \A B \in Bad : B \subseteq A => B = A
  <2>1. Bad \in SUBSET SUBSET S
    OBVIOUS
  <2> HIDE DEF Bad
  <2> QED
    BY <1>1, <2>1, MinimalSubset
<1>3. A # {}
  BY SumEmpty
<1>4. Pick(A) \in A /\ IsFiniteSet(A)
  BY <1>3, PickIn, FS_Subset
<1>5. SumFunctionOnSet(f, A \ {Pick(A)}) = 0
  BY <1>2, <1>4
<1> QED
  BY <1>3, <1>4, <1>5, SumPick

LEMMA SumNat ==
  ASSUME NEW f, NEW S, IsFiniteSet(S), \A x \in S : f[x] \in Nat
  PROVE  SumFunctionOnSet(f, S) \in Nat
<1> DEFINE zero == [x \in S |-> 0]
<1>1. SumFunctionOnSet(zero, S) = 0
  BY SumZero
<1>2. SumFunctionOnSet(zero, S) <= SumFunctionOnSet(f, S)
  BY SumMonotone
<1>3. SumFunctionOnSet(f, S) \in Int
  BY SumInt
<1> QED
  BY <1>1, <1>2, <1>3

(* One element changes its value. *)
LEMMA SumChange ==
  ASSUME NEW f, NEW g, NEW S, IsFiniteSet(S), NEW x \in S,
         \A y \in S : f[y] \in Int /\ g[y] \in Int,
         \A y \in S \ {x} : f[y] = g[y]
  PROVE  SumFunctionOnSet(g, S) = SumFunctionOnSet(f, S) - f[x] + g[x]
<1> DEFINE R == S \ {x}
<1>1. /\ SumFunctionOnSet(f, S) = f[x] + SumFunctionOnSet(f, R)
      /\ SumFunctionOnSet(g, S) = g[x] + SumFunctionOnSet(g, R)
  BY SumRemove
<1>2. IsFiniteSet(R)
  BY FS_Subset
<1>3. SumFunctionOnSet(f, R) = SumFunctionOnSet(g, R)
  BY <1>2, SumSame
<1>4. SumFunctionOnSet(f, R) \in Int
  BY <1>2, SumInt
<1> QED
  BY <1>1, <1>3, <1>4

(* With no negative values, part of a set sums to no more than the set. *)
LEMMA SumSubset ==
  ASSUME NEW f, NEW S, IsFiniteSet(S), NEW T \in SUBSET S, \A x \in S : f[x] \in Nat
  PROVE  SumFunctionOnSet(f, T) <= SumFunctionOnSet(f, S)
<1> DEFINE Bad == {A \in SUBSET (S \ T) :
                     ~(SumFunctionOnSet(f, T) <= SumFunctionOnSet(f, T \cup A))}
<1>1. SUFFICES ASSUME Bad # {} PROVE FALSE
  <2>1. T \cup (S \ T) = S
    OBVIOUS
  <2> QED
    BY <2>1
<1>2. IsFiniteSet(S \ T) /\ IsFiniteSet(T)
  BY FS_Subset
<1>3. PICK A \in Bad : \A B \in Bad : B \subseteq A => B = A
  <2>1. Bad \in SUBSET SUBSET (S \ T)
    OBVIOUS
  <2> HIDE DEF Bad
  <2> QED
    BY <1>1, <1>2, <2>1, MinimalSubset
<1>4. A # {}
  <2>1. SumFunctionOnSet(f, T) \in Nat
    BY <1>2, SumNat
  <2> QED
    BY <2>1
<1>5. PICK x \in A : TRUE
  BY <1>4
<1> DEFINE U == T \cup (A \ {x})
<1>6. SumFunctionOnSet(f, T) <= SumFunctionOnSet(f, U)
  <2>1. A \ {x} \in SUBSET (S \ T) /\ A \ {x} \subseteq A /\ A \ {x} # A
    BY <1>5
  <2>2. A \ {x} \notin Bad
    BY <1>3, <2>1
  <2> QED
    BY <2>1, <2>2
<1>7. U \cup {x} = T \cup A /\ x \notin U /\ U \in SUBSET S /\ U \cup {x} \in SUBSET S
  BY <1>5
<1>8. IsFiniteSet(U)
  BY <1>7, FS_Subset
<1> HIDE DEF U
<1>9. SumFunctionOnSet(f, U \cup {x}) = f[x] + SumFunctionOnSet(f, U)
  BY <1>7, <1>8, SumAdd
<1>10. SumFunctionOnSet(f, U) \in Nat /\ SumFunctionOnSet(f, T) \in Nat /\ f[x] \in Nat
  BY <1>2, <1>7, <1>8, SumNat
<1>11. ~(SumFunctionOnSet(f, T) <= SumFunctionOnSet(f, U \cup {x}))
  BY <1>7
<1> HIDE DEF Bad
<1> QED
  BY <1>6, <1>9, <1>10, <1>11

(* An element joins, and the function is another one that has the old values. *)
LEMMA SumExtend ==
  ASSUME NEW f, NEW g, NEW S, IsFiniteSet(S), NEW x, x \notin S,
         g[x] \in Int, \A y \in S : f[y] \in Int /\ g[y] = f[y]
  PROVE  SumFunctionOnSet(g, S \cup {x}) = SumFunctionOnSet(f, S) + g[x]
<1>1. SumFunctionOnSet(g, S \cup {x}) = g[x] + SumFunctionOnSet(g, S)
  BY SumAdd
<1>2. SumFunctionOnSet(g, S) = SumFunctionOnSet(f, S)
  BY SumSame
<1>3. SumFunctionOnSet(f, S) \in Int
  BY SumInt
<1> QED
  BY <1>1, <1>2, <1>3

(* Two sets with nothing in common. *)
LEMMA SumSplit ==
  ASSUME NEW f, NEW S, IsFiniteSet(S), NEW T \in SUBSET S, \A x \in S : f[x] \in Int
  PROVE  SumFunctionOnSet(f, S) = SumFunctionOnSet(f, T) + SumFunctionOnSet(f, S \ T)
<1> DEFINE Bad == {A \in SUBSET (S \ T) :
                     SumFunctionOnSet(f, T \cup A) #
                       SumFunctionOnSet(f, T) + SumFunctionOnSet(f, A)}
<1>1. SUFFICES ASSUME Bad # {} PROVE FALSE
  <2>1. T \cup (S \ T) = S
    OBVIOUS
  <2> QED
    BY <2>1
<1>2. IsFiniteSet(S \ T) /\ IsFiniteSet(T)
  BY FS_Subset
<1>3. PICK A \in Bad : \A B \in Bad : B \subseteq A => B = A
  <2>1. Bad \in SUBSET SUBSET (S \ T)
    OBVIOUS
  <2> HIDE DEF Bad
  <2> QED
    BY <1>1, <1>2, <2>1, MinimalSubset
<1>4. A # {}
  <2>1. SumFunctionOnSet(f, T) \in Int
    BY <1>2, SumInt
  <2>2. SumFunctionOnSet(f, T \cup {}) = SumFunctionOnSet(f, T) + SumFunctionOnSet(f, {})
    <3>1. T \cup {} = T
      OBVIOUS
    <3> QED
      BY <2>1, <3>1, SumEmpty
  <2>3. {} \notin Bad
    BY <2>2
  <2> QED
    BY <2>3
<1>5. PICK x \in A : TRUE
  BY <1>4
<1> DEFINE B == A \ {x}
           U == T \cup B
<1>6. SumFunctionOnSet(f, U) = SumFunctionOnSet(f, T) + SumFunctionOnSet(f, B)
  <2>1. B \in SUBSET (S \ T) /\ B \subseteq A /\ B # A
    BY <1>5
  <2>2. B \notin Bad
    BY <1>3, <2>1
  <2> QED
    BY <2>1, <2>2
<1>7. /\ U \cup {x} = T \cup A /\ x \notin U /\ U \in SUBSET S /\ U \cup {x} \in SUBSET S
      /\ B \cup {x} = A /\ x \notin B /\ B \in SUBSET S /\ B \cup {x} \in SUBSET S
  BY <1>5
<1>8. SumFunctionOnSet(f, T \cup A) # SumFunctionOnSet(f, T) + SumFunctionOnSet(f, A)
  BY <1>3
<1> HIDE DEF B, U, Bad
<1>9. IsFiniteSet(U) /\ IsFiniteSet(B)
  BY <1>7, FS_Subset
<1>10. /\ SumFunctionOnSet(f, U \cup {x}) = f[x] + SumFunctionOnSet(f, U)
       /\ SumFunctionOnSet(f, B \cup {x}) = f[x] + SumFunctionOnSet(f, B)
  <2>1. \A y \in U \cup {x} : f[y] \in Int
    BY <1>7
  <2>2. \A y \in B \cup {x} : f[y] \in Int
    BY <1>7
  <2> QED
    BY <1>7, <1>9, <2>1, <2>2, SumAdd
<1>11. /\ SumFunctionOnSet(f, T) \in Int /\ SumFunctionOnSet(f, B) \in Int /\ f[x] \in Int
  BY <1>2, <1>7, <1>9, SumInt
<1>12. SumFunctionOnSet(f, U \cup {x}) =
         SumFunctionOnSet(f, T) + SumFunctionOnSet(f, B \cup {x})
  BY <1>6, <1>10, <1>11
<1> QED
  BY <1>7, <1>8, <1>12

(* A sum does not depend on what its elements are called. *)
LEMMA SumImage ==
  ASSUME NEW S, IsFiniteSet(S), NEW f, NEW g, NEW h,
         \A x \in S : g[x] = f[h[x]] /\ g[x] \in Int,
         \A x \in S : \A y \in S : h[x] = h[y] => x = y
  PROVE  SumFunctionOnSet(f, {h[x] : x \in S}) = SumFunctionOnSet(g, S)
<1> DEFINE Im(A) == {h[x] : x \in A}
           Bad == {A \in SUBSET S : SumFunctionOnSet(f, Im(A)) # SumFunctionOnSet(g, A)}
<1>1. SUFFICES ASSUME Bad # {} PROVE FALSE
  OBVIOUS
<1>2. PICK A \in Bad : \A B \in Bad : B \subseteq A => B = A
  <2>1. Bad \in SUBSET SUBSET S
    OBVIOUS
  <2> HIDE DEF Bad
  <2> QED
    BY <1>1, <2>1, MinimalSubset
<1>3. A # {}
  <2>1. Im({}) = {}
    OBVIOUS
  <2> QED
    BY <2>1, SumEmpty
<1>4. PICK x \in A : TRUE
  BY <1>3
<1> DEFINE B == A \ {x}
<1>5. SumFunctionOnSet(f, Im(B)) = SumFunctionOnSet(g, B)
  <2>1. B \in SUBSET S /\ B \subseteq A /\ B # A
    BY <1>4
  <2>2. B \notin Bad
    BY <1>2, <2>1
  <2> QED
    BY <2>1, <2>2
<1>6. /\ B \cup {x} = A /\ x \notin B /\ B \in SUBSET S /\ x \in S
      /\ Im(A) = Im(B) \cup {h[x]} /\ h[x] \notin Im(B)
  BY <1>4
<1>7. IsFiniteSet(B) /\ IsFiniteSet(Im(B))
  <2>1. IsFiniteSet(B)
    BY <1>6, FS_Subset
  <2>2. IsFiniteSet(Im(B))
    <3> DEFINE hh == [y \in B |-> h[y]]
    <3>1. hh \in Surjection(B, Im(B))
      BY DEF Surjection
    <3> HIDE DEF hh, B
    <3> QED
      BY <2>1, <3>1, FS_Surjection
  <2> QED
    BY <2>1, <2>2
<1>8. \A y \in Im(B) \cup {h[x]} : f[y] \in Int
  <2>1. \A z \in S : f[h[z]] \in Int
    OBVIOUS
  <2> QED
    BY <1>6, <2>1
<1>9. \A y \in B \cup {x} : g[y] \in Int
  BY <1>6
<1> DEFINE I == Im(B)
<1>10. IsFiniteSet(I) /\ h[x] \notin I /\ \A y \in I \cup {h[x]} : f[y] \in Int
  BY <1>6, <1>7, <1>8
<1>11. SumFunctionOnSet(f, I \cup {h[x]}) = f[h[x]] + SumFunctionOnSet(f, I)
  <2> HIDE DEF I
  <2> QED
    BY <1>10, SumAdd
<1> HIDE DEF B
<1>12. SumFunctionOnSet(g, B \cup {x}) = g[x] + SumFunctionOnSet(g, B)
  BY <1>6, <1>7, <1>9, SumAdd
<1>13. SumFunctionOnSet(f, Im(A)) = SumFunctionOnSet(g, A)
  BY <1>5, <1>6, <1>11, <1>12
<1> QED
  BY <1>2, <1>13

(* The sum of two functions. *)
LEMMA SumPlus ==
  ASSUME NEW f, NEW g, NEW h, NEW S, IsFiniteSet(S),
         \A x \in S : f[x] \in Int /\ g[x] \in Int /\ h[x] = f[x] + g[x]
  PROVE  SumFunctionOnSet(h, S) = SumFunctionOnSet(f, S) + SumFunctionOnSet(g, S)
<1> DEFINE Bad == {A \in SUBSET S : SumFunctionOnSet(h, A) #
                                      SumFunctionOnSet(f, A) + SumFunctionOnSet(g, A)}
<1>1. SUFFICES ASSUME Bad # {} PROVE FALSE
  OBVIOUS
<1>2. PICK A \in Bad : \A B \in Bad : B \subseteq A => B = A
  <2>1. Bad \in SUBSET SUBSET S
    OBVIOUS
  <2> HIDE DEF Bad
  <2> QED
    BY <1>1, <2>1, MinimalSubset
<1>3. A # {}
  <2>1. SumFunctionOnSet(h, {}) = SumFunctionOnSet(f, {}) + SumFunctionOnSet(g, {})
    BY SumEmpty
  <2>2. {} \notin Bad
    BY <2>1
  <2> QED
    BY <2>2
<1> DEFINE x == Pick(A)
           R == A \ {x}
<1>4. x \in A /\ IsFiniteSet(A) /\ R \in SUBSET A
  BY <1>3, PickIn, FS_Subset
<1>5. SumFunctionOnSet(h, R) = SumFunctionOnSet(f, R) + SumFunctionOnSet(g, R)
  BY <1>2, <1>4
<1>6. IsFiniteSet(R)
  BY <1>4, FS_Subset
<1>7. SumFunctionOnSet(f, R) \in Int /\ SumFunctionOnSet(g, R) \in Int
  <2> HIDE DEF R
  <2> QED
    BY <1>4, <1>6, SumInt
<1>8. /\ SumFunctionOnSet(f, A) = f[x] + SumFunctionOnSet(f, R)
      /\ SumFunctionOnSet(g, A) = g[x] + SumFunctionOnSet(g, R)
      /\ SumFunctionOnSet(h, A) = h[x] + SumFunctionOnSet(h, R)
  BY <1>3, <1>4, SumPick
<1> HIDE DEF x, R
<1>9. f[x] \in Int /\ g[x] \in Int /\ h[x] = f[x] + g[x]
  BY <1>4
<1> QED
  BY <1>5, <1>7, <1>8, <1>9

-----------------------------------------------------------------------------
(* A sum over less comes to no more, by as much as any one member that is gone. *)
LEMMA SumShrinks ==
  ASSUME NEW f, NEW g, NEW S, IsFiniteSet(S), NEW T \in SUBSET S,
         \A x \in S : f[x] \in Nat, \A x \in T : g[x] = f[x]
  PROVE  /\ SumFunctionOnSet(g, T) <= SumFunctionOnSet(f, S)
         /\ \A x \in S \ T : SumFunctionOnSet(g, T) + f[x] <= SumFunctionOnSet(f, S)
         /\ SumFunctionOnSet(g, T) \in Nat
<1>1. IsFiniteSet(T) /\ SumFunctionOnSet(g, T) = SumFunctionOnSet(f, T)
  BY FS_Subset, SumSame
<1>2. SumFunctionOnSet(f, T) <= SumFunctionOnSet(f, S)
  BY SumSubset
<1>3. ASSUME NEW x \in S \ T
      PROVE  SumFunctionOnSet(g, T) + f[x] <= SumFunctionOnSet(f, S)
  <2>1. SumFunctionOnSet(f, T \cup {x}) = f[x] + SumFunctionOnSet(f, T)
    BY <1>1, SumAdd
  <2>2. T \cup {x} \in SUBSET S
    OBVIOUS
  <2>3. SumFunctionOnSet(f, T \cup {x}) <= SumFunctionOnSet(f, S)
    BY <2>2, SumSubset
  <2>4. SumFunctionOnSet(f, T) \in Int /\ f[x] \in Int
    BY <1>1, SumInt
  <2> QED
    BY <1>1, <2>1, <2>3, <2>4
<1>4. SumFunctionOnSet(g, T) \in Nat
  BY <1>1, SumNat
<1> QED
  BY <1>1, <1>2, <1>3, <1>4

(* A sum over at most one member more comes to at most that much more. *)
LEMMA SumGrows ==
  ASSUME NEW f, NEW g, NEW S, IsFiniteSet(S), NEW x, x \notin S,
         NEW T \in SUBSET (S \cup {x}),
         \A y \in S : f[y] \in Nat /\ g[y] = f[y], g[x] \in Nat
  PROVE  /\ SumFunctionOnSet(g, T) <= SumFunctionOnSet(f, S) + g[x]
         /\ SumFunctionOnSet(g, T) \in Nat
<1>1. IsFiniteSet(S \cup {x}) /\ IsFiniteSet(T)
  BY FS_AddElement, FS_Subset
<1>2. SumFunctionOnSet(g, T) <= SumFunctionOnSet(g, S \cup {x})
  BY <1>1, SumSubset
<1>3. SumFunctionOnSet(g, S \cup {x}) = SumFunctionOnSet(f, S) + g[x]
  BY SumExtend
<1>4. SumFunctionOnSet(g, T) \in Nat
  BY <1>1, SumNat
<1> QED
  BY <1>2, <1>3, <1>4
=============================================================================
