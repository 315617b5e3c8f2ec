--------------------------------- MODULE Sums ---------------------------------
(***************************************************************************)
(* Sums of numbers over finite sets (SumFunctionOnSet), for the balances   *)
(* of the other proofs.  The induction goes by a smallest counterexample,  *)
(* which the strict subsets of a finite set have.                          *)
(***************************************************************************)
EXTENDS Integers, FiniteSets, Functions, FiniteSetTheorems, WellFoundedInduction, TLAPS

First(s) == CHOOSE x \in s : TRUE

\* One step of the recursion.
Unfolded(f, S) == IF S = {} THEN 0 ELSE f[First(S)] + SumFunctionOnSet(f, S \ {First(S)})

\* iter is the function the recursion defines on the subsets of S.
Iterates(iter, f, S) ==
    iter = [s \in SUBSET S |-> IF s = {} THEN 0 ELSE f[First(s)] + iter[s \ {First(s)}]]

LEMMA SumIsIterated ==
  ASSUME NEW f, NEW S
  PROVE  SumFunctionOnSet(f, S) = (CHOOSE iter : Iterates(iter, f, S))[S]
BY DEF SumFunctionOnSet, FoldFunctionOnSet, MapThenFoldSet, Iterates, First

LEMMA SmallestSet ==
  ASSUME NEW S, IsFiniteSet(S), NEW Bad, Bad \subseteq SUBSET S, Bad # {}
  PROVE  \E T \in Bad : \A U \in Bad : U \subseteq T => U = T
<1>1. IsWellFoundedOn(StrictSubsetOrdering(S), FiniteSubsetsOf(S))
  BY FS_StrictSubsetOrderingWellFounded
<1>2. Bad \subseteq FiniteSubsetsOf(S)
  BY FS_Subset DEF FiniteSubsetsOf
<1>3. PICK T \in Bad : \A U \in Bad : <<U, T>> \notin StrictSubsetOrdering(S)
  BY <1>1, <1>2, WFMin
<1> QED BY <1>3 DEF StrictSubsetOrdering

LEMMA FirstIsMember == ASSUME NEW s, s # {} PROVE First(s) \in s
BY DEF First

\* A function that satisfies the recursion on the subsets of S computes the
\* sums of those that are known to unfold.
LEMMA IterSums ==
  ASSUME NEW f, NEW S, IsFiniteSet(S), NEW iter, Iterates(iter, f, S),
         \A s \in SUBSET S : s # S => SumFunctionOnSet(f, s) = Unfolded(f, s)
  PROVE  \A s \in SUBSET S : s # S => iter[s] = SumFunctionOnSet(f, s)
<1> DEFINE Bad == {s \in SUBSET S : s # S /\ iter[s] # SumFunctionOnSet(f, s)}
<1> SUFFICES ASSUME Bad # {} PROVE FALSE
  OBVIOUS
<1>1. PICK T \in Bad : \A U \in Bad : U \subseteq T => U = T
  <2>1. Bad \subseteq SUBSET S
    OBVIOUS
  <2> HIDE DEF Bad
  <2> QED BY <2>1, SmallestSet
<1>2. CASE T = {}
  BY <1>2 DEF Iterates, Unfolded
<1>3. CASE T # {}
  <2>1. First(T) \in T
    BY <1>3, FirstIsMember
  <2>2. iter[T] = f[First(T)] + iter[T \ {First(T)}]
    BY <1>3 DEF Iterates
  <2>3. T \ {First(T)} \notin Bad /\ T \ {First(T)} \in SUBSET S /\ T \ {First(T)} # S
    BY <1>1, <2>1
  <2>4. iter[T \ {First(T)}] = SumFunctionOnSet(f, T \ {First(T)})
    BY <2>3
  <2>5. SumFunctionOnSet(f, T) = f[First(T)] + SumFunctionOnSet(f, T \ {First(T)})
    BY <1>3 DEF Unfolded
  <2> QED BY <2>2, <2>4, <2>5
<1> QED BY <1>2, <1>3

LEMMA SumUnfolds ==
  ASSUME NEW f, NEW S, IsFiniteSet(S)
  PROVE  SumFunctionOnSet(f, S) = Unfolded(f, S)
<1> DEFINE Bad == {s \in SUBSET S : SumFunctionOnSet(f, s) # Unfolded(f, s)}
<1> SUFFICES ASSUME Bad # {} PROVE FALSE
  OBVIOUS
<1>1. PICK T \in Bad : \A U \in Bad : U \subseteq T => U = T
  <2>1. Bad \subseteq SUBSET S
    OBVIOUS
  <2> HIDE DEF Bad
  <2> QED BY <2>1, SmallestSet
<1>2. /\ IsFiniteSet(T)
      /\ \A s \in SUBSET T : s # T => SumFunctionOnSet(f, s) = Unfolded(f, s)
  BY <1>1, FS_Subset
<1> DEFINE iter == [s \in SUBSET T |->
                      IF s = T THEN Unfolded(f, T) ELSE SumFunctionOnSet(f, s)]
<1>3. Iterates(iter, f, T)
  <2>1. ASSUME NEW s \in SUBSET T
        PROVE  iter[s] = IF s = {} THEN 0 ELSE f[First(s)] + iter[s \ {First(s)}]
    <3>1. CASE s = {}
      BY <1>2, <3>1 DEF Unfolded
    <3>2. CASE s # {}
      <4>1. s \ {First(s)} \in SUBSET T /\ s \ {First(s)} # T
        BY <3>2, FirstIsMember
      <4>2. iter[s \ {First(s)}] = SumFunctionOnSet(f, s \ {First(s)})
        BY <4>1
      <4>3. iter[s] = Unfolded(f, s)
        BY <1>2
      <4> QED BY <3>2, <4>2, <4>3 DEF Unfolded
    <3> QED BY <3>1, <3>2
  <2> QED BY <2>1 DEF Iterates
<1> DEFINE chosen == CHOOSE it : Iterates(it, f, T)
<1>4. Iterates(chosen, f, T)
  <2> HIDE DEF iter
  <2> QED BY <1>3
<1>5. SumFunctionOnSet(f, T) = chosen[T]
  BY SumIsIterated
<1> HIDE DEF chosen, iter, Bad
<1>6. chosen[T] = Unfolded(f, T)
  <2>1. CASE T = {}
    BY <1>4, <2>1 DEF Iterates, Unfolded
  <2>2. CASE T # {}
    <3>1. T \ {First(T)} \in SUBSET T /\ T \ {First(T)} # T
      BY <2>2, FirstIsMember
    <3>2. \A s \in SUBSET T : s # T => chosen[s] = SumFunctionOnSet(f, s)
      BY <1>2, <1>4, IterSums, ZenonT(40)
    <3>4. chosen[T \ {First(T)}] = SumFunctionOnSet(f, T \ {First(T)})
      BY <3>1, <3>2
    <3>3. chosen[T] = f[First(T)] + chosen[T \ {First(T)}]
      BY <1>4, <2>2 DEF Iterates
    <3> QED BY <2>2, <3>3, <3>4 DEF Unfolded
  <2> QED BY <2>1, <2>2
<1> QED BY <1>5, <1>6 DEF Bad

LEMMA SumEmpty == ASSUME NEW f PROVE SumFunctionOnSet(f, {}) = 0
BY FS_EmptySet, SumUnfolds DEF Unfolded

\* The sum of integers is an integer.
LEMMA SumIsInt ==
  ASSUME NEW S, IsFiniteSet(S), NEW f, \A x \in S : f[x] \in Int
  PROVE  SumFunctionOnSet(f, S) \in Int
<1> DEFINE Bad == {s \in SUBSET S : SumFunctionOnSet(f, s) \notin Int}
<1> SUFFICES ASSUME Bad # {} PROVE FALSE
  OBVIOUS
<1>1. PICK T \in Bad : \A U \in Bad : U \subseteq T => U = T
  <2>1. Bad \subseteq SUBSET S
    OBVIOUS
  <2> HIDE DEF Bad
  <2> QED BY <2>1, SmallestSet
<1>2. T # {}
  BY SumEmpty
<1>3. First(T) \in T
  BY <1>2, FirstIsMember
<1>4. SumFunctionOnSet(f, T \ {First(T)}) \in Int
  BY <1>1, <1>3
<1>5. SumFunctionOnSet(f, T) = f[First(T)] + SumFunctionOnSet(f, T \ {First(T)})
  BY <1>2, FS_Subset, SumUnfolds DEF Unfolded
<1> QED BY <1>3, <1>4, <1>5

\* The order in which the elements are taken does not matter.
LEMMA SumTakesAny ==
  ASSUME NEW S, IsFiniteSet(S), NEW f, \A x \in S : f[x] \in Int
  PROVE  \A x \in S : SumFunctionOnSet(f, S) = f[x] + SumFunctionOnSet(f, S \ {x})
<1> DEFINE Bad == {s \in SUBSET S : \E x \in s :
                     SumFunctionOnSet(f, s) # f[x] + SumFunctionOnSet(f, s \ {x})}
<1> SUFFICES ASSUME Bad # {} PROVE FALSE
  OBVIOUS
<1>1. PICK T \in Bad : \A U \in Bad : U \subseteq T => U = T
  <2>1. Bad \subseteq SUBSET S
    OBVIOUS
  <2> HIDE DEF Bad
  <2> QED BY <2>1, SmallestSet
<1>2. PICK x \in T : SumFunctionOnSet(f, T) # f[x] + SumFunctionOnSet(f, T \ {x})
  OBVIOUS
<1> DEFINE y == First(T)
<1>3. y \in T
  BY <1>2, FirstIsMember
<1>4. SumFunctionOnSet(f, T) = f[y] + SumFunctionOnSet(f, T \ {y})
  BY <1>2, FS_Subset, SumUnfolds DEF Unfolded
<1>5. x # y
  BY <1>2, <1>4
<1> DEFINE U == T \ {y}
           V == T \ {x}
           W == T \ {x, y}
<1>6. U \notin Bad /\ U \in SUBSET S /\ x \in U /\ U \ {x} = W
  BY <1>1, <1>3, <1>5
<1>7. V \notin Bad /\ V \in SUBSET S /\ y \in V /\ V \ {y} = W
  BY <1>1, <1>3, <1>5
<1>8. SumFunctionOnSet(f, U) = f[x] + SumFunctionOnSet(f, W)
  BY <1>6
<1>9. SumFunctionOnSet(f, V) = f[y] + SumFunctionOnSet(f, W)
  BY <1>7
<1>10. IsFiniteSet(W) /\ \A z \in W : f[z] \in Int
  BY FS_Subset
<1>11. SumFunctionOnSet(f, W) \in Int /\ f[x] \in Int /\ f[y] \in Int
  BY <1>3, <1>10, SumIsInt
<1> HIDE DEF y, U, V, W, Bad
<1> QED BY <1>2, <1>4, <1>8, <1>9, <1>11 DEF U, V

\* Adding an element.
LEMMA SumAdds ==
  ASSUME NEW S, IsFiniteSet(S), NEW f, NEW x, x \notin S,
         \A y \in S \cup {x} : f[y] \in Int
  PROVE  SumFunctionOnSet(f, S \cup {x}) = f[x] + SumFunctionOnSet(f, S)
<1>1. IsFiniteSet(S \cup {x}) /\ (S \cup {x}) \ {x} = S
  BY FS_AddElement
<1> QED BY <1>1, SumTakesAny

\* Functions that agree on a set have the same sum over it.
LEMMA SumAgrees ==
  ASSUME NEW S, IsFiniteSet(S), NEW f, NEW g, \A x \in S : f[x] = g[x]
  PROVE  SumFunctionOnSet(f, S) = SumFunctionOnSet(g, S)
<1> DEFINE Bad == {s \in SUBSET S : SumFunctionOnSet(f, s) # SumFunctionOnSet(g, s)}
<1> SUFFICES ASSUME Bad # {} PROVE FALSE
  OBVIOUS
<1>1. PICK T \in Bad : \A U \in Bad : U \subseteq T => U = T
  <2>1. Bad \subseteq SUBSET S
    OBVIOUS
  <2> HIDE DEF Bad
  <2> QED BY <2>1, SmallestSet
<1>2. T # {}
  BY SumEmpty
<1>3. First(T) \in T
  BY <1>2, FirstIsMember
<1>4. SumFunctionOnSet(f, T \ {First(T)}) = SumFunctionOnSet(g, T \ {First(T)})
  BY <1>1, <1>3
<1>5. /\ SumFunctionOnSet(f, T) = f[First(T)] + SumFunctionOnSet(f, T \ {First(T)})
      /\ SumFunctionOnSet(g, T) = g[First(T)] + SumFunctionOnSet(g, T \ {First(T)})
  BY <1>2, FS_Subset, SumUnfolds DEF Unfolded
<1> QED BY <1>1, <1>3, <1>4, <1>5

\* Changing the number of one element changes the sum by as much.
LEMMA SumChanges ==
  ASSUME NEW S, IsFiniteSet(S), NEW f, NEW g, NEW x \in S,
         \A y \in S : f[y] \in Int /\ g[y] \in Int /\ (y # x => f[y] = g[y])
  PROVE  SumFunctionOnSet(g, S) = SumFunctionOnSet(f, S) + g[x] - f[x]
<1> DEFINE R == S \ {x}
<1>1. IsFiniteSet(R) /\ x \notin R /\ \A y \in R : f[y] = g[y] /\ f[y] \in Int
  BY FS_Subset
<1>2. /\ SumFunctionOnSet(f, S) = f[x] + SumFunctionOnSet(f, R)
      /\ SumFunctionOnSet(g, S) = g[x] + SumFunctionOnSet(g, R)
  BY SumTakesAny
<1>3. SumFunctionOnSet(f, R) = SumFunctionOnSet(g, R) /\ SumFunctionOnSet(f, R) \in Int
  BY <1>1, SumAgrees, SumIsInt
<1> HIDE DEF R
<1> QED BY <1>2, <1>3

\* The same when the element may be new, and counted as zero before.
LEMMA SumGrows ==
  ASSUME NEW S, IsFiniteSet(S), NEW f, NEW g, NEW x,
         \A y \in S \cup {x} : f[y] \in Int /\ g[y] \in Int /\ (y # x => f[y] = g[y]),
         x \notin S => f[x] = 0
  PROVE  SumFunctionOnSet(g, S \cup {x}) = SumFunctionOnSet(f, S) + g[x] - f[x]
<1>1. CASE x \in S
  <2>1. S \cup {x} = S
    BY <1>1
  <2>3. \A y \in S : f[y] \in Int /\ g[y] \in Int /\ (y # x => f[y] = g[y])
    OBVIOUS
  <2>2. \A z \in S : (\A y \in S : f[y] \in Int /\ g[y] \in Int /\ (y # z => f[y] = g[y]))
                    => SumFunctionOnSet(g, S) = SumFunctionOnSet(f, S) + g[z] - f[z]
    BY SumChanges
  <2> QED BY <1>1, <2>1, <2>2, <2>3
<1>2. CASE x \notin S
  <2>1. \A y \in S : f[y] = g[y] /\ f[y] \in Int
    BY <1>2
  <2>2. SumFunctionOnSet(f, S) = SumFunctionOnSet(g, S) /\ SumFunctionOnSet(f, S) \in Int
    BY <2>1, SumAgrees, SumIsInt
  <2>3. SumFunctionOnSet(g, S \cup {x}) = g[x] + SumFunctionOnSet(g, S)
    <3>1. \A y \in S \cup {x} : g[y] \in Int
      OBVIOUS
    <3> QED BY <1>2, <3>1, SumAdds
  <2> QED BY <1>2, <2>2, <2>3
<1> QED BY <1>1, <1>2

\* The sum of naturals is a natural, no smaller than any of its terms.
LEMMA SumIsNat ==
  ASSUME NEW S, IsFiniteSet(S), NEW f, \A x \in S : f[x] \in Nat
  PROVE  SumFunctionOnSet(f, S) \in Nat /\ \A x \in S : f[x] <= SumFunctionOnSet(f, S)
<1> DEFINE Bad == {s \in SUBSET S : SumFunctionOnSet(f, s) \notin Nat}
<1>0. SumFunctionOnSet(f, S) \in Int /\ \A x \in S : SumFunctionOnSet(f, S \ {x}) \in Int
  BY FS_Subset, SumIsInt
<1>1. Bad = {}
  <2> SUFFICES ASSUME Bad # {} PROVE FALSE
    OBVIOUS
  <2>1. PICK T \in Bad : \A U \in Bad : U \subseteq T => U = T
    <3>1. Bad \subseteq SUBSET S
      OBVIOUS
    <3> HIDE DEF Bad
    <3> QED BY <3>1, SmallestSet
  <2>2. T # {}
    BY SumEmpty
  <2>3. First(T) \in T
    BY <2>2, FirstIsMember
  <2>4. SumFunctionOnSet(f, T \ {First(T)}) \in Nat
    BY <2>1, <2>3
  <2>5. SumFunctionOnSet(f, T) = f[First(T)] + SumFunctionOnSet(f, T \ {First(T)})
    BY <2>2, FS_Subset, SumUnfolds DEF Unfolded
  <2> QED BY <2>3, <2>4, <2>5
<1>2. SumFunctionOnSet(f, S) \in Nat /\ \A x \in S : SumFunctionOnSet(f, S \ {x}) \in Nat
  BY <1>1
<1>3. \A x \in S : SumFunctionOnSet(f, S) = f[x] + SumFunctionOnSet(f, S \ {x})
  BY SumTakesAny
<1>4. ASSUME NEW x \in S PROVE f[x] <= SumFunctionOnSet(f, S)
  <2>1. SumFunctionOnSet(f, S) = f[x] + SumFunctionOnSet(f, S \ {x})
    BY <1>3
  <2>2. SumFunctionOnSet(f, S \ {x}) \in Nat /\ f[x] \in Nat
    BY <1>2
  <2> QED BY <2>1, <2>2
<1> QED BY <1>2, <1>4

LEMMA SumOfZeros ==
  ASSUME NEW S, IsFiniteSet(S), NEW f, \A x \in S : f[x] = 0
  PROVE  SumFunctionOnSet(f, S) = 0
<1> DEFINE Bad == {s \in SUBSET S : SumFunctionOnSet(f, s) # 0}
<1> SUFFICES ASSUME Bad # {} PROVE FALSE
  OBVIOUS
<1>1. PICK T \in Bad : \A U \in Bad : U \subseteq T => U = T
  <2>1. Bad \subseteq SUBSET S
    OBVIOUS
  <2> HIDE DEF Bad
  <2> QED BY <2>1, SmallestSet
<1>2. T # {}
  BY SumEmpty
<1>3. First(T) \in T
  BY <1>2, FirstIsMember
<1>4. SumFunctionOnSet(f, T \ {First(T)}) = 0
  BY <1>1, <1>3
<1>5. SumFunctionOnSet(f, T) = f[First(T)] + SumFunctionOnSet(f, T \ {First(T)})
  BY <1>2, FS_Subset, SumUnfolds DEF Unfolded
<1> QED BY <1>1, <1>3, <1>4, <1>5

\* The sum over two disjoint sets.
LEMMA SumJoins ==
  ASSUME NEW A, NEW B, IsFiniteSet(A), IsFiniteSet(B), A \cap B = {},
         NEW f, \A x \in A \cup B : f[x] \in Int
  PROVE  SumFunctionOnSet(f, A \cup B) = SumFunctionOnSet(f, A) + SumFunctionOnSet(f, B)
<1> DEFINE Bad == {s \in SUBSET B : SumFunctionOnSet(f, A \cup s)
                                      # SumFunctionOnSet(f, A) + SumFunctionOnSet(f, s)}
<1> SUFFICES ASSUME Bad # {} PROVE FALSE
  OBVIOUS
<1>1. PICK T \in Bad : \A U \in Bad : U \subseteq T => U = T
  <2>1. Bad \subseteq SUBSET B
    OBVIOUS
  <2> HIDE DEF Bad
  <2> QED BY <2>1, SmallestSet
<1>2. SumFunctionOnSet(f, A) \in Int
  BY SumIsInt
<1>3. T # {}
  <2>1. A \cup {} = A
    OBVIOUS
  <2> QED BY <1>2, <2>1, SumEmpty
<1> DEFINE x == First(T)
           R == T \ {x}
<1>4. x \in T /\ T \subseteq B
  BY <1>3, FirstIsMember
<1>5. SumFunctionOnSet(f, A \cup R) = SumFunctionOnSet(f, A) + SumFunctionOnSet(f, R)
  BY <1>1, <1>4
<1>6. /\ IsFiniteSet(R) /\ IsFiniteSet(A \cup R) /\ x \notin R /\ x \notin A \cup R
      /\ R \cup {x} = T /\ (A \cup R) \cup {x} = A \cup T
      /\ \A y \in (A \cup R) \cup {x} : f[y] \in Int
  BY <1>4, FS_Subset, FS_Union
<1>7. SumFunctionOnSet(f, T) = f[x] + SumFunctionOnSet(f, R)
  BY <1>6, SumAdds
<1>8. SumFunctionOnSet(f, A \cup T) = f[x] + SumFunctionOnSet(f, A \cup R)
  <2> DEFINE V == A \cup R
  <2> HIDE DEF V
  <2>1. SumFunctionOnSet(f, V \cup {x}) = f[x] + SumFunctionOnSet(f, V)
    BY <1>6, SumAdds DEF V
  <2> QED BY <1>6, <2>1 DEF V
<1>9. f[x] \in Int /\ SumFunctionOnSet(f, R) \in Int
  BY <1>6, SumIsInt
<1> HIDE DEF x, R
<1> QED BY <1>1, <1>2, <1>5, <1>7, <1>8, <1>9

\* r[x] for each x of S.
Image(r, S) == {r[x] : x \in S}

LEMMA ImageIsFinite ==
  ASSUME NEW S, IsFiniteSet(S), NEW r PROVE IsFiniteSet(Image(r, S))
<1> DEFINE onto == [x \in S |-> r[x]]
<1>1. onto \in Surjection(S, Image(r, S))
  BY DEF Surjection, Image
<1> QED BY <1>1, FS_Surjection

\* The sum over an image, when r renames the elements of S one to one.
LEMMA SumRenames ==
  ASSUME NEW S, IsFiniteSet(S), NEW r, \A x, y \in S : r[x] = r[y] => x = y,
         NEW f, NEW g, \A x \in S : g[r[x]] = f[x] /\ f[x] \in Int
  PROVE  SumFunctionOnSet(g, Image(r, S)) = SumFunctionOnSet(f, S)
<1> DEFINE Bad == {s \in SUBSET S :
                     SumFunctionOnSet(g, Image(r, s)) # SumFunctionOnSet(f, s)}
<1> SUFFICES ASSUME Bad # {} PROVE FALSE
  OBVIOUS
<1>1. PICK T \in Bad : \A U \in Bad : U \subseteq T => U = T
  <2>1. Bad \subseteq SUBSET S
    OBVIOUS
  <2> HIDE DEF Bad
  <2> QED BY <2>1, SmallestSet
<1>2. T # {}
  BY SumEmpty DEF Image
<1> DEFINE x == First(T)
           R == T \ {x}
<1>3. x \in T /\ T \subseteq S
  BY <1>2, FirstIsMember
<1>4. SumFunctionOnSet(g, Image(r, R)) = SumFunctionOnSet(f, R)
  BY <1>1, <1>3
<1>5. IsFiniteSet(R) /\ x \notin R /\ R \cup {x} = T /\ \A y \in R \cup {x} : f[y] \in Int
  BY <1>3, FS_Subset
<1>6. SumFunctionOnSet(f, T) = f[x] + SumFunctionOnSet(f, R)
  BY <1>5, SumAdds
<1>7. /\ Image(r, T) = Image(r, R) \cup {r[x]} /\ r[x] \notin Image(r, R)
      /\ \A z \in Image(r, R) \cup {r[x]} : g[z] \in Int
  BY <1>3 DEF Image
<1>8. IsFiniteSet(Image(r, R))
  BY <1>5, ImageIsFinite
<1>9. SumFunctionOnSet(g, Image(r, T)) = g[r[x]] + SumFunctionOnSet(g, Image(r, R))
  BY <1>7, <1>8, SumAdds
<1> QED BY <1>1, <1>3, <1>4, <1>6, <1>9

\* A finite set of integers has a least and a greatest element.
LEMMA LeastElement ==
  ASSUME NEW S, IsFiniteSet(S), S # {}, \A x \in S : x \in Int
  PROVE  \E x \in S : \A y \in S : x <= y
<1> DEFINE Bad == {T \in SUBSET S : T # {} /\ \A x \in T : \E y \in T : ~(x <= y)}
<1>1. Bad = {}
  <2> SUFFICES ASSUME Bad # {} PROVE FALSE
    OBVIOUS
  <2>1. PICK T \in Bad : \A U \in Bad : U \subseteq T => U = T
    <3>1. Bad \subseteq SUBSET S
      OBVIOUS
    <3> HIDE DEF Bad
    <3> QED BY <3>1, SmallestSet
  <2>2. PICK x \in T : TRUE
    OBVIOUS
  <2>3. T \ {x} \notin Bad /\ \A y \in T : y \in Int
    BY <2>1
  <2>4. CASE T = {x}
    BY <2>3, <2>4
  <2>5. CASE T # {x}
    <3>1. T \ {x} # {} /\ T \ {x} \in SUBSET S
      BY <2>2, <2>5
    <3>2. PICK m \in T \ {x} : \A y \in T \ {x} : m <= y
      BY <2>3, <3>1
    <3>3. x <= m => \A y \in T : x <= y
      BY <2>3, <3>2
    <3>4. ~(x <= m) => \A y \in T : m <= y
      BY <2>3, <3>2
    <3> QED BY <3>2, <3>3, <3>4
  <2> QED BY <2>4, <2>5
<1> QED BY <1>1

LEMMA GreatestElement ==
  ASSUME NEW S, IsFiniteSet(S), S # {}, \A x \in S : x \in Int
  PROVE  \E x \in S : \A y \in S : x >= y
<1> DEFINE Bad == {T \in SUBSET S : T # {} /\ \A x \in T : \E y \in T : ~(x >= y)}
<1>1. Bad = {}
  <2> SUFFICES ASSUME Bad # {} PROVE FALSE
    OBVIOUS
  <2>1. PICK T \in Bad : \A U \in Bad : U \subseteq T => U = T
    <3>1. Bad \subseteq SUBSET S
      OBVIOUS
    <3> HIDE DEF Bad
    <3> QED BY <3>1, SmallestSet
  <2>2. PICK x \in T : TRUE
    OBVIOUS
  <2>3. T \ {x} \notin Bad /\ \A y \in T : y \in Int
    BY <2>1
  <2>4. CASE T = {x}
    BY <2>3, <2>4
  <2>5. CASE T # {x}
    <3>1. T \ {x} # {} /\ T \ {x} \in SUBSET S
      BY <2>2, <2>5
    <3>2. PICK m \in T \ {x} : \A y \in T \ {x} : m >= y
      BY <2>3, <3>1
    <3>3. x >= m => \A y \in T : x >= y
      BY <2>3, <3>2
    <3>4. ~(x >= m) => \A y \in T : m >= y
      BY <2>3, <3>2
    <3> QED BY <3>2, <3>3, <3>4
  <2> QED BY <2>4, <2>5
<1> QED BY <1>1
=============================================================================
