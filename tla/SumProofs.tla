----------------------------- MODULE SumProofs -----------------------------
(***************************************************************************)
(* The sums the models are built from: SumFunctionOnSet(f, S) of the       *)
(* community module Functions, for every function of integers and every    *)
(* finite set.  The module defines it as a fold over the set; the lemmas   *)
(* give the fold its recursive equation, show that its order does not      *)
(* matter, and say what the sum becomes when one value changes.            *)
(*                                                                         *)
(* An induction over finite sets is stated with a set C of subsets in the  *)
(* place of a predicate, so that its hypotheses are ordinary formulas.     *)
(***************************************************************************)
EXTENDS Integers, Functions, FiniteSetTheorems, TLAPS

\* Induction over the subsets of a finite set: a collection that contains every
\* set whose elements may be taken away one at a time contains them all.
LEMMA SubsetInduction ==
  ASSUME NEW S, IsFiniteSet(S), NEW C,
         \A T \in SUBSET S : (\A x \in T : T \ {x} \in C) => T \in C
  PROVE  S \in C
<1> DEFINE Bad == {T \in SUBSET S : T \notin C}
<1>1. SUFFICES ASSUME S \notin C PROVE FALSE
  OBVIOUS
<1>2. Bad # {} /\ Bad \subseteq SUBSET S
  BY <1>1
<1>3. IsWellFoundedOn(StrictSubsetOrdering(S), SUBSET S)
  BY FS_StrictSubsetOrderingWellFounded, FS_FiniteSubsetsOfFinite
<1> HIDE DEF Bad
<1>4. PICK T \in Bad : \A U \in Bad : ~(<<U, T>> \in StrictSubsetOrdering(S))
  BY <1>2, <1>3, WFMin
<1>5. \A U \in Bad : ~(U \subseteq T /\ U # T)
  BY <1>2, <1>4 DEF StrictSubsetOrdering
<1>6. ASSUME NEW x \in T PROVE T \ {x} \in C
  BY <1>2, <1>5 DEF Bad
<1>7. QED
  BY <1>2, <1>6 DEF Bad

\* The same one element at a time: from {}, adding what is not yet there.
LEMMA AddInduction ==
  ASSUME NEW S, IsFiniteSet(S), NEW C, {} \in C,
         \A T \in SUBSET S : \A x \in S \ T : T \in C => T \cup {x} \in C
  PROVE  S \in C
<1>1. ASSUME NEW T \in SUBSET S, \A x \in T : T \ {x} \in C PROVE T \in C
  <2>1. CASE T = {}
    BY <2>1
  <2>2. ASSUME NEW x \in T PROVE T \in C
    <3>1. T \ {x} \in SUBSET S /\ x \in S \ (T \ {x}) /\ T \ {x} \in C
      BY <1>1
    <3>2. (T \ {x}) \cup {x} = T
      OBVIOUS
    <3>3. QED
      BY <3>1, <3>2
  <2>3. QED
    BY <2>1, <2>2
<1>2. QED
  BY <1>1, SubsetInduction

-----------------------------------------------------------------------------
(* The fold                                                                *)

\* The element the fold takes next.
Next1(s) == CHOOSE x \in s : TRUE

\* g is the recursive function of the fold on the subsets of S.
IsIter(g, f, S) ==
  g = [s \in SUBSET S |-> IF s = {} THEN 0 ELSE f[Next1(s)] + g[s \ {Next1(s)}]]

Iter(f, S) == CHOOSE g : IsIter(g, f, S)

\* What Functions and Folds define, written out.
LEMMA SumIsIter ==
  ASSUME NEW f, NEW S
  PROVE  SumFunctionOnSet(f, S) = Iter(f, S)[S]
BY DEF SumFunctionOnSet, FoldFunctionOnSet, MapThenFoldSet, Iter, IsIter, Next1

\* Such a function is determined by its equation.
LEMMA IterUnique ==
  ASSUME NEW f, NEW S, IsFiniteSet(S), NEW g, NEW h, IsIter(g, f, S), IsIter(h, f, S)
  PROVE  g[S] = h[S]
<1> DEFINE C == {T \in SUBSET S : g[T] = h[T]}
<1>1. ASSUME NEW T \in SUBSET S, \A x \in T : T \ {x} \in C PROVE T \in C
  <2>1. CASE T = {}
    BY <2>1 DEF IsIter
  <2>2. CASE T # {}
    <3>1. Next1(T) \in T
      BY <2>2 DEF Next1
    <3>2. g[T \ {Next1(T)}] = h[T \ {Next1(T)}]
      BY <1>1, <3>1
    <3>3. QED
      BY <2>2, <3>2 DEF IsIter
  <2>3. QED
    BY <2>1, <2>2
<1> HIDE DEF C
<1>2. S \in C
  BY <1>1, SubsetInduction
<1>3. QED
  BY <1>2 DEF C

\* On a smaller set it is the same function, restricted.
LEMMA IterRestrict ==
  ASSUME NEW f, NEW S, NEW g, IsIter(g, f, S), NEW T \in SUBSET S
  PROVE  IsIter([s \in SUBSET T |-> g[s]], f, T)
<1> DEFINE h == [s \in SUBSET T |-> g[s]]
<1>1. ASSUME NEW s \in SUBSET T
      PROVE  g[s] = IF s = {} THEN 0 ELSE f[Next1(s)] + h[s \ {Next1(s)}]
  BY DEF IsIter
<1>2. h = [s \in SUBSET T |-> IF s = {} THEN 0 ELSE f[Next1(s)] + h[s \ {Next1(s)}]]
  BY <1>1
<1>3. QED
  BY <1>2 DEF IsIter

\* There is one on every finite set.
LEMMA IterExists ==
  ASSUME NEW f, NEW S, IsFiniteSet(S)
  PROVE  \E g : IsIter(g, f, S)
<1> DEFINE C == {T \in SUBSET S : \A U \in SUBSET T : IsIter(Iter(f, U), f, U)}
<1>1. ASSUME NEW T \in SUBSET S, \A x \in T : T \ {x} \in C PROVE T \in C
  <2> DEFINE V(s) == Iter(f, s)[s]
             h == [s \in SUBSET T |-> IF s = {} THEN 0
                                      ELSE f[Next1(s)] + V(s \ {Next1(s)})]
  <2>1. ASSUME NEW U \in SUBSET T, U # T PROVE IsIter(Iter(f, U), f, U)
    <3>1. PICK x \in T : U \in SUBSET (T \ {x})
      BY <2>1
    <3>2. QED
      BY <1>1, <3>1
  <2>2. ASSUME NEW U \in SUBSET T, U # T, NEW W \in SUBSET U PROVE Iter(f, U)[W] = V(W)
    <3>1. W # T /\ IsFiniteSet(W)
      BY <2>2, FS_Subset
    <3>2. IsIter([s \in SUBSET W |-> Iter(f, U)[s]], f, W)
      BY <2>1, <2>2, IterRestrict
    <3>3. IsIter(Iter(f, W), f, W)
      BY <2>1, <3>1
    <3>4. QED
      BY <3>1, <3>2, <3>3, IterUnique
  <2>3. ASSUME NEW s \in SUBSET T, s # T PROVE h[s] = V(s)
    <3>1. IsIter(Iter(f, s), f, s)
      BY <2>1, <2>3
    <3>2. V(s) = IF s = {} THEN 0 ELSE f[Next1(s)] + Iter(f, s)[s \ {Next1(s)}]
      BY <3>1 DEF IsIter
    <3>3. Iter(f, s)[s \ {Next1(s)}] = V(s \ {Next1(s)})
      BY <2>2, <2>3
    <3>4. QED
      BY <3>2, <3>3
  <2>4. ASSUME NEW s \in SUBSET T, s # {} PROVE V(s \ {Next1(s)}) = h[s \ {Next1(s)}]
    <3>1. Next1(s) \in s
      BY <2>4 DEF Next1
    <3>2. s \ {Next1(s)} \in SUBSET T /\ s \ {Next1(s)} # T
      BY <3>1
    <3>3. QED
      BY <2>3, <3>2
  <2>5. IsIter(h, f, T)
    <3> HIDE DEF V
    <3>1. h = [s \in SUBSET T |-> IF s = {} THEN 0 ELSE f[Next1(s)] + h[s \ {Next1(s)}]]
      BY <2>4
    <3>2. QED
      BY <3>1 DEF IsIter
  <2> HIDE DEF h
  <2>6. IsIter(Iter(f, T), f, T)
    BY <2>5 DEF Iter
  <2>7. QED
    BY <2>1, <2>6
<1> HIDE DEF C
<1>2. S \in C
  BY <1>1, SubsetInduction
<1>3. QED
  BY <1>2 DEF C

\* The recursive equation of the sum.
LEMMA SumRecursive ==
  ASSUME NEW f, NEW S, IsFiniteSet(S)
  PROVE  /\ S = {} => SumFunctionOnSet(f, S) = 0
         /\ S # {} => /\ Next1(S) \in S
                      /\ SumFunctionOnSet(f, S) =
                           f[Next1(S)] + SumFunctionOnSet(f, S \ {Next1(S)})
<1>1. IsIter(Iter(f, S), f, S)
  BY IterExists DEF Iter
<1>2. Iter(f, S)[S] = IF S = {} THEN 0
                      ELSE f[Next1(S)] + Iter(f, S)[S \ {Next1(S)}]
  BY <1>1 DEF IsIter
<1>3. S # {} => Next1(S) \in S
  BY DEF Next1
<1>4. ASSUME NEW T \in SUBSET S PROVE Iter(f, S)[T] = Iter(f, T)[T]
  <2>1. IsFiniteSet(T)
    BY FS_Subset
  <2>2. IsIter([s \in SUBSET T |-> Iter(f, S)[s]], f, T)
    BY <1>1, IterRestrict
  <2>3. IsIter(Iter(f, T), f, T)
    BY <2>1, IterExists DEF Iter
  <2>4. QED
    BY <2>1, <2>2, <2>3, IterUnique
<1>5. QED
  BY <1>2, <1>3, <1>4, SumIsIter

-----------------------------------------------------------------------------
(* Facts about sums                                                        *)

\* Nothing adds up to nothing.
LEMMA SumEmpty == ASSUME NEW f PROVE SumFunctionOnSet(f, {}) = 0
BY SumRecursive, FS_EmptySet

\* A sum of elements of Int, or of Nat, is one.
LEMMA SumType ==
  ASSUME NEW S, IsFiniteSet(S), NEW f, \A x \in S : f[x] \in Int
  PROVE  /\ SumFunctionOnSet(f, S) \in Int
         /\ (\A x \in S : f[x] \in Nat) => SumFunctionOnSet(f, S) \in Nat
<1> DEFINE Good(T) == /\ SumFunctionOnSet(f, T) \in Int
                      /\ (\A x \in S : f[x] \in Nat) => SumFunctionOnSet(f, T) \in Nat
           C == {T \in SUBSET S : Good(T)}
<1>1. ASSUME NEW T \in SUBSET S, \A x \in T : T \ {x} \in C PROVE T \in C
  <2>1. IsFiniteSet(T)
    BY FS_Subset
  <2>2. CASE T = {}
    BY <2>2, SumEmpty
  <2>3. CASE T # {}
    <3>1. /\ Next1(T) \in T
          /\ SumFunctionOnSet(f, T) = f[Next1(T)] + SumFunctionOnSet(f, T \ {Next1(T)})
      BY <2>1, <2>3, SumRecursive
    <3>2. Good(T \ {Next1(T)})
      BY <1>1, <3>1
    <3>3. QED
      BY <3>1, <3>2
  <2>4. QED
    BY <2>2, <2>3
<1> HIDE DEF C
<1>2. S \in C
  BY <1>1, SubsetInduction
<1>3. QED
  BY <1>2 DEF C

\* Any element may be taken first: the order of the fold does not matter.
LEMMA SumTake ==
  ASSUME NEW S, IsFiniteSet(S), NEW f, \A x \in S : f[x] \in Int, NEW x \in S
  PROVE  SumFunctionOnSet(f, S) = f[x] + SumFunctionOnSet(f, S \ {x})
<1> DEFINE Sum(T) == SumFunctionOnSet(f, T)
           C == {T \in SUBSET S : \A y \in T : Sum(T) = f[y] + Sum(T \ {y})}
<1>0. ASSUME NEW T \in SUBSET S PROVE IsFiniteSet(T) /\ Sum(T) \in Int
  <2>1. IsFiniteSet(T)
    BY FS_Subset
  <2>2. QED
    BY <2>1, SumType
<1>1. ASSUME NEW T \in SUBSET S, \A y \in T : T \ {y} \in C PROVE T \in C
  <2>1. SUFFICES ASSUME NEW y \in T PROVE Sum(T) = f[y] + Sum(T \ {y})
    OBVIOUS
  <2> DEFINE p == Next1(T)
  <2>2. p \in T /\ Sum(T) = f[p] + Sum(T \ {p})
    BY <1>0, SumRecursive
  <2> HIDE DEF p, Sum
  <2>3. CASE p = y
    BY <2>2, <2>3
  <2>4. CASE p # y
    <3>1. Sum(T \ {p}) = f[y] + Sum((T \ {p}) \ {y})
      BY <1>1, <2>2, <2>4
    <3>2. Sum(T \ {y}) = f[p] + Sum((T \ {y}) \ {p})
      BY <1>1, <2>2, <2>4
    <3>3. (T \ {p}) \ {y} = (T \ {y}) \ {p}
      OBVIOUS
    <3>4. f[p] \in Int /\ f[y] \in Int /\ Sum((T \ {y}) \ {p}) \in Int
      <4>1. (T \ {y}) \ {p} \in SUBSET S
        OBVIOUS
      <4>2. QED
        BY <1>0, <2>2, <4>1
    <3>5. Sum(T) = f[p] + (f[y] + Sum((T \ {y}) \ {p}))
      BY <2>2, <3>1, <3>3
    <3>6. \A a, b, c \in Int : a + (b + c) = b + (a + c)
      OBVIOUS
    <3>7. QED
      BY <3>2, <3>4, <3>5, <3>6
  <2>5. QED
    BY <2>3, <2>4
<1> HIDE DEF C
<1>2. S \in C
  BY <1>1, SubsetInduction
<1>3. QED
  BY <1>2 DEF C

\* One element more.
LEMMA SumAdd ==
  ASSUME NEW S, IsFiniteSet(S), NEW f, NEW x, x \notin S, \A y \in S \cup {x} : f[y] \in Int
  PROVE  SumFunctionOnSet(f, S \cup {x}) = f[x] + SumFunctionOnSet(f, S)
<1>1. IsFiniteSet(S \cup {x})
  BY FS_AddElement
<1>2. (S \cup {x}) \ {x} = S
  OBVIOUS
<1>3. QED
  BY <1>1, <1>2, SumTake

\* Only the values on the set count.
LEMMA SumSame ==
  ASSUME NEW S, IsFiniteSet(S), NEW f, NEW g, \A x \in S : f[x] = g[x]
  PROVE  SumFunctionOnSet(f, S) = SumFunctionOnSet(g, S)
<1> DEFINE C == {T \in SUBSET S : SumFunctionOnSet(f, T) = SumFunctionOnSet(g, T)}
<1>1. ASSUME NEW T \in SUBSET S, \A x \in T : T \ {x} \in C PROVE T \in C
  <2>1. IsFiniteSet(T)
    BY FS_Subset
  <2>2. CASE T = {}
    BY <2>2, SumEmpty
  <2>3. CASE T # {}
    <3>1. /\ Next1(T) \in T
          /\ SumFunctionOnSet(f, T) = f[Next1(T)] + SumFunctionOnSet(f, T \ {Next1(T)})
          /\ SumFunctionOnSet(g, T) = g[Next1(T)] + SumFunctionOnSet(g, T \ {Next1(T)})
      BY <2>1, <2>3, SumRecursive
    <3>2. QED
      BY <1>1, <3>1
  <2>4. QED
    BY <2>2, <2>3
<1> HIDE DEF C
<1>2. S \in C
  BY <1>1, SubsetInduction
<1>3. QED
  BY <1>2 DEF C

\* A value that changes in one place changes the sum by as much.
LEMMA SumChange ==
  ASSUME NEW S, IsFiniteSet(S), NEW f, NEW g, NEW x \in S,
         \A y \in S : f[y] \in Int /\ g[y] \in Int,
         \A y \in S \ {x} : g[y] = f[y]
  PROVE  SumFunctionOnSet(g, S) = SumFunctionOnSet(f, S) + g[x] - f[x]
<1>1. IsFiniteSet(S \ {x})
  BY FS_Subset
<1>2. SumFunctionOnSet(g, S \ {x}) = SumFunctionOnSet(f, S \ {x})
  BY <1>1, SumSame
<1>3. /\ SumFunctionOnSet(f, S) = f[x] + SumFunctionOnSet(f, S \ {x})
      /\ SumFunctionOnSet(g, S) = g[x] + SumFunctionOnSet(g, S \ {x})
  BY SumTake
<1>4. SumFunctionOnSet(f, S \ {x}) \in Int
  BY <1>1, SumType
<1>5. QED
  BY <1>2, <1>3, <1>4

\* Zeros add up to zero.
LEMMA SumZero ==
  ASSUME NEW S, IsFiniteSet(S), NEW f, \A x \in S : f[x] = 0
  PROVE  SumFunctionOnSet(f, S) = 0
<1> DEFINE C == {T \in SUBSET S : SumFunctionOnSet(f, T) = 0}
<1>1. {} \in C
  BY SumEmpty
<1>2. ASSUME NEW T \in SUBSET S, NEW x \in S \ T, T \in C PROVE T \cup {x} \in C
  <2>1. IsFiniteSet(T)
    BY FS_Subset
  <2>2. \A y \in T \cup {x} : f[y] \in Int
    OBVIOUS
  <2>3. SumFunctionOnSet(f, T \cup {x}) = f[x] + SumFunctionOnSet(f, T)
    BY <2>1, <2>2, SumAdd
  <2>4. QED
    BY <1>2, <2>3
<1> HIDE DEF C
<1>3. S \in C
  BY <1>1, <1>2, AddInduction
<1>4. QED
  BY <1>3 DEF C

\* Term by term: the sum of the sums.
LEMMA SumPlus ==
  ASSUME NEW S, IsFiniteSet(S), NEW f, NEW g, NEW h,
         \A x \in S : f[x] \in Int /\ g[x] \in Int /\ h[x] = f[x] + g[x]
  PROVE  SumFunctionOnSet(h, S) = SumFunctionOnSet(f, S) + SumFunctionOnSet(g, S)
<1> DEFINE C == {T \in SUBSET S : SumFunctionOnSet(h, T)
                                   = SumFunctionOnSet(f, T) + SumFunctionOnSet(g, T)}
<1>1. {} \in C
  BY SumEmpty
<1>2. ASSUME NEW T \in SUBSET S, NEW x \in S \ T, T \in C PROVE T \cup {x} \in C
  <2>1. IsFiniteSet(T)
    BY FS_Subset
  <2>2. SumFunctionOnSet(f, T) \in Int /\ SumFunctionOnSet(g, T) \in Int
    BY <2>1, SumType
  <2>3. /\ SumFunctionOnSet(f, T \cup {x}) = f[x] + SumFunctionOnSet(f, T)
        /\ SumFunctionOnSet(g, T \cup {x}) = g[x] + SumFunctionOnSet(g, T)
        /\ SumFunctionOnSet(h, T \cup {x}) = h[x] + SumFunctionOnSet(h, T)
    <3>1. \A y \in T \cup {x} : f[y] \in Int /\ g[y] \in Int /\ h[y] \in Int
      OBVIOUS
    <3>2. QED
      BY <2>1, <3>1, SumAdd
  <2>4. SumFunctionOnSet(h, T)
          = SumFunctionOnSet(f, T) + SumFunctionOnSet(g, T)
    BY <1>2
  <2>5. f[x] \in Int /\ g[x] \in Int /\ h[x] = f[x] + g[x]
    OBVIOUS
  <2>6. SumFunctionOnSet(h, T \cup {x})
          = SumFunctionOnSet(f, T \cup {x}) + SumFunctionOnSet(g, T \cup {x})
    BY <2>2, <2>3, <2>4, <2>5
  <2>7. QED
    BY <2>6
<1> HIDE DEF C
<1>3. S \in C
  BY <1>1, <1>2, AddInduction
<1>4. QED
  BY <1>3 DEF C

\* Term by term: smaller terms, smaller sum.
LEMMA SumMonotone ==
  ASSUME NEW S, IsFiniteSet(S), NEW f, NEW g,
         \A x \in S : f[x] \in Int /\ g[x] \in Int /\ f[x] <= g[x]
  PROVE  SumFunctionOnSet(f, S) <= SumFunctionOnSet(g, S)
<1> DEFINE C == {T \in SUBSET S : SumFunctionOnSet(f, T) <= SumFunctionOnSet(g, T)}
<1>1. {} \in C
  BY SumEmpty
<1>2. ASSUME NEW T \in SUBSET S, NEW x \in S \ T, T \in C PROVE T \cup {x} \in C
  <2>1. IsFiniteSet(T)
    BY FS_Subset
  <2>2. SumFunctionOnSet(f, T) \in Int /\ SumFunctionOnSet(g, T) \in Int
    BY <2>1, SumType
  <2>3. /\ SumFunctionOnSet(f, T \cup {x}) = f[x] + SumFunctionOnSet(f, T)
        /\ SumFunctionOnSet(g, T \cup {x}) = g[x] + SumFunctionOnSet(g, T)
    BY <2>1, SumAdd
  <2>4. SumFunctionOnSet(f, T) <= SumFunctionOnSet(g, T)
    BY <1>2
  <2>5. f[x] \in Int /\ g[x] \in Int /\ f[x] <= g[x]
    OBVIOUS
  <2>6. SumFunctionOnSet(f, T \cup {x}) <= SumFunctionOnSet(g, T \cup {x})
    BY <2>2, <2>3, <2>4, <2>5
  <2>7. QED
    BY <2>6
<1> HIDE DEF C
<1>3. S \in C
  BY <1>1, <1>2, AddInduction
<1>4. QED
  BY <1>3 DEF C

\* A value that was zero is added to the sum.
LEMMA SumOneMore ==
  ASSUME NEW S, IsFiniteSet(S), NEW f \in [S -> Nat], NEW g \in [S -> Nat], NEW x \in S,
         f[x] = 0, \A y \in S \ {x} : g[y] = f[y]
  PROVE  SumFunction(g) = SumFunction(f) + g[x]
<1>1. /\ \A y \in S : f[y] \in Int /\ g[y] \in Int
      /\ g[x] \in Int
  OBVIOUS
<1>2. SumFunctionOnSet(f, S) \in Int
  BY <1>1, SumType
<1>3. SumFunctionOnSet(g, S) = SumFunctionOnSet(f, S) + g[x] - f[x]
  BY <1>1, SumChange
<1>4. SumFunctionOnSet(g, S) = SumFunctionOnSet(f, S) + g[x]
  BY <1>1, <1>2, <1>3
<1>5. QED
  BY <1>4 DEF SumFunction

=============================================================================
