----------------------------- MODULE Folds_proofs -----------------------------
(****************************************************************************)
(* What the folds of the community modules compute, which the calculations  *)
(* of metrics, insights and listings are made of: sums over finite sets.    *)
(* Induction is by the least counterexample.                                *)
(****************************************************************************)
EXTENDS Integers, Sequences, SequencesExt, FiniteSetTheorems, WellFoundedInduction, TLAPS

\* A set of naturals has a least element.
LEMMA LeastNatural ==
  ASSUME NEW T, T \subseteq Nat, T # {}
  PROVE  \E x \in T : \A y \in T : x <= y
  <1>1. PICK x \in T : \A y \in T : <<y, x>> \notin OpToRel(<, Nat)
    BY WFMin, NatLessThanWellFounded
  <1>2. \A y \in T : ~(y < x)
    BY <1>1 DEF OpToRel
  <1>3. QED
    BY <1>2

\* Of subsets of a finite set, one contains no other.
LEMMA SmallestSet ==
  ASSUME NEW S, IsFiniteSet(S), NEW C, C \subseteq SUBSET S, C # {}
  PROVE  \E T \in C : \A U \in C : U \subseteq T => U = T
  <1>1. IsWellFoundedOn(StrictSubsetOrdering(S), SUBSET S)
    BY FS_StrictSubsetOrderingWellFounded, FS_FiniteSubsetsOfFinite
  <1>2. PICK T \in C : \A U \in C : <<U, T>> \notin StrictSubsetOrdering(S)
    BY <1>1, WFMin
  <1>3. ASSUME NEW U \in C, U \subseteq T
        PROVE  U = T
    BY <1>2, <1>3 DEF StrictSubsetOrdering
  <1>4. QED
    BY <1>3

\* What holds of the empty set, and of a set when it does without one of its elements, holds.
LEMMA FiniteInduction ==
  ASSUME NEW S, IsFiniteSet(S), NEW G, {} \in G,
         \A T \in SUBSET S, x \in S : x \in T /\ T \ {x} \in G => T \in G
  PROVE  S \in G
  <1> DEFINE Bad == {T \in SUBSET S : T \notin G}
  <1>1. SUFFICES ASSUME Bad # {} PROVE FALSE
    OBVIOUS
  <1>2. PICK T \in Bad : \A U \in Bad : U \subseteq T => U = T
    <2>1. Bad \subseteq SUBSET S
      OBVIOUS
    <2> HIDE DEF Bad
    <2>2. QED
      BY <1>1, <2>1, SmallestSet
  <1>3. PICK x \in T : TRUE
    BY <1>2
  <1>4. T \ {x} \in G
    BY <1>2
  <1>5. QED
    BY <1>2, <1>3, <1>4

\* The lesser of two.
LEMMA LeastOfTwo ==
  ASSUME NEW a \in Int, NEW b \in Int
  PROVE  Min({a, b}) = IF a <= b THEN a ELSE b
  <1>1. \E x \in {a, b} : \A y \in {a, b} : x <= y
    OBVIOUS
  <1>2. Min({a, b}) \in {a, b} /\ \A y \in {a, b} : Min({a, b}) <= y
    BY <1>1 DEF Min
  <1>3. QED
    BY <1>2

-----------------------------------------------------------------------------
(* A function defined by recursion over the subsets of a finite set, which    *)
(* takes away one element at a time, is there, and there is only one.         *)

Chooses(ch, S) == \A s \in SUBSET S : s # {} => ch[s] \in s

\* The equation for the sets among D.
Follows(it, D, base, ch, step) ==
  it = [s \in D |-> IF s = {} THEN base ELSE step[<<ch[s], it[s \ {ch[s]}]>>]]

UpTo(S, n) == {s \in SUBSET S : Cardinality(s) <= n}

LEMMA FollowsUpTo ==
  ASSUME NEW S, IsFiniteSet(S), NEW V, NEW base \in V, NEW ch, Chooses(ch, S),
         NEW step \in [S \X V -> V], NEW n \in Nat
  PROVE  \E it \in [UpTo(S, n) -> V] : Follows(it, UpTo(S, n), base, ch, step)
  <1> USE DEF UpTo
  <1> DEFINE D(m) == UpTo(S, m)
             Ok(m) == \E it \in [D(m) -> V] : Follows(it, D(m), base, ch, step)
             Bad == {m \in Nat : ~Ok(m)}
  <1>0. \A s \in SUBSET S : IsFiniteSet(s) /\ Cardinality(s) \in Nat
    BY FS_Subset, FS_CardinalityType
  <1>1. SUFFICES ASSUME Bad # {} PROVE FALSE
    OBVIOUS
  <1>2. PICK k \in Bad : \A m \in Bad : k <= m
    BY <1>1, LeastNatural
  <1>3. CASE k = 0
    <2>1. D(k) = {{}}
      BY <1>0, <1>3, FS_EmptySet
    <2> DEFINE it == [s \in {{}} |-> base]
    <2>2. it \in [{{}} -> V] /\ Follows(it, {{}}, base, ch, step)
      BY DEF Follows
    <2>3. QED
      BY <1>2, <2>1, <2>2
  <1>4. CASE k # 0
    <2>1. Ok(k - 1)
      <3>1. k \in Nat /\ k - 1 \in Nat /\ ~(k <= k - 1)
        BY <1>4
      <3> HIDE DEF Ok
      <3>2. QED
        BY <1>2, <3>1
    <2>2. PICK it \in [D(k - 1) -> V] : Follows(it, D(k - 1), base, ch, step)
      BY <2>1
    <2> DEFINE jt == [s \in D(k) |-> IF s = {} THEN base ELSE step[<<ch[s], it[s \ {ch[s]}]>>]]
    <2>3. ASSUME NEW s \in D(k), s # {}
          PROVE  ch[s] \in S /\ s \ {ch[s]} \in D(k - 1) /\ s \ {ch[s]} \in D(k)
      <3>1. ch[s] \in s
        BY <2>3 DEF Chooses
      <3>2. Cardinality(s \ {ch[s]}) = Cardinality(s) - 1
        BY <1>0, <3>1, FS_RemoveElement
      <3>3. QED
        BY <1>0, <3>1, <3>2
    <2>4. \A t \in D(k - 1) : t \in D(k) /\ jt[t] = it[t]
      <3>1. \A t \in D(k - 1) : t \in D(k)
        BY <1>0, <1>2
      <3>2. \A t \in D(k - 1) : it[t] = IF t = {} THEN base ELSE step[<<ch[t], it[t \ {ch[t]}]>>]
        BY <2>2 DEF Follows
      <3>3. QED
        BY <3>1, <3>2
    <2>5. \A s \in D(k) : s # {} => jt[s \ {ch[s]}] = it[s \ {ch[s]}] /\ it[s \ {ch[s]}] \in V
      BY <2>2, <2>3, <2>4
    <2>6. \A s \in D(k) : jt[s] = IF s = {} THEN base ELSE step[<<ch[s], jt[s \ {ch[s]}]>>]
      BY <2>5
    <2>7. \A s \in D(k) : jt[s] \in V
      BY <2>3, <2>5
    <2>8. jt \in [D(k) -> V] /\ jt = [s \in D(k) |-> jt[s]]
      BY <2>7
    <2> HIDE DEF jt
    <2>9. Follows(jt, D(k), base, ch, step)
      BY <2>6, <2>8 DEF Follows
    <2>10. QED
      BY <1>2, <2>8, <2>9
  <1>5. QED
    BY <1>3, <1>4

LEMMA FollowsEverywhere ==
  ASSUME NEW S, IsFiniteSet(S), NEW V, NEW base \in V, NEW ch, Chooses(ch, S),
         NEW step \in [S \X V -> V]
  PROVE  \E it \in [SUBSET S -> V] : Follows(it, SUBSET S, base, ch, step)
  <1>1. Cardinality(S) \in Nat
    BY FS_CardinalityType
  <1>2. UpTo(S, Cardinality(S)) = SUBSET S
    BY FS_Subset DEF UpTo
  <1>3. \E it \in [UpTo(S, Cardinality(S)) -> V] : Follows(it, UpTo(S, Cardinality(S)), base, ch, step)
    BY <1>1, FollowsUpTo
  <1>4. QED
    BY <1>2, <1>3

\* Induction the way such a function takes the elements.
LEMMA InductionBy ==
  ASSUME NEW S, IsFiniteSet(S), NEW ch, Chooses(ch, S), NEW G, {} \in G,
         \A T \in SUBSET S : T # {} /\ T \ {ch[T]} \in G => T \in G
  PROVE  S \in G
  <1> DEFINE Bad == {T \in SUBSET S : T \notin G}
  <1>1. SUFFICES ASSUME Bad # {} PROVE FALSE
    OBVIOUS
  <1>2. PICK T \in Bad : \A U \in Bad : U \subseteq T => U = T
    <2>1. Bad \subseteq SUBSET S
      OBVIOUS
    <2> HIDE DEF Bad
    <2>2. QED
      BY <1>1, <2>1, SmallestSet
  <1>3. T \in SUBSET S /\ T # {} /\ T \notin G
    BY <1>2
  <1>4. ch[T] \in T
    BY <1>3 DEF Chooses
  <1>5. T \ {ch[T]} \in G
    BY <1>2, <1>3, <1>4
  <1>6. QED
    BY <1>3, <1>5

\* Integers, finitely many, have a least and a greatest.
LEMMA Extremes ==
  ASSUME NEW S, IsFiniteSet(S), S # {}, S \subseteq Int
  PROVE  /\ Min(S) \in S /\ \A y \in S : Min(S) <= y
         /\ Max(S) \in S /\ \A y \in S : Max(S) >= y
  <1> DEFINE G == {T \in SUBSET S : T = {} \/ (\E x, z \in T : \A y \in T : x <= y /\ z >= y)}
  <1>1. {} \in G
    OBVIOUS
  <1>2. ASSUME NEW T \in SUBSET S, NEW w \in S, w \in T, T \ {w} \in G
        PROVE  T \in G
    <2>1. CASE T \ {w} = {}
      <3>1. T = {w}
        BY <1>2, <2>1
      <3>2. QED
        BY <3>1
    <2>2. CASE T \ {w} # {}
      <3>1. PICK x \in T \ {w}, z \in T \ {w} : \A y \in T \ {w} : x <= y /\ z >= y
        BY <1>2, <2>2
      <3> DEFINE a == IF x <= w THEN x ELSE w
                 b == IF z >= w THEN z ELSE w
      <3>2. a \in T /\ b \in T /\ \A y \in T : a <= y /\ b >= y
        BY <1>2, <3>1
      <3>3. QED
        BY <3>2
    <2>3. QED
      BY <2>1, <2>2
  <1> HIDE DEF G
  <1>3. S \in G
    BY <1>1, <1>2, FiniteInduction
  <1>4. (\E x \in S : \A y \in S : x <= y) /\ (\E z \in S : \A y \in S : z >= y)
    BY <1>3 DEF G
  <1>5. QED
    BY <1>4 DEF Min, Max

-----------------------------------------------------------------------------
(* Sums.                                                                      *)

\* The element a sum takes first.
First(S) == [s \in SUBSET S |-> CHOOSE x \in s : TRUE]

LEMMA FirstIsIn ==
  ASSUME NEW S
  PROVE  Chooses(First(S), S)
  BY DEF Chooses, First

\* The sum of all subsets.
Summing(it, fun, S) ==
  it = [s \in SUBSET S |-> IF s = {} THEN 0
                            ELSE fun[CHOOSE x \in s : TRUE] + it[s \ {CHOOSE x \in s : TRUE}]]

LEMMA SumIsThere ==
  ASSUME NEW S, IsFiniteSet(S), NEW fun, \A x \in S : fun[x] \in Int
  PROVE  \E it \in [SUBSET S -> Int] : Summing(it, fun, S)
  <1> DEFINE step == [a \in S \X Int |-> fun[a[1]] + a[2]]
  <1>1. step \in [S \X Int -> Int] /\ 0 \in Int
    OBVIOUS
  <1>2. \A x \in S, v \in Int : step[<<x, v>>] = fun[x] + v
    OBVIOUS
  <1> HIDE DEF step
  <1>3. PICK it \in [SUBSET S -> Int] : Follows(it, SUBSET S, 0, First(S), step)
    BY <1>1, FirstIsIn, FollowsEverywhere
  <1>4. \A s \in SUBSET S : it[s] = IF s = {} THEN 0 ELSE step[<<First(S)[s], it[s \ {First(S)[s]}]>>]
    BY <1>3 DEF Follows
  <1>5. ASSUME NEW s \in SUBSET S, s # {}
        PROVE  it[s] = fun[CHOOSE x \in s : TRUE] + it[s \ {CHOOSE x \in s : TRUE}]
    <2>1. First(S)[s] = (CHOOSE x \in s : TRUE) /\ (CHOOSE x \in s : TRUE) \in S
      BY <1>5 DEF First
    <2>2. it[s \ {CHOOSE x \in s : TRUE}] \in Int
      OBVIOUS
    <2>3. QED
      BY <1>2, <1>4, <1>5, <2>1, <2>2
  <1>6. it = [s \in SUBSET S |-> it[s]] /\ it[{}] = 0
    BY <1>4
  <1>7. QED
    BY <1>5, <1>6 DEF Summing

\* There is one such function for each set, of which the sum is the value.
Sums(it, fun, S) ==
  /\ it \in [SUBSET S -> Int] /\ Summing(it, fun, S)
  /\ \A T \in SUBSET S : SumFunctionOnSet(fun, T) = it[T]

LEMMA SumIs ==
  ASSUME NEW S, IsFiniteSet(S), NEW fun, \A x \in S : fun[x] \in Int
  PROVE  \E it : Sums(it, fun, S)
  <1>1. PICK it \in [SUBSET S -> Int] : Summing(it, fun, S)
    BY SumIsThere
  <1>2. ASSUME NEW T \in SUBSET S
        PROVE  SumFunctionOnSet(fun, T) = it[T]
    <2> DEFINE jt == CHOOSE jt : Summing(jt, fun, T)
    <2>1. SumFunctionOnSet(fun, T) = jt[T]
      BY DEF SumFunctionOnSet, FoldFunctionOnSet, MapThenFoldSet, Summing
    <2>2. Summing(jt, fun, T)
      <3>1. IsFiniteSet(T) /\ \A x \in T : fun[x] \in Int
        BY FS_Subset
      <3>2. \E kt : Summing(kt, fun, T)
        BY <3>1, SumIsThere
      <3>3. QED
        BY <3>2
    <2> HIDE DEF jt
    <2> DEFINE Bad == {U \in SUBSET T : it[U] # jt[U]}
    <2>3. SUFFICES ASSUME Bad # {} PROVE FALSE
      BY <2>1
    <2>4. PICK U \in Bad : \A X \in Bad : X \subseteq U => X = U
      <3>1. Bad \subseteq SUBSET S
        OBVIOUS
      <3> HIDE DEF Bad
      <3>2. QED
        BY <2>3, <3>1, SmallestSet
    <2> DEFINE x == CHOOSE x \in U : TRUE
    <2>5. /\ it[U] = IF U = {} THEN 0 ELSE fun[x] + it[U \ {x}]
          /\ jt[U] = IF U = {} THEN 0 ELSE fun[x] + jt[U \ {x}]
      <3>1. U \in SUBSET S /\ U \in SUBSET T
        BY <2>4
      <3>2. it[U] = IF U = {} THEN 0 ELSE fun[x] + it[U \ {x}]
        BY <1>1, <3>1 DEF Summing
      <3>3. jt[U] = IF U = {} THEN 0 ELSE fun[x] + jt[U \ {x}]
        BY <2>2, <3>1 DEF Summing
      <3>4. QED
        BY <3>2, <3>3
    <2>6. U # {} => x \in U
      OBVIOUS
    <2> HIDE DEF x
    <2>7. U # {} => it[U \ {x}] = jt[U \ {x}]
      <3>1. U # {} => U \ {x} \in SUBSET T /\ U \ {x} \subseteq U /\ U \ {x} # U
        BY <2>4, <2>6
      <3>2. QED
        BY <2>4, <3>1
    <2>8. QED
      BY <2>4, <2>5, <2>7
  <1>3. QED
    BY <1>1, <1>2 DEF Sums

\* What a sum adds up to, by any of its elements.
LEMMA SumStep ==
  ASSUME NEW S, IsFiniteSet(S), NEW fun, \A x \in S : fun[x] \in Int
  PROVE  /\ SumFunctionOnSet(fun, {}) = 0 /\ SumFunctionOnSet(fun, S) \in Int
         /\ \A x \in S : SumFunctionOnSet(fun, S) = fun[x] + SumFunctionOnSet(fun, S \ {x})
  <1>0. PICK it : Sums(it, fun, S)
    BY SumIs
  <1>1. /\ it \in [SUBSET S -> Int] /\ Summing(it, fun, S)
        /\ \A T \in SUBSET S : SumFunctionOnSet(fun, T) = it[T]
    BY <1>0 DEF Sums
  <1>2. \A s \in SUBSET S : it[s] = IF s = {} THEN 0
          ELSE fun[CHOOSE x \in s : TRUE] + it[s \ {CHOOSE x \in s : TRUE}]
    BY <1>1 DEF Summing
  <1>3. it[{}] = 0 /\ it[S] \in Int
    <2>1. {} \in SUBSET S /\ S \in SUBSET S
      OBVIOUS
    <2>2. QED
      BY <1>1, <1>2, <2>1
  <1> DEFINE Bad == {s \in SUBSET S : \E x \in s : it[s] # fun[x] + it[s \ {x}]}
  <1>4. Bad = {}
    <2>1. SUFFICES ASSUME Bad # {} PROVE FALSE
      OBVIOUS
    <2>2. PICK s \in Bad : \A t \in Bad : t \subseteq s => t = s
      <3>1. Bad \subseteq SUBSET S
        OBVIOUS
      <3> HIDE DEF Bad
      <3>2. QED
        BY <2>1, <3>1, SmallestSet
    <2>3. PICK x \in s : it[s] # fun[x] + it[s \ {x}]
      BY <2>2
    <2> DEFINE c == CHOOSE c \in s : TRUE
    <2>4. s \in SUBSET S /\ c \in s /\ it[s] = fun[c] + it[s \ {c}]
      BY <1>2, <2>2, <2>3
    <2> HIDE DEF c
    <2>5. c # x
      BY <2>3, <2>4
    <2>6. it[s \ {c}] = fun[x] + it[(s \ {c}) \ {x}]
      <3>1. s \ {c} \notin Bad
        BY <2>2, <2>4
      <3>2. s \ {c} \in SUBSET S /\ x \in s \ {c}
        BY <2>4, <2>5
      <3>3. QED
        BY <3>1, <3>2
    <2>7. it[s \ {x}] = fun[c] + it[(s \ {x}) \ {c}]
      BY <2>2, <2>4, <2>5
    <2>8. (s \ {c}) \ {x} = (s \ {x}) \ {c} /\ it[(s \ {c}) \ {x}] \in Int /\ {fun[c], fun[x]} \subseteq Int
      <3>1. (s \ {c}) \ {x} \in SUBSET S /\ c \in S /\ x \in S
        BY <2>4
      <3>2. it[(s \ {c}) \ {x}] \in Int
        BY <1>1, <3>1
      <3>3. (s \ {c}) \ {x} = (s \ {x}) \ {c}
        OBVIOUS
      <3>4. QED
        BY <3>1, <3>2, <3>3
    <2>9. it[s] = fun[c] + (fun[x] + it[(s \ {c}) \ {x}])
      BY <2>4, <2>6
    <2>10. fun[x] + it[s \ {x}] = fun[x] + (fun[c] + it[(s \ {c}) \ {x}])
      BY <2>7, <2>8
    <2>11. QED
      BY <2>3, <2>8, <2>9, <2>10
  <1>5. \A x \in S : it[S] = fun[x] + it[S \ {x}]
    BY <1>4
  <1>6. QED
    BY <1>1, <1>3, <1>5

LEMMA SumOfNone ==
  ASSUME NEW fun
  PROVE  SumFunctionOnSet(fun, {}) = 0
  BY SumStep, FS_EmptySet

\* Less an element of a subset.
LEMMA SumTakes ==
  ASSUME NEW S, IsFiniteSet(S), NEW fun, \A x \in S : fun[x] \in Int,
         NEW T \in SUBSET S, NEW x \in T
  PROVE  /\ SumFunctionOnSet(fun, T) = fun[x] + SumFunctionOnSet(fun, T \ {x})
         /\ SumFunctionOnSet(fun, T) \in Int /\ SumFunctionOnSet(fun, T \ {x}) \in Int
  <1>1. IsFiniteSet(T) /\ IsFiniteSet(T \ {x})
    BY FS_Subset
  <1>2. (\A y \in T : fun[y] \in Int) /\ (\A y \in T \ {x} : fun[y] \in Int)
    OBVIOUS
  <1>3. QED
    BY <1>1, <1>2, SumStep

\* One more element.
LEMMA SumWith ==
  ASSUME NEW S, IsFiniteSet(S), NEW fun, \A x \in S : fun[x] \in Int, NEW y, y \notin S, fun[y] \in Int
  PROVE  SumFunctionOnSet(fun, S \cup {y}) = SumFunctionOnSet(fun, S) + fun[y]
  <1>1. IsFiniteSet(S \cup {y}) /\ \A x \in S \cup {y} : fun[x] \in Int
    BY FS_AddElement
  <1>2. SumFunctionOnSet(fun, S \cup {y}) = fun[y] + SumFunctionOnSet(fun, (S \cup {y}) \ {y})
    BY <1>1, SumStep
  <1>3. (S \cup {y}) \ {y} = S
    OBVIOUS
  <1>4. SumFunctionOnSet(fun, (S \cup {y}) \ {y}) = SumFunctionOnSet(fun, S)
    BY <1>3
  <1>5. SumFunctionOnSet(fun, S) \in Int
    BY SumStep
  <1>6. QED
    BY <1>2, <1>4, <1>5

\* Sums of what is less, and of what is the same.
LEMMA SumsCompare ==
  ASSUME NEW S, IsFiniteSet(S), NEW f, NEW g,
         \A x \in S : f[x] \in Int /\ g[x] \in Int /\ f[x] <= g[x]
  PROVE  SumFunctionOnSet(f, S) <= SumFunctionOnSet(g, S)
  <1> DEFINE G == {T \in SUBSET S : SumFunctionOnSet(f, T) <= SumFunctionOnSet(g, T)}
  <1>1. {} \in G
    <2>1. SumFunctionOnSet(f, {}) = 0 /\ SumFunctionOnSet(g, {}) = 0
      BY SumOfNone
    <2>2. QED
      BY <2>1
  <1>2. ASSUME NEW T \in SUBSET S, NEW x \in S, x \in T, T \ {x} \in G
        PROVE  T \in G
    <2>1. /\ SumFunctionOnSet(f, T) = f[x] + SumFunctionOnSet(f, T \ {x})
          /\ SumFunctionOnSet(g, T) = g[x] + SumFunctionOnSet(g, T \ {x})
          /\ SumFunctionOnSet(f, T \ {x}) \in Int /\ SumFunctionOnSet(g, T \ {x}) \in Int
      BY <1>2, SumTakes
    <2>2. f[x] \in Int /\ g[x] \in Int /\ f[x] <= g[x] /\ SumFunctionOnSet(f, T \ {x}) <= SumFunctionOnSet(g, T \ {x})
      BY <1>2
    <2>3. SumFunctionOnSet(f, T) <= SumFunctionOnSet(g, T)
      BY <2>1, <2>2
    <2>4. QED
      BY <2>3
  <1> HIDE DEF G
  <1>3. S \in G
    BY <1>1, <1>2, FiniteInduction
  <1>4. QED
    BY <1>3 DEF G

LEMMA SumsAgree ==
  ASSUME NEW S, IsFiniteSet(S), NEW f, NEW g, \A x \in S : f[x] \in Int /\ f[x] = g[x]
  PROVE  SumFunctionOnSet(f, S) = SumFunctionOnSet(g, S)
  <1>1. SumFunctionOnSet(f, S) <= SumFunctionOnSet(g, S) /\ SumFunctionOnSet(g, S) <= SumFunctionOnSet(f, S)
    BY SumsCompare
  <1>2. SumFunctionOnSet(f, S) \in Int /\ SumFunctionOnSet(g, S) \in Int
    BY SumStep
  <1>3. QED
    BY <1>1, <1>2

\* A sum of sums, and one of multiples.
LEMMA SumsAdd ==
  ASSUME NEW S, IsFiniteSet(S), NEW f, NEW g, NEW h,
         \A x \in S : f[x] \in Int /\ g[x] \in Int /\ h[x] = f[x] + g[x]
  PROVE  SumFunctionOnSet(h, S) = SumFunctionOnSet(f, S) + SumFunctionOnSet(g, S)
  <1> DEFINE G == {T \in SUBSET S : SumFunctionOnSet(h, T) = SumFunctionOnSet(f, T) + SumFunctionOnSet(g, T)}
  <1>1. {} \in G
    <2>1. SumFunctionOnSet(f, {}) = 0 /\ SumFunctionOnSet(g, {}) = 0 /\ SumFunctionOnSet(h, {}) = 0
      BY SumOfNone
    <2>2. QED
      BY <2>1
  <1>2. ASSUME NEW T \in SUBSET S, NEW x \in S, x \in T, T \ {x} \in G
        PROVE  T \in G
    <2>1. \A y \in S : h[y] \in Int
      OBVIOUS
    <2>2. /\ SumFunctionOnSet(f, T) = f[x] + SumFunctionOnSet(f, T \ {x})
          /\ SumFunctionOnSet(g, T) = g[x] + SumFunctionOnSet(g, T \ {x})
          /\ SumFunctionOnSet(h, T) = h[x] + SumFunctionOnSet(h, T \ {x})
          /\ SumFunctionOnSet(f, T \ {x}) \in Int /\ SumFunctionOnSet(g, T \ {x}) \in Int
      BY <1>2, <2>1, SumTakes
    <2>3. /\ f[x] \in Int /\ g[x] \in Int /\ h[x] = f[x] + g[x]
          /\ SumFunctionOnSet(h, T \ {x}) = SumFunctionOnSet(f, T \ {x}) + SumFunctionOnSet(g, T \ {x})
      BY <1>2
    <2>4. SumFunctionOnSet(h, T) = SumFunctionOnSet(f, T) + SumFunctionOnSet(g, T)
      BY <2>2, <2>3
    <2>5. QED
      BY <2>4
  <1> HIDE DEF G
  <1>3. S \in G
    BY <1>1, <1>2, FiniteInduction
  <1>4. QED
    BY <1>3 DEF G

LEMMA SumsTimes ==
  ASSUME NEW S, IsFiniteSet(S), NEW k \in Int, NEW f, NEW g,
         \A x \in S : f[x] \in Int /\ g[x] = k * f[x]
  PROVE  SumFunctionOnSet(g, S) = k * SumFunctionOnSet(f, S)
  <1> DEFINE G == {T \in SUBSET S : SumFunctionOnSet(g, T) = k * SumFunctionOnSet(f, T)}
  <1>1. {} \in G
    <2>1. SumFunctionOnSet(f, {}) = 0 /\ SumFunctionOnSet(g, {}) = 0 /\ k * 0 = 0
      BY SumOfNone
    <2>2. QED
      BY <2>1
  <1>2. ASSUME NEW T \in SUBSET S, NEW x \in S, x \in T, T \ {x} \in G
        PROVE  T \in G
    <2>1. (\A y \in S : f[y] \in Int) /\ (\A y \in S : g[y] \in Int)
      OBVIOUS
    <2>8. IsFiniteSet(S) /\ T \in SUBSET S /\ x \in T
      BY <1>2
    <2>2. SumFunctionOnSet(f, T) = f[x] + SumFunctionOnSet(f, T \ {x}) /\ SumFunctionOnSet(f, T \ {x}) \in Int
      BY ONLY <2>1, <2>8, SumTakes
    <2>7. SumFunctionOnSet(g, T) = g[x] + SumFunctionOnSet(g, T \ {x})
      BY ONLY <2>1, <2>8, SumTakes
    <2>3. /\ f[x] \in Int /\ g[x] = k * f[x]
          /\ SumFunctionOnSet(g, T \ {x}) = k * SumFunctionOnSet(f, T \ {x})
      BY <1>2
    <2>4. \A a, b \in Int : k * (a + b) = k * a + k * b
      OBVIOUS
    <2>5. SumFunctionOnSet(g, T) = k * SumFunctionOnSet(f, T)
      BY <2>2, <2>3, <2>4, <2>7
    <2>6. QED
      BY <2>5
  <1> HIDE DEF G
  <1>3. S \in G
    BY <1>1, <1>2, FiniteInduction
  <1>4. QED
    BY <1>3 DEF G

\* Ones add up to how many there are.
LEMMA SumOfOnes ==
  ASSUME NEW S, IsFiniteSet(S), NEW X \in SUBSET S, NEW f,
         \A x \in S : f[x] = IF x \in X THEN 1 ELSE 0
  PROVE  SumFunctionOnSet(f, S) = Cardinality(X)
  <1> DEFINE G == {T \in SUBSET S : SumFunctionOnSet(f, T) = Cardinality(X \cap T)}
  <1>1. {} \in G
    <2>1. SumFunctionOnSet(f, {}) = 0 /\ X \cap {} = {} /\ Cardinality({}) = 0
      BY SumOfNone, FS_EmptySet
    <2>2. QED
      BY <2>1
  <1>2. ASSUME NEW T \in SUBSET S, NEW x \in S, x \in T, T \ {x} \in G
        PROVE  T \in G
    <2>1. \A y \in S : f[y] \in Int
      OBVIOUS
    <2>2. SumFunctionOnSet(f, T) = f[x] + SumFunctionOnSet(f, T \ {x})
      BY <1>2, <2>1, SumTakes
    <2>3. SumFunctionOnSet(f, T \ {x}) = Cardinality(X \cap (T \ {x}))
      BY <1>2
    <2>4. IsFiniteSet(X \cap T)
      BY FS_Subset
    <2>5. X \cap (T \ {x}) = (X \cap T) \ {x}
      OBVIOUS
    <2>6. Cardinality((X \cap T) \ {x}) = (IF x \in X THEN Cardinality(X \cap T) - 1 ELSE Cardinality(X \cap T))
      BY <1>2, <2>4, FS_RemoveElement
    <2>7. Cardinality(X \cap T) \in Int
      BY <2>4, FS_CardinalityType
    <2>8. SumFunctionOnSet(f, T \ {x}) = Cardinality((X \cap T) \ {x})
      BY <2>3, <2>5
    <2>9. f[x] = IF x \in X THEN 1 ELSE 0
      OBVIOUS
    <2>10. SumFunctionOnSet(f, T) = Cardinality(X \cap T)
      BY <2>2, <2>6, <2>7, <2>8, <2>9
    <2>11. QED
      BY <2>10
  <1> HIDE DEF G
  <1>3. S \in G
    BY <1>1, <1>2, FiniteInduction
  <1>4. X \cap S = X
    OBVIOUS
  <1>5. QED
    BY <1>3, <1>4 DEF G

\* A sum less one element of its set.
LEMMA SumSteps ==
  ASSUME NEW S, IsFiniteSet(S), NEW f, \A x \in S : f[x] \in Int, NEW x \in S
  PROVE  /\ SumFunctionOnSet(f, S) = f[x] + SumFunctionOnSet(f, S \ {x})
         /\ SumFunctionOnSet(f, S) \in Int /\ SumFunctionOnSet(f, S \ {x}) \in Int
  BY SumTakes

\* Where one value changes, the sum changes by as much.
LEMMA SumsDiffer ==
  ASSUME NEW S, IsFiniteSet(S), NEW f, NEW g, \A x \in S : f[x] \in Int /\ g[x] \in Int,
         NEW x \in S, \A y \in S : y # x => g[y] = f[y]
  PROVE  SumFunctionOnSet(g, S) - g[x] = SumFunctionOnSet(f, S) - f[x]
  <1>1. IsFiniteSet(S \ {x}) /\ \A y \in S \ {x} : g[y] \in Int /\ g[y] = f[y]
    BY FS_RemoveElement
  <1>2. SumFunctionOnSet(g, S \ {x}) = SumFunctionOnSet(f, S \ {x})
    BY <1>1, SumsAgree
  <1>3. /\ SumFunctionOnSet(f, S) = f[x] + SumFunctionOnSet(f, S \ {x})
        /\ SumFunctionOnSet(f, S \ {x}) \in Int
    BY SumSteps
  <1>4. SumFunctionOnSet(g, S) = g[x] + SumFunctionOnSet(g, S \ {x})
    BY SumSteps
  <1>5. f[x] \in Int /\ g[x] \in Int
    OBVIOUS
  <1>6. QED
    BY <1>2, <1>3, <1>4, <1>5

\* A part of a set.
PartOf(S, part, t) == {x \in S : part[x] = t}
SumsOfParts(f, S, part, T) == [t \in T |-> SumFunctionOnSet(f, PartOf(S, part, t))]

\* The sums of the parts of a set add up to its sum.
LEMMA PartsAddUp ==
  ASSUME NEW S, IsFiniteSet(S), NEW f, \A x \in S : f[x] \in Int,
         NEW T, IsFiniteSet(T), NEW part, \A x \in S : part[x] \in T
  PROVE  SumFunctionOnSet(SumsOfParts(f, S, part, T), T) = SumFunctionOnSet(f, S)
  <1> DEFINE of(U) == SumsOfParts(f, U, part, T)
             G == {U \in SUBSET S : SumFunctionOnSet(of(U), T) = SumFunctionOnSet(f, U)}
  <1>0. \A U \in SUBSET S : \A t \in T : of(U)[t] = SumFunctionOnSet(f, PartOf(U, part, t))
    BY DEF SumsOfParts
  <1>7. \A U \in SUBSET S : \A t \in T :
          IsFiniteSet(PartOf(U, part, t)) /\ (\A x \in PartOf(U, part, t) : f[x] \in Int) /\ IsFiniteSet(U)
    BY FS_Subset DEF PartOf
  <1>8. ASSUME NEW U \in SUBSET S, NEW t \in T
        PROVE  of(U)[t] \in Int
    <2> DEFINE W == PartOf(U, part, t)
    <2>1. IsFiniteSet(W) /\ (\A x \in W : f[x] \in Int) /\ of(U)[t] = SumFunctionOnSet(f, W)
      BY <1>0, <1>7
    <2> HIDE DEF W
    <2>2. SumFunctionOnSet(f, W) \in Int
      BY ONLY <2>1, SumStep
    <2>3. QED
      BY <2>1, <2>2
  <1> HIDE DEF of
  <1>1. {} \in G
    <2>1. \A t \in T : PartOf({}, part, t) = {}
      BY DEF PartOf
    <2> DEFINE z == [t \in T |-> 0]
    <2>2. \A t \in T : of({})[t] \in Int /\ of({})[t] = 0
      BY <1>0, <2>1, SumOfNone
    <2>3. \A t \in T : z[t] = IF t \in {} THEN 1 ELSE 0
      OBVIOUS
    <2> HIDE DEF z
    <2>4. SumFunctionOnSet(z, T) = Cardinality({})
      BY <2>3, SumOfOnes
    <2>5. SumFunctionOnSet(of({}), T) = SumFunctionOnSet(z, T)
      BY <2>2, <2>3, SumsAgree
    <2>6. SumFunctionOnSet(of({}), T) = 0 /\ SumFunctionOnSet(f, {}) = 0
      BY <2>4, <2>5, SumOfNone, FS_EmptySet
    <2>7. QED
      BY <2>6
  <1>2. ASSUME NEW U \in SUBSET S, NEW x \in S, x \in U, U \ {x} \in G
        PROVE  U \in G
    <2> DEFINE V == U \ {x}
               t == part[x]
    <2>1. t \in T /\ V \in SUBSET S
      OBVIOUS
    <2>2. \A s \in T : s # t => PartOf(U, part, s) = PartOf(V, part, s)
      BY DEF PartOf
    <2>3. PartOf(V, part, t) = PartOf(U, part, t) \ {x} /\ x \in PartOf(U, part, t)
      BY <1>2 DEF PartOf
    <2>4. SumFunctionOnSet(f, V) = SumFunctionOnSet(of(V), T)
      BY <1>2
    <2> HIDE DEF V, t
    <2>5. \A s \in T : s # t => of(U)[s] = of(V)[s]
      BY <1>0, <2>1, <2>2
    <2>6. of(U)[t] = f[x] + of(V)[t]
      <3> DEFINE W == PartOf(U, part, t)
      <3>1. IsFiniteSet(W) /\ (\A y \in W : f[y] \in Int) /\ x \in W
        BY <1>7, <2>1, <2>3
      <3>2. of(U)[t] = SumFunctionOnSet(f, W) /\ of(V)[t] = SumFunctionOnSet(f, W \ {x})
        BY <1>0, <2>1, <2>3
      <3> HIDE DEF W
      <3>3. QED
        BY ONLY <3>1, <3>2, SumSteps
    <2>7. \A s \in T : of(V)[s] \in Int /\ of(U)[s] \in Int
      BY <1>8, <2>1
    <2>8. SumFunctionOnSet(of(U), T) - of(U)[t] = SumFunctionOnSet(of(V), T) - of(V)[t]
      <3> DEFINE h == of(U)  k == of(V)
      <3>1. (\A s \in T : k[s] \in Int /\ h[s] \in Int) /\ (\A s \in T : s # t => h[s] = k[s])
        BY <2>5, <2>7
      <3> HIDE DEF h, k
      <3>2. IsFiniteSet(T) /\ t \in T
        BY <2>1
      <3>3. SumFunctionOnSet(h, T) - h[t] = SumFunctionOnSet(k, T) - k[t]
        BY ONLY <3>1, <3>2, SumsDiffer
      <3>4. QED
        BY <3>3 DEF h, k
    <2>9. /\ SumFunctionOnSet(of(U), T) \in Int /\ SumFunctionOnSet(of(V), T) \in Int
          /\ of(V)[t] \in Int /\ of(U)[t] \in Int
      BY <2>1, <2>7, SumStep
    <2>10. SumFunctionOnSet(f, U) = f[x] + SumFunctionOnSet(f, V)
      <3>1. IsFiniteSet(U) /\ \A y \in U : f[y] \in Int
        BY FS_Subset
      <3>2. QED
        BY <1>2, <3>1, SumSteps DEF V
    <2>11. f[x] \in Int
      OBVIOUS
    <2>12. SumFunctionOnSet(of(U), T) = SumFunctionOnSet(f, U)
      BY <2>4, <2>6, <2>8, <2>9, <2>10, <2>11
    <2>13. QED
      BY <2>12
  <1> HIDE DEF G
  <1>3. S \in G
    BY <1>1, <1>2, FiniteInduction
  <1>4. QED
    BY <1>3 DEF G, of

\* So do their cardinalities.
LEMMA PartsCountUp ==
  ASSUME NEW S, IsFiniteSet(S), NEW T, IsFiniteSet(T), NEW part, \A x \in S : part[x] \in T,
         NEW count, \A t \in T : count[t] = Cardinality(PartOf(S, part, t))
  PROVE  SumFunctionOnSet(count, T) = Cardinality(S)
  <1> DEFINE one == [x \in S |-> 1]
             of == SumsOfParts(one, S, part, T)
  <1>1. \A x \in S : one[x] \in Int /\ one[x] = 1
    OBVIOUS
  <1> HIDE DEF one
  <1>2. \A U \in SUBSET S : SumFunctionOnSet(one, U) = Cardinality(U)
    <2>1. SUFFICES ASSUME NEW U \in SUBSET S PROVE SumFunctionOnSet(one, U) = Cardinality(U)
      OBVIOUS
    <2>2. IsFiniteSet(U) /\ \A x \in U : one[x] = IF x \in U THEN 1 ELSE 0
      BY <1>1, FS_Subset
    <2>3. QED
      BY <2>2, SumOfOnes
  <1>3. \A t \in T : of[t] = Cardinality(PartOf(S, part, t)) /\ of[t] \in Int
    <2>1. SUFFICES ASSUME NEW t \in T PROVE of[t] = Cardinality(PartOf(S, part, t)) /\ of[t] \in Int
      OBVIOUS
    <2>2. PartOf(S, part, t) \in SUBSET S
      BY DEF PartOf
    <2>3. of[t] = Cardinality(PartOf(S, part, t))
      BY <1>2, <2>2 DEF SumsOfParts
    <2>4. QED
      BY <2>2, <2>3, FS_Subset, FS_CardinalityType
  <1>4. SumFunctionOnSet(of, T) = SumFunctionOnSet(one, S)
    BY <1>1, PartsAddUp
  <1> HIDE DEF of
  <1>5. SumFunctionOnSet(of, T) = SumFunctionOnSet(count, T)
    BY <1>3, SumsAgree
  <1>6. QED
    BY <1>2, <1>4, <1>5

\* A subset has no greater sum.
LEMMA SumOfSubset ==
  ASSUME NEW S, IsFiniteSet(S), NEW f, \A x \in S : f[x] \in Nat, NEW T \in SUBSET S
  PROVE  SumFunctionOnSet(f, T) <= SumFunctionOnSet(f, S) /\ SumFunctionOnSet(f, T) \in Nat
  <1> DEFINE h == [x \in S |-> IF x \in T THEN f[x] ELSE 0]
             part == [x \in S |-> x \in T]
             z == [x \in S |-> 0]
  <1>1. \A x \in S : h[x] \in Int /\ f[x] \in Int /\ h[x] <= f[x]
    OBVIOUS
  <1>2. SumFunctionOnSet(h, S) <= SumFunctionOnSet(f, S)
    BY <1>1, SumsCompare
  <1>3. SumFunctionOnSet(h, S) = SumFunctionOnSet(f, T)
    <2> DEFINE G == {U \in SUBSET S : SumFunctionOnSet(h, U) = SumFunctionOnSet(f, T \cap U)}
    <2>1. {} \in G
      <3>1. SumFunctionOnSet(h, {}) = 0 /\ SumFunctionOnSet(f, {}) = 0 /\ T \cap {} = {}
        BY SumOfNone
      <3>2. QED
        BY <3>1
    <2>2. ASSUME NEW U \in SUBSET S, NEW x \in S, x \in U, U \ {x} \in G
          PROVE  U \in G
      <3>1. /\ SumFunctionOnSet(h, U) = h[x] + SumFunctionOnSet(h, U \ {x})
            /\ SumFunctionOnSet(h, U) \in Int /\ SumFunctionOnSet(h, U \ {x}) \in Int
        BY <1>1, <2>2, SumTakes
      <3>2. SumFunctionOnSet(h, U \ {x}) = SumFunctionOnSet(f, T \cap (U \ {x}))
        BY <2>2
      <3>3. CASE x \in T
        <4>1. T \cap (U \ {x}) = (T \cap U) \ {x} /\ x \in T \cap U /\ T \cap U \in SUBSET S
          BY <2>2, <3>3
        <4>2. SumFunctionOnSet(f, T \cap U) = f[x] + SumFunctionOnSet(f, (T \cap U) \ {x})
          BY <1>1, <4>1, SumTakes
        <4>3. h[x] = f[x]
          BY <3>3
        <4>4. SumFunctionOnSet(h, U) = SumFunctionOnSet(f, T \cap U)
          BY <3>1, <3>2, <4>1, <4>2, <4>3
        <4>5. QED
          BY <4>4
      <3>4. CASE x \notin T
        <4>1. T \cap (U \ {x}) = T \cap U /\ h[x] = 0
          BY <3>4
        <4>2. SumFunctionOnSet(f, T \cap (U \ {x})) = SumFunctionOnSet(f, T \cap U)
          BY <4>1
        <4>4. SumFunctionOnSet(h, U) = SumFunctionOnSet(f, T \cap U)
          BY <3>1, <3>2, <4>1, <4>2
        <4>5. QED
          BY <4>4
      <3>5. QED
        BY <3>3, <3>4
    <2> HIDE DEF G
    <2>3. S \in G
      BY <2>1, <2>2, FiniteInduction
    <2>4. T \cap S = T
      OBVIOUS
    <2>5. QED
      BY <2>3, <2>4 DEF G
  <1>4. SumFunctionOnSet(f, T) \in Nat
    <2>1. IsFiniteSet(T) /\ \A x \in T : z[x] \in Int /\ f[x] \in Int /\ z[x] <= f[x]
      BY FS_Subset
    <2>2. SumFunctionOnSet(z, T) <= SumFunctionOnSet(f, T)
      BY <2>1, SumsCompare
    <2>3. \A x \in T : z[x] = IF x \in {} THEN 1 ELSE 0
      OBVIOUS
    <2> HIDE DEF z
    <2>4. SumFunctionOnSet(z, T) = Cardinality({})
      BY <2>1, <2>3, SumOfOnes
    <2>5. SumFunctionOnSet(f, T) \in Int
      BY <2>1, SumStep
    <2>6. QED
      BY <2>2, <2>4, <2>5, FS_EmptySet
  <1>5. QED
    BY <1>2, <1>3, <1>4
===============================================================================
