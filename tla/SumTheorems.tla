----------------------------- MODULE SumTheorems -----------------------------
(***************************************************************************)
(* What SumFunctionOnSet computes, for every function and every finite set:  *)
(* the facts about SQL's sum() that the proofs about the Gold models need.   *)
(*                                                                         *)
(* A sum is a fold, that is a recursive function on the subsets of a set.    *)
(* Induction is by a least counterexample: a non-empty set of finite sets    *)
(* has a member with no proper subset in it (WFMin), and the set of those    *)
(* for which a claim is false is a set like any other.                      *)
(***************************************************************************)
EXTENDS Integers, FiniteSets, Functions, FiniteSetTheorems, TLAPS

-----------------------------------------------------------------------------
(* Induction over finite sets. *)

\* Among finite sets there is one that contains no other of them.
LEMMA MinimalFiniteSet ==
  ASSUME NEW U, NEW Bad \in SUBSET SUBSET U, Bad # {},
         \A T \in Bad : IsFiniteSet(T)
  PROVE  \E T \in Bad : \A R \in Bad : R \subseteq T => R = T
<1>1. IsWellFoundedOn(StrictSubsetOrdering(U), FiniteSubsetsOf(U))
      BY FS_StrictSubsetOrderingWellFounded
<1>2. Bad \subseteq FiniteSubsetsOf(U) BY DEF FiniteSubsetsOf
<1>3. PICK T \in Bad : \A R \in Bad : ~(<<R, T>> \in StrictSubsetOrdering(U))
      BY <1>1, <1>2, WFMin
<1> QED BY <1>3 DEF StrictSubsetOrdering

\* What holds of the empty set and survives one more element holds of S; the
\* subsets it holds of are given as a set.
LEMMA SubsetInduction ==
  ASSUME NEW S, IsFiniteSet(S), NEW Good, {} \in Good,
         \A T \in SUBSET S : \A x \in S \ T : T \in Good => T \cup {x} \in Good
  PROVE  S \in Good
<1> SUFFICES ASSUME S \notin Good PROVE FALSE OBVIOUS
<1> DEFINE Bad == {T \in SUBSET S : T \notin Good}
<1>1. \A T \in Bad : IsFiniteSet(T) BY FS_Subset
<1>2. Bad \in SUBSET SUBSET S /\ Bad # {} OBVIOUS
<1>3. PICK T \in Bad : \A R \in Bad : R \subseteq T => R = T
  <2> HIDE DEF Bad
  <2> QED BY ONLY <1>1, <1>2, MinimalFiniteSet
<1>4. PICK x \in T : TRUE OBVIOUS
<1>5. T \ {x} \in Good BY <1>3, <1>4
<1>6. (T \ {x}) \cup {x} \in Good BY <1>4, <1>5
<1>7. (T \ {x}) \cup {x} = T BY <1>4
<1> QED BY <1>6, <1>7

-----------------------------------------------------------------------------
(* The recursion of the fold has one solution. *)

Pick(s) == CHOOSE x \in s : TRUE

Step(f, it, s) == IF s = {} THEN 0 ELSE f[Pick(s)] + it[s \ {Pick(s)}]

Solves(f, it, A) == it = [s \in SUBSET A |-> Step(f, it, s)]

\* Two solutions, over whatever sets, agree where both are defined.
LEMMA SolutionsAgree ==
  ASSUME NEW f, NEW A, NEW B, NEW it, NEW jt, Solves(f, it, A), Solves(f, jt, B),
         NEW S, IsFiniteSet(S), S \subseteq A, S \subseteq B
  PROVE  it[S] = jt[S]
<1> SUFFICES ASSUME it[S] # jt[S] PROVE FALSE OBVIOUS
<1> DEFINE Bad == {T \in SUBSET S : it[T] # jt[T]}
<1>1. \A T \in Bad : IsFiniteSet(T) BY FS_Subset
<1>2. Bad \in SUBSET SUBSET S /\ Bad # {} OBVIOUS
<1>3. PICK T \in Bad : \A R \in Bad : R \subseteq T => R = T
  <2> HIDE DEF Bad
  <2> QED BY <1>1, <1>2, MinimalFiniteSet
<1>4. it[T] = Step(f, it, T) /\ jt[T] = Step(f, jt, T) BY DEF Solves
<1>5. T # {} BY <1>4 DEF Step
<1>6. Pick(T) \in T BY <1>5 DEF Pick
<1>7. it[T \ {Pick(T)}] = jt[T \ {Pick(T)}] BY <1>3, <1>6
<1> QED BY <1>4, <1>7 DEF Step

\* The solution over a set without one, and a finite set has one.
LEMMA SolutionExists ==
  ASSUME NEW f, NEW S, IsFiniteSet(S)
  PROVE  \E it : Solves(f, it, S)
<1> SUFFICES ASSUME ~ \E it : Solves(f, it, S) PROVE FALSE OBVIOUS
<1> DEFINE Bad == {T \in SUBSET S : ~ \E it : Solves(f, it, T)}
           F(s) == CHOOSE it : Solves(f, it, s)
<1>1. \A T \in SUBSET S : IsFiniteSet(T) BY FS_Subset
<1>2. Bad \in SUBSET SUBSET S /\ Bad # {} OBVIOUS
<1>3. PICK T \in Bad : \A R \in Bad : R \subseteq T => R = T
  <2> HIDE DEF Bad
  <2> QED BY <1>1, <1>2, MinimalFiniteSet
<1>4. \A s \in SUBSET T : s # T => Solves(f, F(s), s) BY <1>3
<1> DEFINE value(s) == IF s = {} THEN 0 ELSE f[Pick(s)] + F(s \ {Pick(s)})[s \ {Pick(s)}]
           it == [s \in SUBSET T |-> value(s)]
<1>5. ASSUME NEW s \in SUBSET T, s # T PROVE it[s] = F(s)[s]
  <2>1. Solves(f, F(s), s) BY <1>4, <1>5
  <2>2. F(s)[s] = Step(f, F(s), s) BY <2>1 DEF Solves
  <2>3. CASE s = {} BY <2>2, <2>3 DEF Step
  <2>4. CASE s # {}
    <3> DEFINE r == s \ {Pick(s)}
    <3>1. Pick(s) \in s BY <2>4 DEF Pick
    <3>2. Solves(f, F(r), r) BY <1>4, <1>5, <3>1
    <3>3. F(s)[r] = F(r)[r] BY <1>1, <2>1, <3>2, SolutionsAgree
    <3>4. F(s)[s] = f[Pick(s)] + F(s)[r] BY <2>2, <2>4 DEF Step
    <3> QED BY <2>4, <3>3, <3>4
  <2> QED BY <2>3, <2>4
<1>6. ASSUME NEW s \in SUBSET T PROVE it[s] = Step(f, it, s)
  <2>1. CASE s = {} BY <2>1 DEF Step
  <2>2. CASE s # {}
    <3> DEFINE r == s \ {Pick(s)}
    <3>1. Pick(s) \in s BY <2>2 DEF Pick
    <3>2. it[r] = F(r)[r] BY <1>5, <3>1
    <3> QED BY <2>2, <3>2 DEF Step
  <2> QED BY <2>1, <2>2
<1>7. Solves(f, it, T) BY <1>6 DEF Solves
<1> QED BY <1>3, <1>7

\* The definition of the fold, with the library's operators expanded.
LEMMA FoldIsChosen ==
  ASSUME NEW f, NEW S
  PROVE  SumFunctionOnSet(f, S) = (CHOOSE it : Solves(f, it, S))[S]
BY DEF SumFunctionOnSet, FoldFunctionOnSet, MapThenFoldSet, Solves, Step, Pick

\* A sum takes some element out and adds up the others.
LEMMA SumUnfolds ==
  ASSUME NEW f, NEW S, IsFiniteSet(S)
  PROVE  SumFunctionOnSet(f, S)
           = IF S = {} THEN 0
             ELSE f[Pick(S)] + SumFunctionOnSet(f, S \ {Pick(S)})
<1> DEFINE F(s) == CHOOSE it : Solves(f, it, s)
           r == S \ {Pick(S)}
<1>1. IsFiniteSet(r) BY FS_Subset
<1>2. Solves(f, F(S), S) /\ Solves(f, F(r), r) BY <1>1, SolutionExists
<1>3. F(S)[r] = F(r)[r] BY <1>1, <1>2, SolutionsAgree
<1>4. F(S)[S] = Step(f, F(S), S) BY <1>2 DEF Solves
<1>5. SumFunctionOnSet(f, S) = F(S)[S] /\ SumFunctionOnSet(f, r) = F(r)[r]
      BY FoldIsChosen
<1> QED BY <1>3, <1>4, <1>5 DEF Step

-----------------------------------------------------------------------------
(* Laws of sums. *)

\* The sum over no elements.
LEMMA SumOfNone == \A f : SumFunctionOnSet(f, {}) = 0
BY SumUnfolds, FS_EmptySet

\* Sums of integers are integers.
LEMMA SumIsInt ==
  ASSUME NEW S, IsFiniteSet(S), NEW f, \A x \in S : f[x] \in Int
  PROVE  SumFunctionOnSet(f, S) \in Int
<1> SUFFICES ASSUME SumFunctionOnSet(f, S) \notin Int PROVE FALSE OBVIOUS
<1> DEFINE Bad == {T \in SUBSET S : SumFunctionOnSet(f, T) \notin Int}
<1>1. \A T \in Bad : IsFiniteSet(T) BY FS_Subset
<1>2. Bad \in SUBSET SUBSET S /\ Bad # {} OBVIOUS
<1>3. PICK T \in Bad : \A R \in Bad : R \subseteq T => R = T
  <2> HIDE DEF Bad
  <2> QED BY ONLY <1>1, <1>2, MinimalFiniteSet
<1>4. T # {} BY SumOfNone
<1>5. Pick(T) \in T BY <1>4 DEF Pick
<1>6. SumFunctionOnSet(f, T) = f[Pick(T)] + SumFunctionOnSet(f, T \ {Pick(T)})
      BY <1>1, <1>4, SumUnfolds
<1>7. SumFunctionOnSet(f, T \ {Pick(T)}) \in Int BY <1>3, <1>5
<1> QED BY <1>5, <1>6, <1>7

\* Whichever element the fold takes first: + is commutative.
THEOREM SumTakesOut ==
  ASSUME NEW S, IsFiniteSet(S), NEW f, \A x \in S : f[x] \in Int, NEW x \in S
  PROVE  SumFunctionOnSet(f, S) = f[x] + SumFunctionOnSet(f, S \ {x})
<1> DEFINE Total(T) == SumFunctionOnSet(f, T)
           Bad == {T \in SUBSET S : \E y \in T : Total(T) # f[y] + Total(T \ {y})}
<1> SUFFICES ASSUME Bad # {} PROVE FALSE OBVIOUS
<1>1. \A T \in SUBSET S : IsFiniteSet(T) /\ Total(T) \in Int BY FS_Subset, SumIsInt
<1>2. Bad \in SUBSET SUBSET S /\ \A T \in Bad : IsFiniteSet(T) BY <1>1
<1>3. PICK T \in Bad : \A R \in Bad : R \subseteq T => R = T
  <2> HIDE DEF Bad
  <2>1. Bad # {} OBVIOUS
  <2> QED BY ONLY <1>2, <2>1, MinimalFiniteSet
<1>4. PICK y \in T : Total(T) # f[y] + Total(T \ {y}) OBVIOUS
<1> DEFINE c == Pick(T)
<1>5. c \in T BY <1>4 DEF Pick
<1>6. Total(T) = f[c] + Total(T \ {c}) BY <1>1, <1>4, SumUnfolds
<1>7. c # y BY <1>4, <1>6
<1>8. T \ {c} \notin Bad /\ T \ {y} \notin Bad BY <1>3, <1>4, <1>5
<1>9. Total(T \ {c}) = f[y] + Total((T \ {c}) \ {y}) BY <1>4, <1>7, <1>8
<1>10. Total(T \ {y}) = f[c] + Total((T \ {y}) \ {c}) BY <1>5, <1>7, <1>8
<1>11. (T \ {c}) \ {y} = (T \ {y}) \ {c} OBVIOUS
<1>12. f[c] \in Int /\ f[y] \in Int /\ Total((T \ {c}) \ {y}) \in Int
       BY <1>1, <1>4, <1>5
<1>13. f[c] + (f[y] + Total((T \ {c}) \ {y})) = f[y] + (f[c] + Total((T \ {c}) \ {y}))
       BY <1>12
<1>14. Total(T) = f[y] + Total(T \ {y}) BY <1>6, <1>9, <1>10, <1>11, <1>13
<1> QED BY <1>4, <1>14

\* One more element adds its value.
LEMMA SumAdds ==
  ASSUME NEW S, IsFiniteSet(S), NEW f, NEW x, x \notin S,
         \A y \in S \cup {x} : f[y] \in Int
  PROVE  SumFunctionOnSet(f, S \cup {x}) = f[x] + SumFunctionOnSet(f, S)
<1>1. IsFiniteSet(S \cup {x}) BY FS_AddElement
<1>2. (S \cup {x}) \ {x} = S OBVIOUS
<1> QED BY <1>1, <1>2, SumTakesOut

\* A sum depends on the values at the elements of its set only.
LEMMA SumOfEquals ==
  ASSUME NEW S, IsFiniteSet(S), NEW f, NEW g,
         \A x \in S : f[x] = g[x] /\ f[x] \in Int
  PROVE  SumFunctionOnSet(f, S) = SumFunctionOnSet(g, S)
<1> DEFINE Good == {T \in SUBSET S : SumFunctionOnSet(f, T) = SumFunctionOnSet(g, T)}
<1>1. {} \in Good BY SumOfNone
<1>2. ASSUME NEW T \in SUBSET S, NEW x \in S \ T, T \in Good PROVE T \cup {x} \in Good
  <2>1. IsFiniteSet(T) BY FS_Subset
  <2>2. SumFunctionOnSet(f, T \cup {x}) = f[x] + SumFunctionOnSet(f, T)
        BY <2>1, SumAdds
  <2>3. SumFunctionOnSet(g, T \cup {x}) = g[x] + SumFunctionOnSet(g, T)
        BY <2>1, SumAdds
  <2> QED BY <1>2, <2>2, <2>3
<1>3. S \in Good
  <2> HIDE DEF Good
  <2> QED BY <1>1, <1>2, SubsetInduction
<1> QED BY <1>3

\* Sums of naturals are naturals.
LEMMA SumIsNat ==
  ASSUME NEW S, IsFiniteSet(S), NEW f, \A x \in S : f[x] \in Nat
  PROVE  SumFunctionOnSet(f, S) \in Nat
<1> DEFINE Good == {T \in SUBSET S : SumFunctionOnSet(f, T) \in Nat}
<1>1. {} \in Good BY SumOfNone
<1>2. ASSUME NEW T \in SUBSET S, NEW x \in S \ T, T \in Good PROVE T \cup {x} \in Good
  <2>0. \A y \in T \cup {x} : f[y] \in Int OBVIOUS
  <2>1. IsFiniteSet(T) BY FS_Subset
  <2>2. SumFunctionOnSet(f, T \cup {x}) = f[x] + SumFunctionOnSet(f, T)
        BY <2>0, <2>1, SumAdds
  <2> QED BY <1>2, <2>2
<1>3. S \in Good
  <2> HIDE DEF Good
  <2> QED BY <1>1, <1>2, SubsetInduction
<1> QED BY <1>3

\* Ones add up to the number of elements: a count is a sum.
LEMMA SumOfOnes ==
  ASSUME NEW S, IsFiniteSet(S), NEW f, \A x \in S : f[x] = 1
  PROVE  SumFunctionOnSet(f, S) = Cardinality(S)
<1> DEFINE Good == {T \in SUBSET S : SumFunctionOnSet(f, T) = Cardinality(T)}
<1>1. {} \in Good BY SumOfNone, FS_EmptySet
<1>2. ASSUME NEW T \in SUBSET S, NEW x \in S \ T, T \in Good PROVE T \cup {x} \in Good
  <2>0. \A y \in T \cup {x} : f[y] \in Int OBVIOUS
  <2>1. IsFiniteSet(T) BY FS_Subset
  <2>2. SumFunctionOnSet(f, T \cup {x}) = f[x] + SumFunctionOnSet(f, T)
        BY <2>0, <2>1, SumAdds
  <2>3. Cardinality(T \cup {x}) = Cardinality(T) + 1 BY <2>1, FS_AddElement
  <2>4. Cardinality(T) \in Nat BY <2>1, FS_CardinalityType
  <2> QED BY <1>2, <2>2, <2>3, <2>4
<1>3. S \in Good
  <2> HIDE DEF Good
  <2> QED BY <1>1, <1>2, SubsetInduction
<1> QED BY <1>3

\* Disjoint sets add up.
LEMMA SumOfDisjoint ==
  ASSUME NEW S, IsFiniteSet(S), NEW R, IsFiniteSet(R), R \cap S = {},
         NEW f, \A x \in R \cup S : f[x] \in Int
  PROVE  SumFunctionOnSet(f, R \cup S) = SumFunctionOnSet(f, R) + SumFunctionOnSet(f, S)
<1> DEFINE Total(T) == SumFunctionOnSet(f, T)
           Good == {T \in SUBSET S : Total(R \cup T) = Total(R) + Total(T)}
<1>0. \A T \in SUBSET S : IsFiniteSet(T) /\ Total(T) \in Int BY FS_Subset, SumIsInt
<1>1. {} \in Good
  <2>1. Total(R) \in Int BY SumIsInt
  <2>2. R \cup {} = R OBVIOUS
  <2> QED BY <2>1, <2>2, SumOfNone
<1>2. ASSUME NEW T \in SUBSET S, NEW x \in S \ T, T \in Good PROVE T \cup {x} \in Good
  <2>1. IsFiniteSet(T) /\ IsFiniteSet(R \cup T) BY <1>0, FS_Union
  <2>2. Total(T \cup {x}) = f[x] + Total(T) BY <2>1, SumAdds
  <2>3. x \notin R \cup T OBVIOUS
  <2>4. Total((R \cup T) \cup {x}) = f[x] + Total(R \cup T) BY <2>1, <2>3, SumAdds
  <2>5. (R \cup T) \cup {x} = R \cup (T \cup {x}) OBVIOUS
  <2>6. Total(R) \in Int /\ Total(T) \in Int /\ f[x] \in Int BY <1>0, SumIsInt
  <2>7. Total(R \cup T) = Total(R) + Total(T) BY <1>2
  <2>8. f[x] + (Total(R) + Total(T)) = Total(R) + (f[x] + Total(T)) BY <2>6
  <2>9. Total(R \cup (T \cup {x})) = Total(R) + Total(T \cup {x})
        BY <2>2, <2>4, <2>5, <2>7, <2>8
  <2> QED BY <2>9
<1>3. S \in Good
  <2> HIDE DEF Good
  <2> QED BY <1>1, <1>2, SubsetInduction
<1> QED BY <1>3

\* A sum over a set that is cut into parts is the sum of the parts' sums.
THEOREM SumOfParts ==
  ASSUME NEW I, IsFiniteSet(I), NEW A, NEW f, NEW F,
         \A i \in I : IsFiniteSet(A[i]) /\ F[i] = SumFunctionOnSet(f, A[i]),
         \A i \in I : \A x \in A[i] : f[x] \in Int,
         \A i, j \in I : i # j => A[i] \cap A[j] = {}
  PROVE  /\ IsFiniteSet(UNION {A[i] : i \in I})
         /\ SumFunctionOnSet(f, UNION {A[i] : i \in I}) = SumFunctionOnSet(F, I)
<1> DEFINE U(J) == UNION {A[i] : i \in J}
           Good == {J \in SUBSET I :
                      IsFiniteSet(U(J)) /\ SumFunctionOnSet(f, U(J)) = SumFunctionOnSet(F, J)}
<1>1. {} \in Good
  <2>1. U({}) = {} OBVIOUS
  <2> QED BY <2>1, SumOfNone, FS_EmptySet
<1>2. \A i \in I : F[i] \in Int BY SumIsInt
<1>3. ASSUME NEW J \in SUBSET I, NEW i \in I \ J, J \in Good PROVE J \cup {i} \in Good
  <2>1. IsFiniteSet(J) BY FS_Subset
  <2>2. U(J \cup {i}) = A[i] \cup U(J) OBVIOUS
  <2>3. IsFiniteSet(U(J)) /\ IsFiniteSet(A[i]) BY <1>3
  <2>4. A[i] \cap U(J) = {} OBVIOUS
  <2>5. \A x \in A[i] \cup U(J) : f[x] \in Int OBVIOUS
  <2>6. IsFiniteSet(A[i] \cup U(J)) BY <2>3, FS_Union
  <2>7. SumFunctionOnSet(f, A[i] \cup U(J))
          = SumFunctionOnSet(f, A[i]) + SumFunctionOnSet(f, U(J))
    <3> HIDE DEF U
    <3> QED BY ONLY <2>3, <2>4, <2>5, SumOfDisjoint
  <2>8. SumFunctionOnSet(F, J \cup {i}) = F[i] + SumFunctionOnSet(F, J)
        BY <1>2, <2>1, SumAdds
  <2>9. SumFunctionOnSet(f, U(J)) = SumFunctionOnSet(F, J) BY <1>3
  <2>10. SumFunctionOnSet(f, U(J \cup {i})) = SumFunctionOnSet(F, J \cup {i})
         BY <2>2, <2>7, <2>8, <2>9
  <2> QED BY <2>2, <2>6, <2>10
<1>4. I \in Good
  <2> HIDE DEF Good
  <2> QED BY ONLY <1>1, <1>3, SubsetInduction, IsFiniteSet(I)
<1> QED BY <1>4

\* No more elements, none of them larger than any of the others: no larger sum.
THEOREM SumOfFewerAndSmaller ==
  ASSUME NEW S, IsFiniteSet(S), NEW T, IsFiniteSet(T),
         Cardinality(S) <= Cardinality(T),
         NEW f, \A x \in S : f[x] \in Int, \A y \in T : f[y] \in Nat,
         \A x \in S, y \in T : f[x] <= f[y]
  PROVE  SumFunctionOnSet(f, S) <= SumFunctionOnSet(f, T)
<1> DEFINE Total(Q) == SumFunctionOnSet(f, Q)
           Good == {R \in SUBSET S : \A Q \in SUBSET T :
                      Cardinality(R) <= Cardinality(Q) => Total(R) <= Total(Q)}
<1>1. \A Q \in SUBSET T : IsFiniteSet(Q) /\ Cardinality(Q) \in Nat /\ Total(Q) \in Nat
      BY FS_Subset, FS_CardinalityType, SumIsNat
<1>2. \A R \in SUBSET S : IsFiniteSet(R) /\ Cardinality(R) \in Nat /\ Total(R) \in Int
      BY FS_Subset, FS_CardinalityType, SumIsInt
<1>3. {} \in Good BY <1>1, SumOfNone
<1>4. ASSUME NEW R \in SUBSET S, NEW x \in S \ R, R \in Good PROVE R \cup {x} \in Good
  <2> SUFFICES ASSUME NEW Q \in SUBSET T, Cardinality(R \cup {x}) <= Cardinality(Q)
               PROVE  Total(R \cup {x}) <= Total(Q)
      OBVIOUS
  <2>1. Cardinality(R \cup {x}) = Cardinality(R) + 1 BY <1>2, FS_AddElement
  <2>2. Q # {} BY <1>2, <2>1, FS_EmptySet
  <2>3. PICK y \in Q : TRUE BY <2>2
  <2>4. Cardinality(Q \ {y}) = Cardinality(Q) - 1 BY <1>1, <2>3, FS_RemoveElement
  <2>5. Cardinality(R) <= Cardinality(Q \ {y}) BY <1>1, <1>2, <2>1, <2>4
  <2>6. Q \ {y} \in SUBSET T OBVIOUS
  <2>7. Total(R) <= Total(Q \ {y}) BY <1>4, <2>5, <2>6
  <2>8. Total(R \cup {x}) = f[x] + Total(R) BY <1>2, SumAdds
  <2>9. \A z \in Q : f[z] \in Int OBVIOUS
  <2>10. Total(Q) = f[y] + Total(Q \ {y}) BY <1>1, <2>3, <2>9, SumTakesOut
  <2>11. f[x] \in Int /\ f[y] \in Int /\ f[x] <= f[y] BY <2>3
  <2>12. Total(R) \in Int /\ Total(Q \ {y}) \in Int BY <1>1, <1>2, <2>6
  <2>13. f[x] + Total(R) <= f[y] + Total(Q \ {y}) BY <2>7, <2>11, <2>12
  <2> QED BY <2>8, <2>10, <2>13
<1>5. S \in Good
  <2> HIDE DEF Good
  <2> QED BY ONLY <1>3, <1>4, SubsetInduction, IsFiniteSet(S)
<1> QED BY <1>5

\* The counts of the parts of a set add up to the count of the set.
LEMMA SumOfCounts ==
  ASSUME NEW I, IsFiniteSet(I), NEW A, NEW F,
         \A i \in I : IsFiniteSet(A[i]) /\ F[i] = Cardinality(A[i]),
         \A i, j \in I : i # j => A[i] \cap A[j] = {}
  PROVE  SumFunctionOnSet(F, I) = Cardinality(UNION {A[i] : i \in I})
<1>1. PICK one : \A x \in UNION {A[i] : i \in I} : one[x] = 1
  <2>1. \A x \in UNION {A[i] : i \in I} : [y \in UNION {A[i] : i \in I} |-> 1][x] = 1
        OBVIOUS
  <2> QED BY <2>1
<1>2. ASSUME NEW i \in I PROVE F[i] = SumFunctionOnSet(one, A[i])
  <2>1. IsFiniteSet(A[i]) /\ \A x \in A[i] : one[x] = 1 BY <1>1
  <2> QED BY <2>1, SumOfOnes
<1>3. \A i \in I : IsFiniteSet(A[i]) /\ F[i] = SumFunctionOnSet(one, A[i]) BY <1>2
<1>4. \A i \in I : \A x \in A[i] : one[x] \in Int BY <1>1
<1>5. /\ IsFiniteSet(UNION {A[i] : i \in I})
      /\ SumFunctionOnSet(one, UNION {A[i] : i \in I}) = SumFunctionOnSet(F, I)
      BY <1>3, <1>4, SumOfParts
<1> QED BY <1>1, <1>5, SumOfOnes

\* Larger values, larger sum.
LEMMA SumIsMonotonic ==
  ASSUME NEW S, IsFiniteSet(S), NEW f, NEW g,
         \A x \in S : f[x] \in Int /\ g[x] \in Int /\ f[x] <= g[x]
  PROVE  SumFunctionOnSet(f, S) <= SumFunctionOnSet(g, S)
<1> DEFINE Good == {T \in SUBSET S : SumFunctionOnSet(f, T) <= SumFunctionOnSet(g, T)}
<1>1. {} \in Good BY SumOfNone
<1>2. ASSUME NEW T \in SUBSET S, NEW x \in S \ T, T \in Good PROVE T \cup {x} \in Good
  <2>1. IsFiniteSet(T) BY FS_Subset
  <2>2. SumFunctionOnSet(f, T \cup {x}) = f[x] + SumFunctionOnSet(f, T)
        BY <2>1, SumAdds
  <2>3. SumFunctionOnSet(g, T \cup {x}) = g[x] + SumFunctionOnSet(g, T)
        BY <2>1, SumAdds
  <2>4. SumFunctionOnSet(f, T) \in Int /\ SumFunctionOnSet(g, T) \in Int
        BY <2>1, SumIsInt
  <2> QED BY <1>2, <2>2, <2>3, <2>4
<1>3. S \in Good
  <2> HIDE DEF Good
  <2> QED BY <1>1, <1>2, SubsetInduction
<1> QED BY <1>3

\* What is left out of a sum of positive values is missed.
LEMMA SumOfProperPart ==
  ASSUME NEW S, IsFiniteSet(S), NEW f, \A x \in S : f[x] \in Nat \ {0},
         NEW T \in SUBSET S, T # S
  PROVE  SumFunctionOnSet(f, T) < SumFunctionOnSet(f, S)
<1>1. PICK x \in S : x \notin T OBVIOUS
<1> DEFINE R == S \ {x}
<1>2. IsFiniteSet(T) /\ IsFiniteSet(R \ T) /\ IsFiniteSet(R) BY FS_Subset, FS_Difference
<1>3. \A y \in S : f[y] \in Int /\ f[y] \in Nat OBVIOUS
<1>4. SumFunctionOnSet(f, S) = f[x] + SumFunctionOnSet(f, R) BY <1>3, SumTakesOut
<1>5. T \cup (R \ T) = R /\ (R \ T) \cap T = {} /\ T \cap (R \ T) = {} BY <1>1
<1>6. SumFunctionOnSet(f, T \cup (R \ T))
        = SumFunctionOnSet(f, T) + SumFunctionOnSet(f, R \ T)
  <2>1. \A y \in T \cup (R \ T) : f[y] \in Int BY <1>3
  <2> QED BY <1>2, <1>5, <2>1, SumOfDisjoint
<1>7. SumFunctionOnSet(f, T) \in Nat /\ SumFunctionOnSet(f, R \ T) \in Nat
  <2>1. (\A y \in T : f[y] \in Nat) /\ (\A y \in R \ T : f[y] \in Nat) BY <1>3
  <2> QED BY <1>2, <2>1, SumIsNat
<1>8. f[x] \in Nat \ {0} OBVIOUS
<1>9. SumFunctionOnSet(f, R) = SumFunctionOnSet(f, T) + SumFunctionOnSet(f, R \ T)
      BY <1>5, <1>6
<1> HIDE DEF R
<1> QED BY <1>4, <1>7, <1>8, <1>9
=============================================================================
