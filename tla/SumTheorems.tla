---- MODULE SumTheorems ----
(***************************************************************************)
(* Sums over finite sets: what SumFunctionOnSet, a fold that chooses the   *)
(* next element, gives for an empty set and for a set with one element     *)
(* more, whatever is chosen.                                               *)
(*                                                                         *)
(* An induction theorem takes the induction hypothesis as an operator.     *)
(* Instead, each proof looks at a minimal set among those for which the    *)
(* claim fails; MinimalMember says that there is one.                      *)
(***************************************************************************)
EXTENDS Integers, FiniteSetTheorems, WellFoundedInduction, TLAPS

\* Among subsets of a finite set one has no other as a strict subset.
LEMMA MinimalMember ==
  ASSUME NEW S, IsFiniteSet(S), NEW F, F \subseteq SUBSET S, F # {}
  PROVE  \E A \in F : \A B \in F : B \subseteq A => B = A
<1>1. IsWellFoundedOn(StrictSubsetOrdering(S), FiniteSubsetsOf(S))
  BY FS_StrictSubsetOrderingWellFounded
<1>2. F \subseteq FiniteSubsetsOf(S)
  BY FS_FiniteSubsetsOfFinite
<1>3. PICK A \in F : \A B \in F : <<B, A>> \notin StrictSubsetOrdering(S)
  BY <1>1, <1>2, WFMin
<1>4. \A B \in F : B \subseteq A => B = A
  BY <1>3 DEF StrictSubsetOrdering
<1> QED BY <1>4

Some(s) == CHOOSE x \in s : TRUE

\* The function that the fold of f over S applies to S.
IsSum(g, f, S) ==
  g = [s \in SUBSET S |-> IF s = {} THEN 0 ELSE f[Some(s)] + g[s \ {Some(s)}]]

\* Two such functions agree where both are defined.
LEMMA SumUnique ==
  ASSUME NEW f, NEW S, IsFiniteSet(S), NEW T, NEW g, NEW h, IsSum(g, f, S), IsSum(h, f, T)
  PROVE  \A s \in SUBSET S : s \subseteq T => g[s] = h[s]
<1> DEFINE F == {s \in SUBSET S : s \subseteq T /\ g[s] # h[s]}
<1> SUFFICES ASSUME F # {} PROVE FALSE
  OBVIOUS
<1>1. PICK s \in F : \A r \in F : r \subseteq s => r = s
  <2> F \subseteq SUBSET S
    OBVIOUS
  <2> HIDE DEF F
  <2> QED BY MinimalMember
<1>2. s \in SUBSET S /\ s \in SUBSET T /\ g[s] # h[s]
  OBVIOUS
<1>3. \A r \in SUBSET S : g[r] = IF r = {} THEN 0 ELSE f[Some(r)] + g[r \ {Some(r)}]
  BY DEF IsSum
<1>4. \A r \in SUBSET T : h[r] = IF r = {} THEN 0 ELSE f[Some(r)] + h[r \ {Some(r)}]
  BY DEF IsSum
<1>5. s # {}
  BY <1>2, <1>3, <1>4
<1>6. Some(s) \in s
  BY <1>5 DEF Some
<1>7. s \ {Some(s)} \subseteq s /\ s \ {Some(s)} # s
  BY <1>6
<1>8. s \ {Some(s)} \notin F
  BY <1>1, <1>7
<1>9. g[s \ {Some(s)}] = h[s \ {Some(s)}]
  BY <1>2, <1>7, <1>8
<1> QED BY <1>2, <1>3, <1>4, <1>5, <1>9

LEMMA SumExists ==
  ASSUME NEW f, NEW S, IsFiniteSet(S)
  PROVE  \E g : IsSum(g, f, S)
<1> DEFINE F == {s \in SUBSET S : ~ \E g : IsSum(g, f, s)}
<1> SUFFICES ASSUME F # {} PROVE FALSE
  OBVIOUS
<1>1. PICK s \in F : \A r \in F : r \subseteq s => r = s
  <2> F \subseteq SUBSET S
    OBVIOUS
  <2> HIDE DEF F
  <2> QED BY MinimalMember
<1>2. s \subseteq S /\ ~ \E g : IsSum(g, f, s)
  OBVIOUS
<1> DEFINE G(r) == CHOOSE g : IsSum(g, f, r)
<1>3. \A r \in SUBSET s : r # s => IsSum(G(r), f, r)
  <2> SUFFICES ASSUME NEW r \in SUBSET s, r # s PROVE IsSum(G(r), f, r)
    OBVIOUS
  <2>1. r \notin F
    BY <1>1
  <2>2. \E g : IsSum(g, f, r)
    BY <1>2, <2>1
  <2> QED BY <2>2
<1>4. \A r \in SUBSET s : IsFiniteSet(r)
  BY <1>2, FS_Subset
<1> DEFINE Less(r) == r \ {Some(r)}
           h == [r \in SUBSET s |-> IF r = {} THEN 0 ELSE f[Some(r)] + G(Less(r))[Less(r)]]
<1> HIDE DEF G
<1>5. \A r \in SUBSET s : r # {} => Less(r) # s /\ Less(r) \subseteq r /\ Less(r) \in SUBSET s
  BY DEF Some
<1>6. ASSUME NEW r \in SUBSET s, r # s PROVE h[r] = G(r)[r]
  <2>1. IsSum(G(r), f, r)
    BY <1>3, <1>6
  <2>2. G(r)[r] = IF r = {} THEN 0 ELSE f[Some(r)] + G(r)[Less(r)]
    <3>1. r \in SUBSET r
      OBVIOUS
    <3> QED BY <2>1, <3>1 DEF IsSum
  <2>3. CASE r = {}
    BY <2>2, <2>3
  <2>4. CASE r # {}
    <3>1. IsSum(G(Less(r)), f, Less(r)) /\ IsFiniteSet(Less(r))
      BY <1>3, <1>4, <1>5, <2>4
    <3>2. Less(r) \in SUBSET Less(r) /\ Less(r) \subseteq r
      BY <1>5, <2>4
    <3> HIDE DEF Less
    <3>3. G(Less(r))[Less(r)] = G(r)[Less(r)]
      BY <2>1, <3>1, <3>2, SumUnique
    <3> QED BY <2>2, <2>4, <3>3
  <2> QED BY <2>3, <2>4
<1>7. IsSum(h, f, s)
  <2>1. \A r \in SUBSET s : r # {} => h[Less(r)] = G(Less(r))[Less(r)]
    BY <1>5, <1>6
  <2>2. h = [r \in SUBSET s |-> IF r = {} THEN 0 ELSE f[Some(r)] + h[Less(r)]]
    BY <2>1
  <2> HIDE DEF h
  <2> QED BY <2>2 DEF IsSum
<1> QED BY <1>2, <1>7

\* The fold takes out the element it chooses.
LEMMA SumChosen ==
  ASSUME NEW f, NEW S, IsFiniteSet(S)
  PROVE  /\ S = {} => SumFunctionOnSet(f, S) = 0
         /\ S # {} => SumFunctionOnSet(f, S) = f[Some(S)] + SumFunctionOnSet(f, S \ {Some(S)})
<1> DEFINE G(s) == CHOOSE g : IsSum(g, f, s)
<1>1. \A s : SumFunctionOnSet(f, s) = G(s)[s]
  BY DEF SumFunctionOnSet, FoldFunctionOnSet, MapThenFoldSet, IsSum, Some
<1>2. \A s : IsFiniteSet(s) => IsSum(G(s), f, s)
  BY SumExists
<1> HIDE DEF G
<1>3. G(S)[S] = IF S = {} THEN 0 ELSE f[Some(S)] + G(S)[S \ {Some(S)}]
  <2>1. S \in SUBSET S
    OBVIOUS
  <2> QED BY <1>2, <2>1 DEF IsSum
<1>4. IsFiniteSet(S \ {Some(S)})
  BY FS_RemoveElement
<1>5. G(S \ {Some(S)})[S \ {Some(S)}] = G(S)[S \ {Some(S)}]
  BY <1>2, <1>4, SumUnique
<1> QED BY <1>1, <1>3, <1>5

\* The sum of natural numbers is one.
LEMMA SumType ==
  ASSUME NEW S, IsFiniteSet(S), NEW f, \A x \in S : f[x] \in Nat
  PROVE  SumFunctionOnSet(f, S) \in Nat
<1> DEFINE F == {s \in SUBSET S : SumFunctionOnSet(f, s) \notin Nat}
<1> SUFFICES ASSUME F # {} PROVE FALSE
  OBVIOUS
<1>1. PICK s \in F : \A r \in F : r \subseteq s => r = s
  <2> F \subseteq SUBSET S
    OBVIOUS
  <2> HIDE DEF F
  <2> QED BY MinimalMember
<1>2. s \subseteq S /\ IsFiniteSet(s) /\ SumFunctionOnSet(f, s) \notin Nat
  BY FS_Subset
<1>3. s # {} /\ SumFunctionOnSet(f, s) = f[Some(s)] + SumFunctionOnSet(f, s \ {Some(s)})
  <2>1. s = {} => SumFunctionOnSet(f, s) = 0
    BY <1>2, SumChosen
  <2>2. s # {}
    BY <1>2, <2>1
  <2> QED BY <1>2, <2>2, SumChosen
<1>4. Some(s) \in s
  BY <1>3 DEF Some
<1>5. SumFunctionOnSet(f, s \ {Some(s)}) \in Nat
  BY <1>1, <1>2, <1>4
<1>6. f[Some(s)] \in Nat
  BY <1>2, <1>4
<1> QED BY <1>2, <1>3, <1>5, <1>6

\* It does not matter which element is taken out.
LEMMA SumWithout ==
  ASSUME NEW S, IsFiniteSet(S), NEW f, \A x \in S : f[x] \in Nat
  PROVE  \A x \in S : SumFunctionOnSet(f, S) = f[x] + SumFunctionOnSet(f, S \ {x})
<1> DEFINE Total(s) == SumFunctionOnSet(f, s)
           F == {s \in SUBSET S : \E x \in s : Total(s) # f[x] + Total(s \ {x})}
<1> SUFFICES ASSUME F # {} PROVE FALSE
  OBVIOUS
<1>1. PICK s \in F : \A r \in F : r \subseteq s => r = s
  <2> F \subseteq SUBSET S
    OBVIOUS
  <2> HIDE DEF F
  <2> QED BY MinimalMember
<1>2. PICK x \in s : Total(s) # f[x] + Total(s \ {x})
  BY <1>1
<1> DEFINE c == Some(s)
<1>3. c \in s
  BY <1>2 DEF Some
<1>4. s \subseteq S /\ IsFiniteSet(s) /\ \A r \in SUBSET s : IsFiniteSet(r) /\ Total(r) \in Nat
  <2>1. s \subseteq S
    OBVIOUS
  <2>2. \A r \in SUBSET s : IsFiniteSet(r)
    BY <2>1, FS_Subset
  <2>3. \A r \in SUBSET s : Total(r) \in Nat
    BY <2>1, <2>2, SumType
  <2> QED BY <2>1, <2>2, <2>3
<1>5. Total(s) = f[c] + Total(s \ {c})
  BY <1>2, <1>4, SumChosen
<1>6. x # c
  BY <1>2, <1>5
<1>7. Total(s \ {c}) = f[x] + Total((s \ {c}) \ {x})
  <2>1. s \ {c} \notin F
    BY <1>1, <1>3
  <2> QED BY <1>4, <1>6, <2>1
<1>8. Total(s \ {x}) = f[c] + Total((s \ {x}) \ {c})
  <2>1. s \ {x} \notin F
    BY <1>1, <1>2
  <2> QED BY <1>3, <1>4, <1>6, <2>1
<1>9. (s \ {c}) \ {x} = (s \ {x}) \ {c}
  OBVIOUS
<1>10. f[x] \in Nat /\ f[c] \in Nat /\ Total((s \ {c}) \ {x}) \in Nat
  BY <1>2, <1>3, <1>4
<1> HIDE DEF Total, c
<1> QED BY <1>2, <1>5, <1>7, <1>8, <1>9, <1>10

\* A sum over nothing is zero, and one element more adds its number.
LEMMA SumGrows ==
  ASSUME NEW S, IsFiniteSet(S), NEW f, NEW x, x \notin S, \A y \in S \cup {x} : f[y] \in Nat
  PROVE  /\ SumFunctionOnSet(f, {}) = 0
         /\ SumFunctionOnSet(f, S) \in Nat
         /\ SumFunctionOnSet(f, S \cup {x}) = SumFunctionOnSet(f, S) + f[x]
<1>1. SumFunctionOnSet(f, {}) = 0
  BY SumChosen, FS_EmptySet
<1>2. SumFunctionOnSet(f, S) \in Nat
  BY SumType
<1>3. IsFiniteSet(S \cup {x}) /\ (S \cup {x}) \ {x} = S
  BY FS_AddElement
<1>4. SumFunctionOnSet(f, S \cup {x}) = f[x] + SumFunctionOnSet(f, S)
  BY <1>3, SumWithout
<1> QED BY <1>1, <1>2, <1>4

====
