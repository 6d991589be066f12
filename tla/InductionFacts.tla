--------------------------- MODULE InductionFacts ---------------------------
(***************************************************************************)
(* Facts that need induction over numbers or over finite sets, for the     *)
(* other proof modules: least elements and sums.                           *)
(*                                                                         *)
(* Induction is used in the form of least and of minimal elements, which   *)
(* the library states for sets: what holds for all elements is shown by    *)
(* looking at a minimal one for which it does not.                         *)
(***************************************************************************)
EXTENDS Integers, FiniteSetsExt, FiniteSetTheorems, TLAPS

\* A set of natural numbers that is not empty has a smallest element.
LEMMA SmallestOf ==
  ASSUME NEW T \in SUBSET Nat, T # {}
  PROVE  \E n \in T : \A m \in T : n <= m
  <1>1. PICK n \in T : \A m \in T : ~(<<m, n>> \in OpToRel(<, Nat))
    BY NatLessThanWellFounded, WFMin
  <1>2. \A m \in T : ~(m < n)
    BY <1>1 DEF OpToRel
  <1> QED BY <1>2

-----------------------------------------------------------------------------
(* Sums                                                                    *)

\* The sum of the values of l over the set S, as the model writes it.
SumOver(l, S) == MapThenSumSet(LAMBDA k : l[k], S)

Member(s) == CHOOSE x \in s : TRUE

\* What the sum does with a table g of partial sums.
StepOf(l, S, g) == [s \in SUBSET S |-> IF s = {} THEN 0 ELSE l[Member(s)] + g[s \ {Member(s)}]]

\* The sum is the last entry of a table of the sums over all subsets.
LEMMA SumUnfold ==
  ASSUME NEW l, NEW S
  PROVE  SumOver(l, S) = (CHOOSE g : g = StepOf(l, S, g))[S]
  BY DEF SumOver, MapThenSumSet, MapThenFoldSet, StepOf, Member

\* A finite family of finite sets that is not empty has a minimal member.
LEMMA MinimalSet ==
  ASSUME NEW S, IsFiniteSet(S), NEW B \in SUBSET SUBSET S, B # {}
  PROVE  \E T \in B : \A U \in B : ~(U \subseteq T /\ U # T)
  <1>1. \A T \in B : IsFiniteSet(T) /\ Cardinality(T) \in Nat
    BY FS_Subset, FS_CardinalityType
  <1> DEFINE C == {Cardinality(T) : T \in B}
  <1>2. C \in SUBSET Nat /\ C # {}
    BY <1>1
  <1>3. PICK n \in C : \A m \in C : n <= m
    BY <1>2, SmallestOf
  <1>4. PICK T \in B : n = Cardinality(T)
    BY <1>3
  <1>5. \A U \in B : ~(U \subseteq T /\ U # T)
    <2> SUFFICES ASSUME NEW U \in B, U \subseteq T, U # T PROVE FALSE
      OBVIOUS
    <2>1. Cardinality(U) < Cardinality(T)
      BY <1>1, FS_Subset
    <2> QED BY <1>1, <1>3, <1>4, <2>1
  <1> QED BY <1>5

\* The tables of partial sums: what the recursion in the sum defines.
Tables(l, S) == {g \in [SUBSET S -> Nat] : g = StepOf(l, S, g)}

\* Two tables agree on the subsets they have in common.
LEMMA TableUnique ==
  ASSUME NEW D, NEW l \in [D -> Nat], NEW S \in SUBSET D, NEW R \in SUBSET D,
         IsFiniteSet(S), NEW g, g = StepOf(l, S, g), NEW h, h = StepOf(l, R, h)
  PROVE  \A s \in (SUBSET S) \cap (SUBSET R) : g[s] = h[s]
  <1> DEFINE B == {s \in (SUBSET S) \cap (SUBSET R) : g[s] # h[s]}
  <1> SUFFICES ASSUME B # {} PROVE FALSE
    OBVIOUS
  <1>0. B \in SUBSET SUBSET S
    OBVIOUS
  <1>1. PICK s \in B : \A u \in B : ~(u \subseteq s /\ u # s)
    <2> HIDE DEF B
    <2> QED BY <1>0, MinimalSet
  <1>2. s # {} => Member(s) \in s
    BY DEF Member
  <1>3. /\ g[s] = IF s = {} THEN 0 ELSE l[Member(s)] + g[s \ {Member(s)}]
        /\ h[s] = IF s = {} THEN 0 ELSE l[Member(s)] + h[s \ {Member(s)}]
    BY DEF StepOf
  <1>4. s # {} => g[s \ {Member(s)}] = h[s \ {Member(s)}]
    BY <1>1, <1>2
  <1> QED BY <1>1, <1>3, <1>4

\* The subsets of a finite set have a table.
LEMMA TableExists ==
  ASSUME NEW D, NEW l \in [D -> Nat], NEW S \in SUBSET D, IsFiniteSet(S)
  PROVE  Tables(l, S) # {}
  <1> DEFINE B == {s \in SUBSET S : Tables(l, s) = {}}
  <1> SUFFICES ASSUME B # {} PROVE FALSE
    OBVIOUS
  <1>0. B \in SUBSET SUBSET S
    OBVIOUS
  <1>1. PICK s \in B : \A u \in B : ~(u \subseteq s /\ u # s)
    <2> HIDE DEF B
    <2> QED BY <1>0, MinimalSet
  <1> DEFINE h(u) == CHOOSE x \in Tables(l, u) : TRUE
             \* the entry of a subset, from the table of the set without its first element
             below(u) == h(u \ {Member(u)})
             t == [u \in SUBSET s |-> IF u = {} THEN 0 ELSE l[Member(u)] + below(u)[u \ {Member(u)}]]
  <1>2. \A u \in SUBSET s : u # s => h(u) \in Tables(l, u)
    BY <1>1
  <1>3. \A u \in SUBSET s : u # {} =>
          /\ Member(u) \in u /\ u \ {Member(u)} \in SUBSET s /\ u \ {Member(u)} # s
          /\ l[Member(u)] \in Nat
    BY DEF Member
  <1>4. \A u \in SUBSET s : u # {} =>
          /\ below(u) \in [SUBSET (u \ {Member(u)}) -> Nat]
          /\ below(u) = StepOf(l, u \ {Member(u)}, below(u))
    BY <1>2, <1>3 DEF Tables
  <1> HIDE DEF h
  <1>5. \A u \in SUBSET s : u # {} => below(u)[u \ {Member(u)}] \in Nat
    BY <1>4
  <1>6. t \in [SUBSET s -> Nat]
    BY <1>3, <1>5
  <1>7. \A u \in SUBSET s : u # {} => below(u)[u \ {Member(u)}] = t[u \ {Member(u)}]
    <2> SUFFICES ASSUME NEW u \in SUBSET s, u # {}
                 PROVE  below(u)[u \ {Member(u)}] = t[u \ {Member(u)}]
      OBVIOUS
    <2> DEFINE v == u \ {Member(u)}
    <2>1. below(u) = StepOf(l, v, below(u)) /\ v \in SUBSET s
      BY <1>3, <1>4
    <2>2. below(u)[v] = IF v = {} THEN 0 ELSE l[Member(v)] + below(u)[v \ {Member(v)}]
      BY <2>1 DEF StepOf
    <2>3. t[v] = IF v = {} THEN 0 ELSE l[Member(v)] + below(v)[v \ {Member(v)}]
      BY <2>1
    <2>4. CASE v = {}
      BY <2>2, <2>3, <2>4
    <2>5. CASE v # {}
      <3>1. below(v) = StepOf(l, v \ {Member(v)}, below(v))
        BY <1>4, <2>1, <2>5
      <3>2. IsFiniteSet(v) /\ v \in SUBSET D /\ v \ {Member(v)} \in SUBSET D
        BY <2>1, FS_Subset
      <3> HIDE DEF v, below, t
      <3>3. \A w \in (SUBSET v) \cap (SUBSET (v \ {Member(v)})) : below(u)[w] = below(v)[w]
        BY <2>1, <3>1, <3>2, TableUnique
      <3>4. below(u)[v] = t[v]
        BY <2>2, <2>3, <3>3
      <3> QED BY <3>4 DEF v
    <2> QED BY <2>4, <2>5
  <1>8. t = StepOf(l, s, t)
    BY <1>7 DEF StepOf
  <1>9. t \in Tables(l, s)
    BY <1>6, <1>8 DEF Tables
  <1> QED BY <1>9

\* The table of a finite set, and what the sum has to do with it.
LEMMA SumTable ==
  ASSUME NEW D, NEW l \in [D -> Nat], NEW S \in SUBSET D, IsFiniteSet(S)
  PROVE  \E g \in Tables(l, S) : SumOver(l, S) = g[S]
  <1> DEFINE g == CHOOSE g : g = StepOf(l, S, g)
  <1>1. PICK t \in Tables(l, S) : TRUE
    BY TableExists
  <1>2. t \in [SUBSET S -> Nat] /\ t = StepOf(l, S, t)
    BY <1>1 DEF Tables
  <1>3. g = StepOf(l, S, g)
    BY <1>2
  <1>4. SumOver(l, S) = g[S]
    BY SumUnfold
  <1> HIDE DEF g
  <1>5. \A s \in SUBSET S : g[s] = t[s]
    BY <1>2, <1>3, TableUnique
  <1>6. S \in SUBSET S
    OBVIOUS
  <1> QED BY <1>1, <1>4, <1>5, <1>6

\* A sum is a natural number: 0, or the value at one element and the sum over the rest.
LEMMA SumStep ==
  ASSUME NEW D, NEW l \in [D -> Nat], NEW S \in SUBSET D, IsFiniteSet(S)
  PROVE  /\ SumOver(l, S) \in Nat
         /\ S = {} => SumOver(l, S) = 0
         /\ S # {} => /\ Member(S) \in S
                      /\ SumOver(l, S) = l[Member(S)] + SumOver(l, S \ {Member(S)})
  <1>0. PICK g \in Tables(l, S) : SumOver(l, S) = g[S]
    BY SumTable
  <1>1. g \in [SUBSET S -> Nat] /\ g = StepOf(l, S, g) /\ SumOver(l, S) = g[S]
    BY <1>0 DEF Tables
  <1>2. g[S] \in Nat
    BY <1>1
  <1>3. g[S] = IF S = {} THEN 0 ELSE l[Member(S)] + g[S \ {Member(S)}]
    BY <1>1 DEF StepOf
  <1>4. ASSUME S # {}
        PROVE  Member(S) \in S /\ g[S \ {Member(S)}] = SumOver(l, S \ {Member(S)})
    <2> DEFINE R == S \ {Member(S)}
    <2>1. R \in SUBSET D /\ IsFiniteSet(R) /\ R \in SUBSET S
      BY FS_Subset
    <2>2. PICK h \in Tables(l, R) : SumOver(l, R) = h[R]
      BY <2>1, SumTable
    <2>3. \A s \in (SUBSET S) \cap (SUBSET R) : g[s] = h[s]
      BY <1>1, <2>1, TableUnique DEF Tables
    <2>4. g[R] = h[R]
      BY <2>1, <2>3
    <2>5. Member(S) \in S
      BY <1>4 DEF Member
    <2> QED BY <2>2, <2>4, <2>5
  <1> QED BY <1>1, <1>2, <1>3, <1>4

\* A sum does not depend on the order in which its terms are taken.
LEMMA SumRemove ==
  ASSUME NEW D, NEW l \in [D -> Nat], NEW S \in SUBSET D, IsFiniteSet(S)
  PROVE  \A y \in S : SumOver(l, S) = l[y] + SumOver(l, S \ {y})
  <1> DEFINE B == {T \in SUBSET S : \E y \in T : SumOver(l, T) # l[y] + SumOver(l, T \ {y})}
  <1> SUFFICES ASSUME B # {} PROVE FALSE
    OBVIOUS
  <1>0. B \in SUBSET SUBSET S
    OBVIOUS
  <1>1. PICK T \in B : \A U \in B : ~(U \subseteq T /\ U # T)
    <2> HIDE DEF B
    <2> QED BY <1>0, MinimalSet
  <1>2. PICK y \in T : SumOver(l, T) # l[y] + SumOver(l, T \ {y})
    BY <1>1
  <1> DEFINE x == Member(T)
  <1>3. \A U \in SUBSET S : U \in SUBSET D /\ IsFiniteSet(U) /\ SumOver(l, U) \in Nat
    BY FS_Subset, SumStep
  <1>4. x \in T /\ SumOver(l, T) = l[x] + SumOver(l, T \ {x})
    BY <1>2, <1>3, SumStep
  <1> HIDE DEF x
  <1>5. x # y /\ l[x] \in Nat /\ l[y] \in Nat
    BY <1>2, <1>4
  <1>6. SumOver(l, T \ {x}) = l[y] + SumOver(l, (T \ {x}) \ {y})
    <2>1. T \ {x} \in SUBSET S /\ T \ {x} \subseteq T /\ T \ {x} # T /\ y \in T \ {x}
      BY <1>4, <1>5
    <2> QED BY <1>1, <2>1
  <1>7. SumOver(l, T \ {y}) = l[x] + SumOver(l, (T \ {y}) \ {x})
    <2>1. T \ {y} \in SUBSET S /\ T \ {y} \subseteq T /\ T \ {y} # T /\ x \in T \ {y}
      BY <1>4, <1>5
    <2> QED BY <1>1, <2>1
  <1>8. (T \ {x}) \ {y} = (T \ {y}) \ {x} /\ (T \ {x}) \ {y} \in SUBSET S
    OBVIOUS
  <1> QED BY <1>2, <1>3, <1>4, <1>5, <1>6, <1>7, <1>8

\* A sum over the indexes of an enumeration is the sum over what it enumerates.
LEMMA SumEnumerated ==
  ASSUME NEW D, NEW l \in [D -> Nat], NEW E, IsFiniteSet(E), NEW m \in [E -> Nat],
         NEW h \in Injection(E, D), \A e \in E : m[e] = l[h[e]]
  PROVE  SumOver(m, E) = SumOver(l, {h[e] : e \in E})
  <1> DEFINE Im(T) == {h[e] : e \in T}
             B == {T \in SUBSET E : SumOver(m, T) # SumOver(l, Im(T))}
  <1> SUFFICES ASSUME B # {} PROVE FALSE
    OBVIOUS
  <1>0. B \in SUBSET SUBSET E
    OBVIOUS
  <1>1. PICK T \in B : \A U \in B : ~(U \subseteq T /\ U # T)
    <2> HIDE DEF B
    <2> QED BY <1>0, MinimalSet
  <1>2. h \in [E -> D] /\ \A a, c \in E : h[a] = h[c] => a = c
    BY DEF Injection, IsInjective
  <1>3. IsFiniteSet(T) /\ T \in SUBSET E
    BY <1>1, FS_Subset
  <1>4. Im(T) \in SUBSET D /\ IsFiniteSet(Im(T))
    <2>1. [e \in T |-> h[e]] \in Surjection(T, Im(T))
      BY DEF Surjection
    <2> QED BY <1>2, <1>3, <2>1, FS_Surjection
  <1>5. CASE T = {}
    <2>1. Im(T) = {}
      BY <1>5
    <2>2. SumOver(m, T) = 0 /\ SumOver(l, Im(T)) = 0
      BY <1>3, <1>4, <1>5, <2>1, SumStep
    <2> QED BY <1>1, <2>2
  <1>6. CASE T # {}
    <2>1. PICK y \in T : TRUE
      BY <1>6
    <2>2. SumOver(m, T) = m[y] + SumOver(m, T \ {y})
      BY <1>3, SumRemove
    <2>3. h[y] \in Im(T) /\ Im(T) \ {h[y]} = Im(T \ {y})
      BY <1>2, <1>3
    <2>4. SumOver(l, Im(T)) = l[h[y]] + SumOver(l, Im(T) \ {h[y]})
      <3> HIDE DEF Im
      <3> QED BY <1>4, <2>3, SumRemove
    <2>5. SumOver(m, T \ {y}) = SumOver(l, Im(T \ {y}))
      BY <1>1, <1>3
    <2> QED BY <1>1, <1>3, <2>2, <2>3, <2>4, <2>5
  <1> QED BY <1>5, <1>6

\* Summing one component of a table of records is summing that column.
LEMMA SumColumn ==
  ASSUME NEW S, IsFiniteSet(S), NEW n, NEW t, \A s \in S : t[s][n] \in Nat
  PROVE  MapThenSumSet(LAMBDA s : t[s][n], S) = SumOver([s \in S |-> t[s][n]], S)
  <1> DEFINE l == [s \in S |-> t[s][n]]
             A(g) == [s \in SUBSET S |-> IF s = {} THEN 0 ELSE t[Member(s)][n] + g[s \ {Member(s)}]]
             g == CHOOSE g : g = A(g)
  <1>1. MapThenSumSet(LAMBDA s : t[s][n], S) = g[S]
    BY DEF MapThenSumSet, MapThenFoldSet, Member
  <1>2. l \in [S -> Nat] /\ S \in SUBSET S
    OBVIOUS
  <1>3. \A s \in SUBSET S : s # {} => Member(s) \in S /\ l[Member(s)] = t[Member(s)][n]
    BY DEF Member
  <1> HIDE DEF l
  <1>4. \A h : A(h) = StepOf(l, S, h)
    BY <1>3 DEF StepOf
  <1>5. PICK h \in Tables(l, S) : SumOver(l, S) = h[S]
    BY <1>2, SumTable
  <1>6. h = StepOf(l, S, h)
    BY <1>5 DEF Tables
  <1> HIDE DEF A
  <1>7. g = A(g)
    <2>1. h = A(h)
      BY <1>4, <1>6
    <2> QED BY <2>1
  <1> HIDE DEF g
  <1>8. g = StepOf(l, S, g)
    BY <1>4, <1>7
  <1>9. g[S] = h[S]
    BY <1>2, <1>6, <1>8, TableUnique
  <1> QED BY <1>1, <1>5, <1>9 DEF l
=============================================================================
