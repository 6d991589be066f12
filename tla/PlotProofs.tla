----------------------------- MODULE PlotProofs -----------------------------
(***************************************************************************)
(* Proofs about the plot of runtest for every number of folders, all       *)
(* numbers brain.py may report and every listing order.                    *)
(***************************************************************************)
EXTENDS Plot, InductionFacts, FiniteSetTheorems, TLAPS

Ready == pc \in {"sort", "draw", "shown"}

\* The numbers of folders are natural numbers.
LEMMA SizesNat == N \in Nat /\ H \in Nat /\ (SameOrder => H = N /\ HIdx = Idx)
  BY PlotAssumption, FS_CardinalityType DEF N, H, Idx, HIdx

\* Every denominator is positive once the percentages have been computed.
Positive == Ready => \A k \in Idx : Tot(k) > 0

\* Where the exchange at i and j takes the value at position k from.
From(k) == IF k = i THEN j ELSE IF k = j THEN i ELSE k

\* The exchange permutes a list.
LEMMA ExchangeFacts ==
  ASSUME NEW D, NEW S, NEW l \in [D -> S], i \in D, j \in D
  PROVE  /\ Exchange(l) \in [D -> S]
         /\ \A k \in D : From(k) \in D /\ Exchange(l)[k] = l[From(k)]
  BY DEF Exchange, From

\* What a turn of the sort does to the seven lists: nothing, or the same exchange to all.
LEMMA SortStepFacts ==
  ASSUME TypeOK, SortStep
  PROVE  /\ i \in Idx /\ j \in Idx /\ i < j
         /\ \/ pc' = "crashed" /\ UNCHANGED <<lists, i, j>>
            \/ /\ pc' = "sort" /\ Advance
               /\ \/ ~OutOfOrder /\ UNCHANGED lists
                  \/ /\ OutOfOrder /\ j \in HIdx /\ i \in HIdx
                     /\ pp' = Exchange(pp) /\ fp' = Exchange(fp) /\ bp' = Exchange(bp)
                     /\ syscalls' = Exchange(syscalls)
                     /\ p' = Exchange(p) /\ f' = Exchange(f) /\ b' = Exchange(b)
  <1> USE SizesNat
  <1>1. i \in Idx /\ j \in Idx /\ i < j /\ pc = "sort" /\ i \in Nat /\ j \in Nat
    BY DEF TypeOK, SortStep, Idx
  <1>2. CASE OutOfOrder /\ j >= H
    BY <1>1, <1>2 DEF SortStep
  <1>3. CASE OutOfOrder /\ ~(j >= H)
    <2>1. j \in HIdx /\ i \in HIdx
      BY <1>1, <1>3 DEF HIdx
    <2> QED BY <1>1, <1>3, <2>1 DEF SortStep, Relabelled
  <1>4. CASE ~OutOfOrder
    BY <1>1, <1>4 DEF SortStep
  <1> QED BY <1>1, <1>2, <1>3, <1>4

\* The percentages are pairs of natural numbers with a common, positive denominator.
LEMMA PercentagesFacts ==
  ASSUME TypeOK, Percentages, pc' # "crashed"
  PROVE  /\ pc = "percent" /\ pc' = "sort"
         /\ \A k \in Idx : /\ Tot(k) \in Nat /\ Tot(k) > 0
                           /\ pp'[k] = <<p[k], Tot(k)>> /\ fp'[k] = <<f[k], Tot(k)>>
                           /\ bp'[k] = <<b[k], Tot(k)>>
         /\ pp' \in [Idx -> Nat \X Nat] /\ fp' \in [Idx -> Nat \X Nat] /\ bp' \in [Idx -> Nat \X Nat]
  <1>1. \A k \in Idx : p[k] \in Nat /\ f[k] \in Nat /\ b[k] \in Nat /\ Tot(k) \in Nat
    BY DEF TypeOK, Tot
  <1>2. /\ pp' = [k \in Idx |-> <<p[k], Tot(k)>>]
        /\ fp' = [k \in Idx |-> <<f[k], Tot(k)>>]
        /\ bp' = [k \in Idx |-> <<b[k], Tot(k)>>]
        /\ \A k \in Idx : Tot(k) # 0
        /\ pc = "percent" /\ pc' = "sort"
    BY DEF Percentages
  <1>3. \A k \in Idx : Tot(k) > 0
    BY <1>1, <1>2
  <1>4. pp' \in [Idx -> Nat \X Nat] /\ fp' \in [Idx -> Nat \X Nat] /\ bp' \in [Idx -> Nat \X Nat]
    BY <1>1, <1>2
  <1> QED BY <1>1, <1>2, <1>3, <1>4

\* Every step keeps the types.
LEMMA NextType == TypeOK /\ [Next]_vars => TypeOK'
  <1> SUFFICES ASSUME TypeOK, [Next]_vars PROVE TypeOK'
    OBVIOUS
  <1> USE SizesNat
  <1>1. CASE Percentages
    <2>1. UNCHANGED <<truth, p, f, b, syscalls, i, j, col>>
      BY <1>1 DEF Percentages
    <2>2. CASE pc' = "crashed"
      BY <2>1, <2>2 DEF TypeOK
    <2>3. CASE pc' # "crashed"
      BY <1>1, <2>1, <2>3, PercentagesFacts DEF TypeOK
    <2> QED BY <2>2, <2>3
  <1>2. CASE SortStep
    <2>1. UNCHANGED <<truth, col>> /\ pc = "sort"
      BY <1>2 DEF SortStep
    <2>2. CASE pc' = "crashed" /\ UNCHANGED <<lists, i, j>>
      BY <2>1, <2>2 DEF TypeOK, lists
    <2>3. CASE pc' = "sort" /\ Advance
      <3>1. i' \in Nat /\ j' \in Nat /\ (i' < N - 1 => i' < j' /\ j' < N)
        <4>1. i \in Nat /\ j \in Nat /\ i < j
          BY <1>2, SortStepFacts DEF TypeOK
        <4>2. \/ j + 1 < N /\ i' = i /\ j' = j + 1
              \/ i' = i + 1 /\ j' = i + 2
          BY <2>3 DEF Advance
        <4> QED BY <4>1, <4>2
      <3>2. CASE UNCHANGED lists
        BY <2>1, <2>3, <3>1, <3>2 DEF TypeOK, lists
      <3>3. CASE /\ j \in HIdx /\ i \in HIdx
                 /\ pp' = Exchange(pp) /\ fp' = Exchange(fp) /\ bp' = Exchange(bp)
                 /\ syscalls' = Exchange(syscalls)
                 /\ p' = Exchange(p) /\ f' = Exchange(f) /\ b' = Exchange(b)
        <4>1. i \in Idx /\ j \in Idx
          BY <1>2, SortStepFacts
        <4>2. /\ pp' \in [Idx -> Nat \X Nat] /\ fp' \in [Idx -> Nat \X Nat] /\ bp' \in [Idx -> Nat \X Nat]
              /\ p' \in [Idx -> Nat] /\ f' \in [Idx -> Nat] /\ b' \in [Idx -> Nat]
          BY <2>1, <3>3, <4>1, ExchangeFacts DEF TypeOK
        <4>3. syscalls' \in [HIdx -> HostSyscalls]
          BY <3>3, ExchangeFacts DEF TypeOK
        <4> QED BY <2>1, <2>3, <3>1, <4>2, <4>3 DEF TypeOK
      <3> QED BY <1>2, <2>3, <3>2, <3>3, SortStepFacts
    <2> QED BY <1>2, <2>2, <2>3, SortStepFacts
  <1>3. CASE Label
    BY <1>3 DEF Label, TypeOK, lists
  <1>4. CASE DrawColumn
    BY <1>4, PlotAssumption DEF DrawColumn, TypeOK, lists
  <1>5. CASE DrawTotal
    BY <1>5 DEF DrawTotal, TypeOK, lists
  <1>6. CASE UNCHANGED vars
    BY <1>6 DEF vars, TypeOK, lists
  <1> QED BY <1>1, <1>2, <1>3, <1>4, <1>5, <1>6 DEF Next

\* No loop of the plot indexes a list of numbers beyond its end.
THEOREM TypeCorrect == Spec => []TypeOK
  <1>1. Init => TypeOK
    <2> SUFFICES ASSUME Init PROVE TypeOK
      OBVIOUS
    <2>1. PICK listed \in Listings(Syscalls) :
            /\ p = [k \in Idx |-> truth[listed[k]][1]]
            /\ f = [k \in Idx |-> truth[listed[k]][2]]
            /\ b = [k \in Idx |-> truth[listed[k]][3]]
            /\ syscalls \in IF SameOrder THEN {listed} ELSE Listings(HostSyscalls)
      BY DEF Init
    <2>2. listed \in [Idx -> Syscalls]
      BY DEF Listings, Idx, N
    <2>3. \A k \in Idx : truth[listed[k]] \in Nat \X Nat \X Nat
      BY <2>2, PlotAssumption DEF Init
    <2>4. p \in [Idx -> Nat] /\ f \in [Idx -> Nat] /\ b \in [Idx -> Nat]
      BY <2>1, <2>3
    <2>5. syscalls \in [HIdx -> HostSyscalls]
      <3>1. CASE SameOrder
        BY <2>1, <2>2, <3>1, SizesNat, PlotAssumption
      <3>2. CASE ~SameOrder
        BY <2>1, <3>2 DEF Listings, HIdx, H
      <3> QED BY <3>1, <3>2
    <2> QED BY <2>4, <2>5, SizesNat, PlotAssumption DEF Init, TypeOK
  <1> QED BY <1>1, NextType, PTL DEF Spec

-----------------------------------------------------------------------------
(* The seven lists are permuted together                                   *)

Parallel == InStep /\ Positive

\* Every step keeps the lists in step.
LEMMA NextParallel == TypeOK /\ Parallel /\ [Next]_vars => Parallel'
  <1> SUFFICES ASSUME TypeOK, Parallel, [Next]_vars PROVE Parallel'
    OBVIOUS
  <1> USE SizesNat DEF Ready
  <1>1. CASE Percentages
    <2>1. UNCHANGED <<truth, p, f, b, syscalls>>
      BY <1>1 DEF Percentages
    <2>2. \A k \in Idx : Tot(k)' = Tot(k)
      BY <2>1 DEF Tot
    <2>3. CASE pc' = "crashed"
      BY <2>1, <2>3 DEF Parallel, InStep, Positive
    <2>4. CASE pc' # "crashed"
      BY <1>1, <2>1, <2>2, <2>4, PercentagesFacts DEF Parallel, InStep, Positive
    <2> QED BY <2>3, <2>4
  <1>2. CASE SortStep
    <2>1. UNCHANGED truth /\ pc = "sort"
      BY <1>2 DEF SortStep
    <2>2. CASE UNCHANGED lists
      BY <2>1, <2>2 DEF Parallel, InStep, Positive, Tot, lists
    <2>3. CASE /\ j \in HIdx /\ i \in HIdx
               /\ pp' = Exchange(pp) /\ fp' = Exchange(fp) /\ bp' = Exchange(bp)
               /\ syscalls' = Exchange(syscalls)
               /\ p' = Exchange(p) /\ f' = Exchange(f) /\ b' = Exchange(b)
      <3>1. i \in Idx /\ j \in Idx
        BY <1>2, SortStepFacts
      <3>0. /\ p \in [Idx -> Nat] /\ f \in [Idx -> Nat] /\ b \in [Idx -> Nat]
            /\ pp \in [Idx -> Nat \X Nat] /\ fp \in [Idx -> Nat \X Nat] /\ bp \in [Idx -> Nat \X Nat]
            /\ syscalls \in [HIdx -> HostSyscalls]
        BY <2>1 DEF TypeOK
      <3>2. \A k \in Idx : /\ From(k) \in Idx
                           /\ p'[k] = p[From(k)] /\ f'[k] = f[From(k)] /\ b'[k] = b[From(k)]
        <4>0. \A k \in Idx : From(k) \in Idx
          BY <3>1 DEF From
        <4>1. \A k \in Idx : p'[k] = p[From(k)]
          BY <2>3, <3>0, <3>1 DEF Exchange, From
        <4>2. \A k \in Idx : f'[k] = f[From(k)]
          BY <2>3, <3>0, <3>1 DEF Exchange, From
        <4>3. \A k \in Idx : b'[k] = b[From(k)]
          BY <2>3, <3>0, <3>1 DEF Exchange, From
        <4> QED BY <4>0, <4>1, <4>2, <4>3
      <3>3. \A k \in Idx : pp'[k] = pp[From(k)] /\ fp'[k] = fp[From(k)] /\ bp'[k] = bp[From(k)]
        <4>1. \A k \in Idx : pp'[k] = pp[From(k)]
          BY <2>3, <3>0, <3>1 DEF Exchange, From
        <4>2. \A k \in Idx : fp'[k] = fp[From(k)]
          BY <2>3, <3>0, <3>1 DEF Exchange, From
        <4>3. \A k \in Idx : bp'[k] = bp[From(k)]
          BY <2>3, <3>0, <3>1 DEF Exchange, From
        <4> QED BY <4>1, <4>2, <4>3
      <3>4. \A k \in HIdx : syscalls'[k] = syscalls[From(k)]
        BY <2>3, <3>0 DEF Exchange, From
      <3>5. \A k \in Idx : Tot(k)' = Tot(From(k))
        BY <3>2 DEF Tot
      <3>6. InStep'
        <4>1. \A k \in Idx : /\ pp'[k] = <<p'[k], Tot(k)'>>
                             /\ fp'[k] = <<f'[k], Tot(k)'>>
                             /\ bp'[k] = <<b'[k], Tot(k)'>>
          BY <2>1, <3>2, <3>3, <3>5 DEF Parallel, InStep
        <4>2. SameOrder => \A k \in Idx : <<p'[k], f'[k], b'[k]>> = truth'[syscalls'[k]]
          BY <2>1, <3>2, <3>4, ZenonT(60) DEF Parallel, InStep
        <4> QED BY <4>1, <4>2 DEF InStep
      <3>7. Positive'
        BY <2>1, <3>2, <3>5 DEF Parallel, Positive
      <3> QED BY <3>6, <3>7 DEF Parallel
    <2> QED BY <1>2, <2>2, <2>3, SortStepFacts
  <1>3. CASE Label \/ DrawColumn \/ DrawTotal
    <2>1. UNCHANGED <<truth, lists>> /\ pc \in {"sort", "draw"}
      BY <1>3 DEF Label, DrawColumn, DrawTotal
    <2> QED BY <2>1 DEF Parallel, InStep, Positive, Tot, lists
  <1>4. CASE UNCHANGED vars
    BY <1>4 DEF vars, lists, Parallel, InStep, Positive, Tot
  <1> QED BY <1>1, <1>2, <1>3, <1>4 DEF Next

\* Parallel is an invariant.
LEMMA ParallelAlways == Spec => []Parallel
  <1>1. Init => Parallel
    <2> SUFFICES ASSUME Init PROVE Parallel
      OBVIOUS
    <2>1. PICK listed \in Listings(Syscalls) :
            /\ p = [k \in Idx |-> truth[listed[k]][1]]
            /\ f = [k \in Idx |-> truth[listed[k]][2]]
            /\ b = [k \in Idx |-> truth[listed[k]][3]]
            /\ syscalls \in IF SameOrder THEN {listed} ELSE Listings(HostSyscalls)
      BY DEF Init
    <2>2. \A k \in Idx : truth[listed[k]] \in Nat \X Nat \X Nat
      BY PlotAssumption DEF Init, Listings, Idx, N
    <2>3. \A k \in Idx : <<p[k], f[k], b[k]>> = truth[listed[k]]
      BY <2>1, <2>2
    <2> QED BY <2>1, <2>3 DEF Init, Parallel, InStep, Positive, Ready
  <1> QED BY <1>1, TypeCorrect, NextParallel, PTL DEF Spec

\* Whatever is sorted, a label keeps the numbers and the percentages it came with; with
\* one listing order on both sides they are those of the folder it names.
THEOREM InStepAlways == Spec => []InStep
  <1>1. Parallel => InStep
    BY DEF Parallel
  <1> QED BY ParallelAlways, <1>1, PTL

-----------------------------------------------------------------------------
(* The order of the rows                                                   *)

\* A positive factor can be cancelled.
LEMMA CancelLess ==
  ASSUME NEW a \in Nat, NEW c \in Nat, NEW t \in Nat, t > 0
  PROVE  a * t < c * t <=> a < c
  OBVIOUS

\* Multiplication by a natural number is monotone.
LEMMA MulMono ==
  ASSUME NEW a \in Nat, NEW c \in Nat, NEW t \in Nat, a <= c
  PROVE  a * t <= c * t
  OBVIOUS

\* The order of fractions with positive denominators is transitive.
LEMMA ShareTransitive ==
  ASSUME NEW a \in Nat, NEW d \in Nat, NEW c \in Nat,
         NEW r \in Nat, NEW s \in Nat, NEW t \in Nat, r > 0, s > 0, t > 0,
         a * s <= d * r, d * t <= c * s
  PROVE  a * t <= c * r
  <1>1. (a * s) * t <= (d * r) * t
    BY MulMono
  <1>2. (d * t) * r <= (c * s) * r
    BY MulMono
  <1>3. (d * r) * t = (d * t) * r /\ (a * s) * t = (a * t) * s /\ (c * s) * r = (c * r) * s
    OBVIOUS
  <1>4. (a * t) * s <= (c * r) * s
    BY <1>1, <1>2, <1>3
  <1>5. a * t \in Nat /\ c * r \in Nat
    OBVIOUS
  <1>6. ~ (c * r < a * t)
    BY <1>4, <1>5, CancelLess
  <1> QED BY <1>5, <1>6

\* The two comparisons of the sort, in terms of the numbers.
LEMMA LessFacts ==
  ASSUME TypeOK, Parallel, Ready, NEW k \in Idx, NEW m \in Idx
  PROVE  /\ p[k] \in Nat /\ f[k] \in Nat /\ b[k] \in Nat /\ Tot(k) \in Nat /\ Tot(k) > 0
         /\ Tot(k) = p[k] + f[k] + b[k]
         /\ Less(pp[k], pp[m]) <=> p[k] * Tot(m) < p[m] * Tot(k)
         /\ Less(bp[k], bp[m]) <=> b[k] * Tot(m) < b[m] * Tot(k)
         /\ Unported(k) <=> b[k] = Tot(k)
  <1>1. p[k] \in Nat /\ f[k] \in Nat /\ b[k] \in Nat
    BY DEF TypeOK
  <1>2. Tot(k) = p[k] + f[k] + b[k] /\ Tot(k) > 0
    BY DEF Tot, Parallel, Positive
  <1>3. /\ pp[k] = <<p[k], Tot(k)>> /\ bp[k] = <<b[k], Tot(k)>>
        /\ pp[m] = <<p[m], Tot(m)>> /\ bp[m] = <<b[m], Tot(m)>>
    BY DEF Parallel, InStep, Ready
  <1>4. /\ Less(pp[k], pp[m]) <=> p[k] * Tot(m) < p[m] * Tot(k)
        /\ Less(bp[k], bp[m]) <=> b[k] * Tot(m) < b[m] * Tot(k)
    BY <1>3 DEF Less
  <1>5. Unported(k) <=> b[k] = Tot(k)
    BY <1>3 DEF Unported
  <1> QED BY <1>1, <1>2, <1>4, <1>5

\* Rows are exchanged only if the second is not unported, and left alone only if the
\* first is not unported or the second is.
LEMMA OutOfOrderUnported ==
  ASSUME TypeOK, Parallel, Ready, i \in Idx, j \in Idx
  PROVE  /\ OutOfOrder => ~Unported(j)
         /\ ~OutOfOrder /\ Unported(i) => Unported(j)
  <1>1. /\ p[i] \in Nat /\ f[i] \in Nat /\ b[i] \in Nat /\ Tot(i) \in Nat /\ Tot(i) > 0
        /\ Tot(i) = p[i] + f[i] + b[i] /\ (Unported(i) <=> b[i] = Tot(i))
        /\ p[j] \in Nat /\ f[j] \in Nat /\ b[j] \in Nat /\ Tot(j) \in Nat /\ Tot(j) > 0
        /\ Tot(j) = p[j] + f[j] + b[j] /\ (Unported(j) <=> b[j] = Tot(j))
    BY LessFacts
  <1>2. /\ Less(pp[i], pp[j]) <=> p[i] * Tot(j) < p[j] * Tot(i)
        /\ Less(bp[j], bp[i]) <=> b[j] * Tot(i) < b[i] * Tot(j)
    BY LessFacts
  <1>3. ASSUME OutOfOrder, Unported(j) PROVE FALSE
    <2>1. p[j] = 0 /\ b[j] = Tot(j) /\ b[i] <= Tot(i)
      BY <1>1, <1>3
    <2>2. p[j] * Tot(i) = 0 /\ p[i] * Tot(j) \in Nat
      BY <1>1, <2>1
    <2>3. b[i] * Tot(j) <= Tot(i) * Tot(j)
      BY <1>1, <2>1, MulMono
    <2>4. b[j] * Tot(i) = Tot(i) * Tot(j) /\ b[i] * Tot(j) \in Nat /\ Tot(i) * Tot(j) \in Nat
      BY <1>1, <2>1
    <2> QED BY <1>2, <1>3, <2>2, <2>3, <2>4 DEF OutOfOrder
  <1>4. ASSUME ~OutOfOrder, Unported(i), ~Unported(j) PROVE FALSE
    <2>1. b[i] = Tot(i) /\ b[j] < Tot(j)
      BY <1>1, <1>4
    <2>2. b[j] * Tot(i) < Tot(j) * Tot(i)
      BY <1>1, <2>1, CancelLess
    <2>3. Tot(j) * Tot(i) = b[i] * Tot(j)
      BY <1>1, <2>1
    <2> QED BY <1>2, <1>4, <2>2, <2>3 DEF OutOfOrder
  <1> QED BY <1>3, <1>4

\* In the part of the list that is final, and within a pass in the part already seen,
\* nothing that ran comes after an unported folder.
UnportedInv ==
  /\ pc = "percent" => i = 0 /\ j = 1
  /\ Ready => \A k, m \in Idx : k < i /\ k < m /\ Unported(k) => Unported(m)
  /\ pc = "sort" /\ i < N - 1 =>
       \A m \in Idx : i < m /\ m < j /\ Unported(i) => Unported(m)
  /\ UnportedLast

\* A turn of the sort, seen at the shares of broken tests.
LEMMA SortStepUnported ==
  ASSUME TypeOK, Parallel, UnportedInv, SortStep, pc' = "sort"
  PROVE  UnportedInv'
  <1> USE SizesNat
  <1>1. /\ i \in Idx /\ j \in Idx /\ i < j /\ i \in Nat /\ j \in Nat
        /\ pc = "sort" /\ i < N - 1 /\ Ready
        /\ bp \in [Idx -> Nat \X Nat]
    BY SortStepFacts DEF SortStep, TypeOK, Ready
  <1>2. /\ \A k \in Idx : From(k) \in Idx
        /\ \/ ~OutOfOrder /\ \A k \in Idx : bp'[k] = bp[k]
           \/ OutOfOrder /\ \A k \in Idx : bp'[k] = bp[From(k)]
    <2>1. \A k \in Idx : From(k) \in Idx
      BY <1>1 DEF From
    <2>2. bp' = Exchange(bp) => \A k \in Idx : bp'[k] = bp[From(k)]
      BY <1>1 DEF Exchange, From
    <2> QED BY <2>1, <2>2, SortStepFacts DEF lists
  <1>3. \/ j + 1 < N /\ i' = i /\ j' = j + 1
        \/ j + 1 = N /\ i' = i + 1 /\ j' = i + 2
    <2>1. Advance /\ j < N
      BY <1>1, SortStepFacts DEF Idx
    <2> QED BY <1>1, <2>1 DEF Advance
  <1> DEFINE U(k) == bp'[k][1] = bp'[k][2]
  <1>4. \A k \in Idx : Unported(k)' <=> U(k)
    BY DEF Unported
  <1>5. \A m \in Idx : i < m /\ m <= j /\ U(i) => U(m)
    <2>1. CASE OutOfOrder
      <3>1. bp'[i] = bp[j]
        BY <1>1, <1>2, <2>1 DEF From
      <3>2. ~Unported(j)
        BY <1>1, <2>1, OutOfOrderUnported
      <3> QED BY <3>1, <3>2 DEF Unported
    <2>2. CASE ~OutOfOrder
      <3>1. Unported(i) => Unported(j)
        BY <1>1, <2>2, OutOfOrderUnported
      <3>2. \A m \in Idx : i < m /\ m < j /\ Unported(i) => Unported(m)
        BY <1>1 DEF UnportedInv
      <3>3. \A k \in Idx : U(k) <=> Unported(k)
        BY <1>2, <2>2 DEF Unported
      <3>4. \A m \in Idx : m \in Int /\ (m <= j => m < j \/ m = j)
        BY <1>1 DEF Idx
      <3> QED BY <1>1, <3>1, <3>2, <3>3, <3>4
    <2> QED BY <2>1, <2>2
  <1>6. \A k, m \in Idx : k < i /\ k < m /\ U(k) => U(m)
    <2> SUFFICES ASSUME NEW k \in Idx, NEW m \in Idx, k < i, k < m, U(k) PROVE U(m)
      OBVIOUS
    <2>1. \A x \in Idx : k < x /\ Unported(k) => Unported(x)
      BY <1>1 DEF UnportedInv
    <2>2. k < From(m) /\ From(k) = k
      BY <1>1 DEF From, Idx
    <2> QED BY <1>2, <2>1, <2>2 DEF Unported
  <1> HIDE DEF U
  <1>7. CASE j + 1 < N /\ i' = i /\ j' = j + 1
    <2>1. \A k, m \in Idx : k < i' /\ k < m /\ U(k) => U(m)
      BY <1>6, <1>7
    <2>2. \A m \in Idx : i' < m /\ m < j' /\ U(i') => U(m)
      BY <1>1, <1>5, <1>7 DEF Idx
    <2> QED BY <1>4, <2>1, <2>2 DEF UnportedInv, UnportedLast, Sorted, Unported, U
  <1>8. CASE j + 1 = N /\ i' = i + 1 /\ j' = i + 2
    <2>1. \A k, m \in Idx : /\ k < i' => k < i \/ k = i
                            /\ m <= j
                            /\ ~(i' < m /\ m < j')
      BY <1>1, <1>8 DEF Idx
    <2>2. \A k, m \in Idx : k < i' /\ k < m /\ U(k) => U(m)
      BY <1>5, <1>6, <2>1
    <2> QED BY <1>4, <2>1, <2>2 DEF UnportedInv, UnportedLast, Sorted
  <1> QED BY <1>3, <1>7, <1>8

\* Every step keeps UnportedInv.
LEMMA NextUnported == TypeOK /\ Parallel /\ UnportedInv /\ [Next]_vars => UnportedInv'
  <1> SUFFICES ASSUME TypeOK, Parallel, UnportedInv, [Next]_vars PROVE UnportedInv'
    OBVIOUS
  <1> USE SizesNat
  <1>1. CASE Percentages
    <2>1. pc = "percent" /\ i' = 0 /\ j' = 1 /\ pc' \in {"sort", "crashed"}
      BY <1>1 DEF Percentages, UnportedInv
    <2>2. \A k \in Idx : ~(k < 0) /\ ~(0 < k /\ k < 1)
      BY DEF Idx
    <2> QED BY <2>1, <2>2 DEF UnportedInv, UnportedLast, Sorted
  <1>2. CASE SortStep
    <2>1. CASE pc' = "sort"
      BY <1>2, <2>1, SortStepUnported
    <2>2. CASE pc' = "crashed"
      BY <2>2 DEF UnportedInv, UnportedLast, Sorted, Ready
    <2> QED BY <1>2, <2>1, <2>2, SortStepFacts
  <1>3. CASE Label
    <2>1. UNCHANGED <<lists, i, j>> /\ pc = "sort" /\ i >= N - 1 /\ pc' \in {"draw", "crashed"}
      BY <1>3 DEF Label
    <2>2. \A k, m \in Idx : k < m => k < i
      BY <2>1 DEF Idx, TypeOK
    <2>3. \A k, m \in Idx : k < m /\ Unported(k) => Unported(m)
      BY <2>1, <2>2 DEF UnportedInv, Ready
    <2> QED BY <2>1, <2>3 DEF UnportedInv, UnportedLast, Unported, lists
  <1>4. CASE DrawColumn \/ DrawTotal \/ UNCHANGED vars
    <2>1. UNCHANGED <<lists, i, j>>
      BY <1>4 DEF DrawColumn, DrawTotal, vars
    <2>2. pc' = pc \/ (Sorted /\ pc' = "crashed") \/ (Sorted /\ pc' = "shown")
      BY <1>4 DEF DrawColumn, DrawTotal, vars, Sorted
    <2>3. CASE pc' = pc
      BY <2>1, <2>3 DEF UnportedInv, UnportedLast, Unported, Sorted, Ready, lists
    <2>4. CASE Sorted /\ pc' = "crashed"
      BY <2>4 DEF UnportedInv, UnportedLast, Sorted, Ready
    <2>5. CASE Sorted /\ pc' = "shown"
      <3>1. \A k, m \in Idx : k < m /\ Unported(k) => Unported(m)
        BY <2>5 DEF UnportedInv, UnportedLast
      <3> QED BY <2>1, <2>5, <3>1 DEF UnportedInv, UnportedLast, Unported, lists
    <2> QED BY <2>2, <2>3, <2>4, <2>5
  <1> QED BY <1>1, <1>2, <1>3, <1>4 DEF Next

\* runtest 91 holds for folders all of whose tests are broken, for every number of rows
\* and although the comparison at line 94 is not an order.
THEOREM UnportedComeLast == Spec => []UnportedLast
  <1>1. Init => UnportedInv
    BY DEF Init, UnportedInv, UnportedLast, Sorted, Ready
  <1>2. UnportedInv => UnportedLast
    BY DEF UnportedInv
  <1> QED BY <1>1, <1>2, TypeCorrect, ParallelAlways, NextUnported, PTL DEF Spec

-----------------------------------------------------------------------------
(* The order of the rows that ran                                          *)

Unmixed == \A k \in Idx : Unported(k) \/ bp[k][1] = 0

\* "At least as large a share of passing tests" is transitive.
LEMMA BetterTransitive ==
  ASSUME TypeOK, Parallel, Ready, NEW k \in Idx, NEW m \in Idx, NEW n \in Idx,
         ~Less(pp[k], pp[m]), ~Less(pp[m], pp[n])
  PROVE  ~Less(pp[k], pp[n])
  <1>1. /\ p[k] \in Nat /\ p[m] \in Nat /\ p[n] \in Nat
        /\ Tot(k) \in Nat /\ Tot(m) \in Nat /\ Tot(n) \in Nat
        /\ Tot(k) > 0 /\ Tot(m) > 0 /\ Tot(n) > 0
    BY LessFacts
  <1>2. /\ ~(p[k] * Tot(m) < p[m] * Tot(k)) /\ ~(p[m] * Tot(n) < p[n] * Tot(m))
        /\ Less(pp[k], pp[n]) <=> p[k] * Tot(n) < p[n] * Tot(k)
    BY LessFacts
  <1>3. /\ p[n] * Tot(m) \in Nat /\ p[m] * Tot(n) \in Nat /\ p[m] * Tot(k) \in Nat
        /\ p[k] * Tot(m) \in Nat /\ p[n] * Tot(k) \in Nat /\ p[k] * Tot(n) \in Nat
    BY <1>1
  <1>4. p[n] * Tot(m) <= p[m] * Tot(n) /\ p[m] * Tot(k) <= p[k] * Tot(m)
    BY <1>2, <1>3
  <1>5. p[n] * Tot(k) <= p[k] * Tot(n)
    BY <1>1, <1>4, ShareTransitive
  <1> QED BY <1>2, <1>3, <1>5

\* When no folder is mixed, an exchange never moves a worse row to the front, whichever
\* half of the condition at runtest 94 asked for it.
LEMMA OutOfOrderBetter ==
  ASSUME TypeOK, Parallel, Ready, Unmixed, i \in Idx, j \in Idx
  PROVE  /\ OutOfOrder => ~Less(pp[j], pp[i])
         /\ ~OutOfOrder => ~Less(pp[i], pp[j])
  <1>1. /\ p[i] \in Nat /\ f[i] \in Nat /\ b[i] \in Nat /\ Tot(i) \in Nat /\ Tot(i) > 0
        /\ Tot(i) = p[i] + f[i] + b[i] /\ (Unported(i) <=> b[i] = Tot(i))
        /\ p[j] \in Nat /\ b[j] \in Nat /\ Tot(j) \in Nat /\ Tot(j) > 0
    BY LessFacts
  <1>2. /\ Less(pp[i], pp[j]) <=> p[i] * Tot(j) < p[j] * Tot(i)
        /\ Less(pp[j], pp[i]) <=> p[j] * Tot(i) < p[i] * Tot(j)
        /\ Less(bp[j], bp[i]) <=> b[j] * Tot(i) < b[i] * Tot(j)
    BY LessFacts
  <1>3. p[i] * Tot(j) \in Nat /\ p[j] * Tot(i) \in Nat /\ b[j] * Tot(i) \in Nat
    BY <1>1
  <1>4. CASE Less(pp[i], pp[j])
    BY <1>2, <1>3, <1>4 DEF OutOfOrder
  <1>5. CASE ~Less(pp[i], pp[j]) /\ Less(bp[j], bp[i])
    <2>1. b[i] # 0
      <3> SUFFICES ASSUME b[i] = 0 PROVE FALSE
        OBVIOUS
      <3>1. b[i] * Tot(j) = 0
        BY <1>1
      <3> QED BY <1>2, <1>3, <1>5, <3>1
    <2>2. bp[i] = <<b[i], Tot(i)>>
      BY DEF Parallel, InStep, Ready
    <2>3. Unported(i)
      BY <2>1, <2>2 DEF Unmixed
    <2>4. p[i] = 0
      BY <1>1, <2>3
    <2>5. p[i] * Tot(j) = 0
      BY <1>1, <2>4
    <2> QED BY <1>2, <1>3, <1>5, <2>5 DEF OutOfOrder
  <1>6. CASE ~Less(pp[i], pp[j]) /\ ~Less(bp[j], bp[i])
    BY <1>6 DEF OutOfOrder
  <1> QED BY <1>4, <1>5, <1>6

\* Without mixed folders the part before i is final, and within a pass the row at i is the
\* best of those seen.
BestInv ==
  /\ pc = "percent" => i = 0 /\ j = 1
  /\ Ready /\ Unmixed => \A k, m \in Idx : k < i /\ k < m => ~Less(pp[k], pp[m])
  /\ pc = "sort" /\ i < N - 1 /\ Unmixed =>
       \A m \in Idx : i < m /\ m < j => ~Less(pp[i], pp[m])
  /\ BestFirst

\* A turn of the sort, seen at the shares of passing tests.
LEMMA SortStepBest ==
  ASSUME TypeOK, Parallel, BestInv, SortStep, pc' = "sort"
  PROVE  BestInv'
  <1> USE SizesNat
  <1>1. /\ i \in Idx /\ j \in Idx /\ i < j /\ i \in Nat /\ j \in Nat
        /\ pc = "sort" /\ i < N - 1 /\ Ready
        /\ bp \in [Idx -> Nat \X Nat] /\ pp \in [Idx -> Nat \X Nat]
    BY SortStepFacts DEF SortStep, TypeOK, Ready
  <1>2. /\ \A k \in Idx : From(k) \in Idx /\ From(From(k)) = k
        /\ \/ ~OutOfOrder /\ \A k \in Idx : pp'[k] = pp[k] /\ bp'[k] = bp[k]
           \/ OutOfOrder /\ \A k \in Idx : pp'[k] = pp[From(k)] /\ bp'[k] = bp[From(k)]
    <2>1. \A k \in Idx : From(k) \in Idx /\ From(From(k)) = k
      BY <1>1 DEF From
    <2>2. bp' = Exchange(bp) => \A k \in Idx : bp'[k] = bp[From(k)]
      BY <1>1 DEF Exchange, From
    <2>3. pp' = Exchange(pp) => \A k \in Idx : pp'[k] = pp[From(k)]
      BY <1>1 DEF Exchange, From
    <2> QED BY <2>1, <2>2, <2>3, SortStepFacts DEF lists
  <1>3. \/ j + 1 < N /\ i' = i /\ j' = j + 1
        \/ j + 1 = N /\ i' = i + 1 /\ j' = i + 2
    <2>1. Advance /\ j < N
      BY <1>1, SortStepFacts DEF Idx
    <2> QED BY <1>1, <2>1 DEF Advance
  <1>4. ~BestFirst' => pc' # "sort"
    BY DEF BestFirst, Sorted
  <1> SUFFICES ASSUME Unmixed'
               PROVE  /\ \A k, m \in Idx : k < i' /\ k < m => ~Less(pp'[k], pp'[m])
                      /\ i' < N - 1 => \A m \in Idx : i' < m /\ m < j' => ~Less(pp'[i'], pp'[m])
    BY <1>4 DEF BestInv
  <1>5. Unmixed
    <2>1. \A k \in Idx : \E m \in Idx : bp[k] = bp'[m]
      BY <1>2
    <2>2. \A m \in Idx : bp'[m][1] = bp'[m][2] \/ bp'[m][1] = 0
      BY DEF Unmixed, Unported
    <2> QED BY <2>1, <2>2 DEF Unmixed, Unported
  <1>6. /\ OutOfOrder => ~Less(pp[j], pp[i])
        /\ ~OutOfOrder => ~Less(pp[i], pp[j])
    BY <1>1, <1>5, OutOfOrderBetter
  <1>7. \A m \in Idx : i < m /\ m <= j => ~Less(pp'[i], pp'[m])
    <2> SUFFICES ASSUME NEW m \in Idx, i < m, m <= j PROVE ~Less(pp'[i], pp'[m])
      OBVIOUS
    <2>1. m < j => ~Less(pp[i], pp[m])
      BY <1>1, <1>5 DEF BestInv
    <2>2. m < j \/ m = j
      BY <1>1 DEF Idx
    <2>3. CASE ~OutOfOrder
      BY <1>1, <1>2, <1>6, <2>1, <2>2, <2>3
    <2>4. CASE OutOfOrder /\ m = j
      <3>1. pp'[i] = pp[j] /\ pp'[j] = pp[i]
        BY <1>1, <1>2, <2>4 DEF From
      <3> QED BY <1>6, <2>4, <3>1
    <2>5. CASE OutOfOrder /\ m < j
      <3>1. m # i /\ m # j
        BY <1>1, <2>5 DEF Idx
      <3>2. pp'[i] = pp[j] /\ pp'[m] = pp[m]
        BY <1>1, <1>2, <2>5, <3>1 DEF From
      <3>3. ~Less(pp[j], pp[m])
        BY <1>1, <1>6, <2>1, <2>5, BetterTransitive
      <3> QED BY <3>2, <3>3
    <2> QED BY <2>2, <2>3, <2>4, <2>5
  <1>8. \A k, m \in Idx : k < i /\ k < m => ~Less(pp'[k], pp'[m])
    <2> SUFFICES ASSUME NEW k \in Idx, NEW m \in Idx, k < i, k < m
                 PROVE  ~Less(pp'[k], pp'[m])
      OBVIOUS
    <2>1. \A x \in Idx : k < x => ~Less(pp[k], pp[x])
      BY <1>1, <1>5 DEF BestInv
    <2>2. k < From(m) /\ From(k) = k
      BY <1>1 DEF From, Idx
    <2>3. (pp'[k] = pp[k] /\ pp'[m] = pp[m]) \/ (pp'[k] = pp[k] /\ pp'[m] = pp[From(m)])
      BY <1>2, <2>2
    <2> QED BY <1>2, <2>1, <2>2, <2>3
  <1>9. CASE j + 1 < N /\ i' = i /\ j' = j + 1
    <2>1. \A m \in Idx : m < j' => m <= j
      BY <1>1, <1>9 DEF Idx
    <2> QED BY <1>7, <1>8, <1>9, <2>1
  <1>10. CASE j + 1 = N /\ i' = i + 1 /\ j' = i + 2
    <2>1. \A k, m \in Idx : /\ k < i' => k < i \/ k = i
                            /\ m <= j
                            /\ ~(i' < m /\ m < j')
      BY <1>1, <1>10 DEF Idx
    <2> QED BY <1>7, <1>8, <2>1
  <1> QED BY <1>3, <1>9, <1>10

\* Every step keeps BestInv.
LEMMA NextBest == TypeOK /\ Parallel /\ BestInv /\ [Next]_vars => BestInv'
  <1> SUFFICES ASSUME TypeOK, Parallel, BestInv, [Next]_vars PROVE BestInv'
    OBVIOUS
  <1> USE SizesNat
  <1>1. CASE Percentages
    <2>1. pc = "percent" /\ i' = 0 /\ j' = 1 /\ pc' \in {"sort", "crashed"}
      BY <1>1 DEF Percentages, BestInv
    <2>2. \A k \in Idx : ~(k < 0) /\ ~(0 < k /\ k < 1)
      BY DEF Idx
    <2> QED BY <2>1, <2>2 DEF BestInv, BestFirst, Sorted
  <1>2. CASE SortStep
    <2>1. CASE pc' = "sort"
      BY <1>2, <2>1, SortStepBest
    <2>2. CASE pc' = "crashed"
      BY <2>2 DEF BestInv, BestFirst, Sorted, Ready
    <2> QED BY <1>2, <2>1, <2>2, SortStepFacts
  <1>3. CASE Label
    <2>1. UNCHANGED <<lists, i, j>> /\ pc = "sort" /\ i >= N - 1 /\ pc' \in {"draw", "crashed"}
      BY <1>3 DEF Label
    <2>2. \A k, m \in Idx : k < m => k < i
      BY <2>1 DEF Idx, TypeOK
    <2>3. Unmixed => \A k, m \in Idx : k < m => ~Less(pp[k], pp[m])
      BY <2>1, <2>2 DEF BestInv, Ready
    <2> QED BY <2>1, <2>3 DEF BestInv, BestFirst, Unmixed, Unported, lists
  <1>4. CASE DrawColumn \/ DrawTotal \/ UNCHANGED vars
    <2>1. UNCHANGED <<lists, i, j>>
      BY <1>4 DEF DrawColumn, DrawTotal, vars
    <2>2. pc' = pc \/ (Sorted /\ pc' = "crashed") \/ (Sorted /\ pc' = "shown")
      BY <1>4 DEF DrawColumn, DrawTotal, vars, Sorted
    <2>3. CASE pc' = pc
      BY <2>1, <2>3 DEF BestInv, BestFirst, Unmixed, Unported, Sorted, Ready, lists
    <2>4. CASE Sorted /\ pc' = "crashed"
      BY <2>4 DEF BestInv, BestFirst, Sorted, Ready
    <2>5. CASE Sorted /\ pc' = "shown"
      <3>1. Unmixed => \A k, m \in Idx : k < m => ~Less(pp[k], pp[m])
        BY <2>5 DEF BestInv, BestFirst, Unmixed
      <3> QED BY <2>1, <2>5, <3>1 DEF BestInv, BestFirst, Unmixed, Unported, lists
    <2> QED BY <2>2, <2>3, <2>4, <2>5
  <1> QED BY <1>1, <1>2, <1>3, <1>4 DEF Next

\* Without mixed folders the rows go from the largest share of passing tests to the
\* smallest, for every number of rows.
THEOREM BestComesFirst == Spec => []BestFirst
  <1>1. Init => BestInv
    BY DEF Init, BestInv, BestFirst, Sorted, Ready
  <1>2. BestInv => BestFirst
    BY DEF BestInv
  <1> QED BY <1>1, <1>2, TypeCorrect, ParallelAlways, NextBest, PTL DEF Spec

-----------------------------------------------------------------------------
(* For how many folders there is a plot                                    *)

\* The columns drawn so far had lengths that matplotlib accepts.
ColumnsFit ==
  /\ pc \in {"percent", "sort"} => col = 0
  /\ pc \in {"draw", "shown"} => \A c \in 0 .. (Columns - 1) : c < col => Fits(c)
  /\ pc = "shown" => col = Columns

\* If every column fits, there are as many folders as places.
LEMMA FitExact ==
  ASSUME HostSyscalls = Syscalls, Columns > 1, PerColumn > 2,
         \A c \in 0 .. (Columns - 1) : Fits(c)
  PROVE  N = Columns * PerColumn
  <1> DEFINE q == N \div Columns
             r == N % Columns
  <1> USE SizesNat, PlotAssumption
  <1>1. /\ q \in Nat /\ r \in Nat /\ r < Columns
        /\ N = Columns * q + r
    OBVIOUS
  <1>2. H = N
    BY DEF H, N
  <1>3. 0 \in 0 .. (Columns - 1) /\ Columns - 1 \in 0 .. (Columns - 1) /\ ~(Columns - 1 < r)
    BY <1>1
  <1>4. DataLen(0) = q + (IF 0 < r THEN 1 ELSE 0) /\ DataLen(Columns - 1) = q
    BY <1>1, <1>3 DEF DataLen
  <1>5. q \in {1, PerColumn} /\ r = 0
    <2>1. q \in {1, PerColumn} /\ q + (IF 0 < r THEN 1 ELSE 0) \in {1, PerColumn}
      BY <1>3, <1>4 DEF Fits
    <2> HIDE DEF q, r
    <2> QED BY <1>1, <2>1
  <1>6. q # 1
    <2> SUFFICES ASSUME q = 1 PROVE FALSE
      OBVIOUS
    <2>1. N = Columns
      BY <1>1, <1>5
    <2>2. LabelLen(Columns - 1) >= 1
      BY <1>3 DEF Fits
    <2>3. N - (Columns - 1) * PerColumn >= 1
      BY <1>2, <2>2 DEF LabelLen, MinOf
    <2>4. (Columns - 1) * 2 <= (Columns - 1) * PerColumn
      <3>1. 2 * (Columns - 1) <= PerColumn * (Columns - 1)
        BY MulMono, Columns - 1 \in Nat
      <3> QED BY <3>1
    <2> QED BY <2>1, <2>3, <2>4
  <1> QED BY <1>1, <1>5, <1>6

\* Every step keeps ColumnsFit.
LEMMA NextColumns == TypeOK /\ ColumnsFit /\ [Next]_vars => ColumnsFit'
  <1> SUFFICES ASSUME TypeOK, ColumnsFit, [Next]_vars PROVE ColumnsFit'
    OBVIOUS
  <1> USE PlotAssumption
  <1>0. \A c : Fits(c)' <=> Fits(c)
    BY DEF Fits, LabelLen, DataLen, N, H
  <1>1. CASE Percentages
    BY <1>1 DEF Percentages, ColumnsFit
  <1>2. CASE SortStep
    <2>1. col' = col /\ pc = "sort" /\ pc' \in {"sort", "crashed"}
      BY <1>2, SortStepFacts DEF SortStep
    <2> QED BY <2>1 DEF ColumnsFit
  <1>3. CASE Label
    <2>1. col' = 0 /\ pc' \in {"draw", "crashed"}
      BY <1>3 DEF Label, ColumnsFit
    <2>2. \A c \in 0 .. (Columns - 1) : ~(c < 0)
      OBVIOUS
    <2> QED BY <2>1, <2>2 DEF ColumnsFit
  <1>4. CASE DrawColumn
    <2>1. CASE pc' = "crashed"
      BY <2>1 DEF ColumnsFit
    <2>2. CASE pc' # "crashed"
      <3>1. pc = "draw" /\ pc' = "draw" /\ Fits(col) /\ col' = col + 1 /\ col \in Nat
        BY <1>4, <2>2 DEF DrawColumn, TypeOK
      <3>2. \A c \in 0 .. (Columns - 1) : c < col' => c < col \/ c = col
        BY <3>1
      <3> QED BY <1>0, <3>1, <3>2 DEF ColumnsFit
    <2> QED BY <2>1, <2>2
  <1>5. CASE DrawTotal
    BY <1>0, <1>5 DEF DrawTotal, ColumnsFit
  <1>6. CASE UNCHANGED vars
    BY <1>0, <1>6 DEF vars, ColumnsFit
  <1> QED BY <1>1, <1>2, <1>3, <1>4, <1>5, <1>6 DEF Next

\* Of runtest's figures 6 and 60: adding or removing a folder always loses the plot.
THEOREM ShownOnlyWhenExact == Spec => []ShownExact
  <1>1. Init => ColumnsFit
    BY PlotAssumption DEF Init, ColumnsFit
  <1>2. ColumnsFit => ShownExact
    <2> SUFFICES ASSUME ColumnsFit, pc = "shown", HostSyscalls = Syscalls, Columns > 1, PerColumn > 2
                 PROVE  N = Columns * PerColumn
      BY DEF ShownExact
    <2>1. \A c \in 0 .. (Columns - 1) : Fits(c)
      BY PlotAssumption DEF ColumnsFit
    <2> QED BY <2>1, FitExact
  <1> QED BY <1>1, <1>2, TypeCorrect, NextColumns, PTL DEF Spec

-----------------------------------------------------------------------------
(* The total                                                               *)

Column(n) == [s \in Syscalls |-> truth[s][n]]

\* The sums of the three rows are those of the folders, whatever the sort has exchanged.
SumsKept ==
  /\ SumOver(p, Idx) = SumOver(Column(1), Syscalls)
  /\ SumOver(f, Idx) = SumOver(Column(2), Syscalls)
  /\ SumOver(b, Idx) = SumOver(Column(3), Syscalls)
  /\ pc = "shown" => total = <<SumOver(p, Idx), SumOver(f, Idx), SumOver(b, Idx)>>

\* There are as many positions as folders.
LEMMA IdxFinite == IsFiniteSet(Idx) /\ Cardinality(Idx) = Cardinality(Syscalls)
  BY SizesNat, FS_Interval, SMTT(30) DEF Idx, N

\* An exchange keeps the sum of a row.
LEMMA ExchangeSum ==
  ASSUME NEW l \in [Idx -> Nat], i \in Idx, j \in Idx
  PROVE  SumOver(Exchange(l), Idx) = SumOver(l, Idx)
  <1> DEFINE h == [k \in Idx |-> From(k)]
  <1>1. Exchange(l) \in [Idx -> Nat] /\ \A k \in Idx : From(k) \in Idx /\ Exchange(l)[k] = l[From(k)]
    BY ExchangeFacts
  <1>2. h \in Injection(Idx, Idx) /\ \A k \in Idx : Exchange(l)[k] = l[h[k]]
    BY <1>1 DEF Injection, IsInjective, From
  <1>3. {h[k] : k \in Idx} = Idx
    BY <1>1 DEF From
  <1> HIDE DEF h
  <1>4. SumOver(Exchange(l), Idx) = SumOver(l, {h[k] : k \in Idx})
    BY <1>1, <1>2, IdxFinite, SumEnumerated
  <1> QED BY <1>3, <1>4

\* Every step keeps the sums.
LEMMA NextSums == TypeOK /\ SumsKept /\ [Next]_vars => SumsKept'
  <1> SUFFICES ASSUME TypeOK, SumsKept, [Next]_vars PROVE SumsKept'
    OBVIOUS
  <1>1. CASE SortStep
    <2>1. UNCHANGED truth /\ pc' # "shown" /\ i \in Idx /\ j \in Idx
      BY <1>1, SortStepFacts DEF SortStep
    <2>2. \A n : Column(n)' = Column(n)
      BY <2>1 DEF Column
    <2>3. CASE UNCHANGED <<p, f, b>>
      BY <2>1, <2>2, <2>3 DEF SumsKept
    <2>4. CASE p' = Exchange(p) /\ f' = Exchange(f) /\ b' = Exchange(b)
      <3>1. /\ SumOver(p', Idx) = SumOver(p, Idx)
            /\ SumOver(f', Idx) = SumOver(f, Idx)
            /\ SumOver(b', Idx) = SumOver(b, Idx)
        BY <2>1, <2>4, ExchangeSum DEF TypeOK
      <3> QED BY <2>1, <2>2, <3>1 DEF SumsKept
    <2> QED BY <1>1, <2>3, <2>4, SortStepFacts DEF lists
  <1>2. CASE DrawTotal
    <2>1. UNCHANGED <<truth, p, f, b>>
          /\ total' = <<SumOver(p, Idx), SumOver(f, Idx), SumOver(b, Idx)>>
      BY <1>2 DEF DrawTotal, SumOf, SumOver, lists
    <2> QED BY <2>1 DEF SumsKept, Column
  <1>3. CASE Percentages \/ Label \/ DrawColumn \/ UNCHANGED vars
    <2>1. UNCHANGED <<truth, p, f, b, total>> /\ (pc' = "shown" => pc = "shown")
      BY <1>3 DEF Percentages, Label, DrawColumn, vars, lists
    <2> QED BY <2>1 DEF SumsKept, Column
  <1> QED BY <1>1, <1>2, <1>3 DEF Next

\* The "Total" bar adds up what brain.py found in the folders, for every number of
\* folders, although it is computed from the permuted rows (runtest 180-186).
THEOREM TotalIsRight == Spec => []TotalRight
  <1>1. ASSUME Init PROVE SumsKept
    <2>1. PICK listed \in Listings(Syscalls) :
            /\ p = [k \in Idx |-> truth[listed[k]][1]]
            /\ f = [k \in Idx |-> truth[listed[k]][2]]
            /\ b = [k \in Idx |-> truth[listed[k]][3]]
      BY <1>1 DEF Init
    <2>2. listed \in Injection(Idx, Syscalls)
      BY DEF Listings, Idx, N, Injection, IsInjective
    <2>3. {listed[k] : k \in Idx} = Syscalls
      BY <2>2, IdxFinite, PlotAssumption, FS_Injection DEF Surjection
    <2>4. listed \in [Idx -> Syscalls]
      BY <2>2 DEF Injection
    <2>5. \A s \in Syscalls : truth[s] \in Nat \X Nat \X Nat
      BY <1>1, PlotAssumption DEF Init
    <2>6. \A n \in 1 .. 3 : Column(n) \in [Syscalls -> Nat]
      BY <2>5 DEF Column
    <2>7. ASSUME NEW n \in 1 .. 3, NEW l \in [Idx -> Nat], \A k \in Idx : l[k] = truth[listed[k]][n]
          PROVE  SumOver(l, Idx) = SumOver(Column(n), Syscalls)
      <3>1. \A k \in Idx : l[k] = Column(n)[listed[k]]
        BY <2>4, <2>7 DEF Column
      <3>2. SumOver(l, Idx) = SumOver(Column(n), {listed[k] : k \in Idx})
        BY <2>2, <2>6, <3>1, IdxFinite, SumEnumerated
      <3> QED BY <2>3, <3>2
    <2>8. /\ p \in [Idx -> Nat] /\ \A k \in Idx : p[k] = truth[listed[k]][1]
          /\ f \in [Idx -> Nat] /\ \A k \in Idx : f[k] = truth[listed[k]][2]
          /\ b \in [Idx -> Nat] /\ \A k \in Idx : b[k] = truth[listed[k]][3]
      BY <2>1, <2>4, <2>5
    <2>9. pc # "shown"
      BY <1>1 DEF Init
    <2> QED BY <2>7, <2>8, <2>9 DEF SumsKept
  <1>2. ASSUME TypeOK, SumsKept PROVE TotalRight
    <2> SUFFICES ASSUME pc = "shown", NEW n \in 1 .. 3
                 PROVE  total[n] = MapThenSumSet(LAMBDA s : truth[s][n], Syscalls)
      BY DEF TotalRight
    <2>1. \A s \in Syscalls : truth[s][n] \in Nat
      BY <1>2, PlotAssumption DEF TypeOK
    <2>2. MapThenSumSet(LAMBDA s : truth[s][n], Syscalls) = SumOver(Column(n), Syscalls)
      BY <2>1, PlotAssumption, SumColumn DEF Column
    <2>3. total[n] = SumOver(Column(n), Syscalls)
      BY <1>2 DEF SumsKept
    <2> QED BY <2>2, <2>3
  <1> QED BY <1>1, <1>2, TypeCorrect, NextSums, PTL DEF Spec

-----------------------------------------------------------------------------
(* The bars                                                                *)

Cols == 0 .. (Columns - 1)
Heights == 0 .. (PerColumn - 1)

\* The parts that np.array_split makes are those the labels are cut into, if both fit.
LEMMA PartsAgree ==
  ASSUME H = N, \A c \in Cols : Fits(c)
  PROVE  /\ (Columns - 1) * PerColumn < N /\ N <= Columns * PerColumn
         /\ \A c \in Cols : /\ LabelLen(c) = DataLen(c) /\ LabelLen(c) \in {1, PerColumn}
                            /\ DataStart(c) = c * PerColumn
                            /\ c * PerColumn + LabelLen(c) <= N
                            /\ c # Columns - 1 => LabelLen(c) = PerColumn
                            /\ c = Columns - 1 => LabelLen(c) = N - (Columns - 1) * PerColumn
  <1> DEFINE q == N \div Columns
             r == N % Columns
             e == Columns - 1
             P == PerColumn
  <1> USE SizesNat, PlotAssumption
  <1>1. /\ q \in Nat /\ r \in Nat /\ r < Columns /\ N = Columns * q + r
        /\ e \in Nat /\ Columns = e + 1 /\ r <= e /\ P \in Nat /\ P > 0 /\ Cols = 0 .. e
        /\ 0 \in Cols /\ e \in Cols
    BY DEF Cols
  <1>2. /\ DataLen(0) = q + (IF 0 < r THEN 1 ELSE 0) /\ DataLen(e) = q
        /\ DataLen(0) \in {1, P} /\ DataLen(e) \in {1, P} /\ LabelLen(e) \in {1, P}
    <2>1. DataLen(e) = q + 0
      BY <1>1 DEF DataLen
    <2>2. DataLen(0) = q + (IF 0 < r THEN 1 ELSE 0)
      BY DEF DataLen
    <2> QED BY <1>1, <2>1, <2>2 DEF Fits
  <1>3. \A c \in Cols : /\ DataLen(c) = q + (IF c < r THEN 1 ELSE 0)
                        /\ DataStart(c) = c * q + (IF c <= r THEN c ELSE r)
                        /\ LabelLen(c) = IF P <= N - c * P THEN P ELSE N - c * P
    BY DEF DataLen, DataStart, LabelLen, MinOf
  <1> HIDE DEF q, r, e, P
  <1>4. e * P \in Nat /\ e * q \in Nat /\ N = e * q + q + r /\ Columns * P = e * P + P
    BY <1>1
  <1>5. e * P < N
    <2>1. LabelLen(e) >= 1 /\ LabelLen(e) = IF P <= N - e * P THEN P ELSE N - e * P
      BY <1>1, <1>2, <1>3
    <2> QED BY <1>1, <1>4, <2>1
  <1>6. N <= e * P + P
    <2>1. CASE r = 0
      <3>1. q <= P
        BY <1>1, <1>2, <2>1
      <3>2. q * e <= P * e
        BY <1>1, <3>1, MulMono
      <3>3. q * e = e * q /\ P * e = e * P
        BY <1>1
      <3> QED BY <1>1, <1>4, <2>1, <3>1, <3>2, <3>3
    <2>2. CASE r > 0
      <3>1. q + 1 <= P
        BY <1>1, <1>2, <2>2
      <3>2. (q + 1) * e <= P * e
        BY <1>1, <3>1, MulMono
      <3>3. (q + 1) * e = e * q + e /\ P * e = e * P
        BY <1>1
      <3> QED BY <1>1, <1>4, <3>1, <3>2, <3>3
    <2> QED BY <1>1, <2>1, <2>2
  <1>7. \A c \in Cols : c # e => c * P + P <= e * P
    <2> SUFFICES ASSUME NEW c \in Cols, c # e PROVE c * P + P <= e * P
      OBVIOUS
    <2>1. c \in Nat /\ c + 1 <= e
      BY <1>1
    <2>2. (c + 1) * P <= e * P
      BY <1>1, <2>1, MulMono
    <2> QED BY <1>1, <2>1, <2>2
  <1>8. \A c \in Cols : /\ c # e => LabelLen(c) = P
                        /\ c = e => LabelLen(c) = N - e * P
                        /\ c * P + LabelLen(c) <= N
                        /\ c \in Nat /\ c * P \in Nat
    <2> SUFFICES ASSUME NEW c \in Cols
                 PROVE  /\ c # e => LabelLen(c) = P
                        /\ c = e => LabelLen(c) = N - e * P
                        /\ c * P + LabelLen(c) <= N
                        /\ c \in Nat /\ c * P \in Nat
      OBVIOUS
    <2>1. c \in Nat /\ c * P \in Nat
      BY <1>1
    <2>2. LabelLen(c) = IF P <= N - c * P THEN P ELSE N - c * P
      BY <1>3
    <2>3. CASE c = e
      BY <1>1, <1>4, <1>5, <1>6, <2>1, <2>2, <2>3
    <2>4. CASE c # e
      <3>1. c * P + P <= e * P
        BY <1>7, <2>4
      <3> QED BY <1>1, <1>4, <1>5, <2>1, <2>2, <2>4, <3>1
    <2> QED BY <2>3, <2>4
  <1>9. \A c \in Cols : DataLen(c) = LabelLen(c) /\ DataStart(c) = c * P
    <2>1. CASE e = 0
      <3>1. r = 0 /\ N = q
        BY <1>1, <2>1
      <3>2. \A c \in Cols : c = 0 /\ c * P = 0 /\ c * q = 0
        BY <1>1, <2>1
      <3> QED BY <1>1, <1>3, <1>8, <2>1, <3>1, <3>2
    <2>2. CASE e > 0 /\ q = P
      <3>1. r = 0 /\ N - e * P = P
        BY <1>1, <1>4, <1>6, <2>2
      <3>2. \A c \in Cols : DataLen(c) = P /\ DataStart(c) = c * P
        <4> SUFFICES ASSUME NEW c \in Cols PROVE DataLen(c) = P /\ DataStart(c) = c * P
          OBVIOUS
        <4>1. c \in Nat /\ c * P \in Nat /\ ~(c < r) /\ (c <= r => c = 0)
          BY <1>1, <3>1
        <4>2. DataLen(c) = q + 0 /\ DataStart(c) = c * q + (IF c <= r THEN c ELSE r)
          BY <1>3, <4>1
        <4> QED BY <1>1, <2>2, <3>1, <4>1, <4>2
      <3> QED BY <1>8, <3>1, <3>2
    <2>3. CASE e > 0 /\ q # P
      <3>1. q = 1 /\ P >= 2
        BY <1>1, <1>2, <2>3
      <3>2. 2 * e <= P * e /\ P * e = e * P
        BY <1>1, <3>1, MulMono
      <3>3. e * q = e
        BY <1>1, <3>1
      <3>4. r = e /\ e * P = 2 * e
        BY <1>1, <1>4, <1>5, <3>1, <3>2, <3>3
      <3>5. P = 2
        <4> SUFFICES ASSUME P >= 3 PROVE FALSE
          BY <1>1, <3>1
        <4>1. 3 * e <= P * e
          BY <1>1, MulMono
        <4> QED BY <1>1, <2>3, <3>2, <3>4, <4>1
      <3>6. N - e * P = 1
        BY <1>1, <1>4, <3>1, <3>3, <3>4
      <3>7. \A c \in Cols : c \in Nat /\ c <= e /\ c * q = c /\ c * P = c + c
        BY <1>1, <3>1, <3>5
      <3>8. \A c \in Cols : DataStart(c) = c * P
        BY <1>3, <3>4, <3>7
      <3>9. \A c \in Cols : DataLen(c) = IF c = e THEN 1 ELSE 2
        BY <1>1, <1>3, <3>1, <3>4, <3>7
      <3> QED BY <1>8, <3>5, <3>6, <3>8, <3>9
    <2> QED BY <1>1, <2>1, <2>2, <2>3
  <1>10. \A c \in Cols : LabelLen(c) \in {1, P}
    BY DEF Fits, P
  <1>11. e = Columns - 1 /\ P = PerColumn
    BY DEF e, P
  <1> QED BY <1>4, <1>5, <1>6, <1>8, <1>9, <1>10, <1>11

\* The position that the bar at height x of column c shows.
Pos(c, x) == c * PerColumn + (IF LabelLen(c) = 1 THEN 0 ELSE LabelLen(c) - 1 - x)

\* The bars of the columns show every position, and no position in two columns.
LEMMA PositionsShown ==
  ASSUME H = N, \A c \in Cols : Fits(c)
  PROVE  /\ \A c \in Cols, x \in Heights :
              LabelAt(c, x) = Pos(c, x) /\ DataAt(c, x) = Pos(c, x) /\ Pos(c, x) \in Idx
         /\ \A c, d \in Cols, x, y \in Heights : Pos(c, x) = Pos(d, y) => c = d
         /\ \A k \in Idx : \E c \in Cols, x \in Heights : Pos(c, x) = k
  <1> DEFINE P == PerColumn
             e == Columns - 1
  <1> USE SizesNat, PlotAssumption
  <1>1. /\ e * P < N /\ N <= Columns * P
        /\ \A c \in Cols : /\ LabelLen(c) = DataLen(c) /\ LabelLen(c) \in {1, P}
                           /\ DataStart(c) = c * P
                           /\ c * P + LabelLen(c) <= N
                           /\ c # e => LabelLen(c) = P
                           /\ c = e => LabelLen(c) = N - e * P
    BY PartsAgree
  <1>2. P \in Nat /\ P > 0 /\ Heights = 0 .. (P - 1) /\ e \in Nat /\ Cols = 0 .. e /\ Columns = e + 1
    BY DEF Heights, Cols
  <1>3. \A c \in Cols, x \in Heights : LabelAt(c, x) = Pos(c, x) /\ DataAt(c, x) = Pos(c, x)
    BY <1>1 DEF LabelAt, DataAt, Pos
  <1> HIDE DEF P, e
  <1>4. ASSUME NEW c \in Cols, NEW x \in Heights
        PROVE  \E o \in 0 .. (LabelLen(c) - 1) : Pos(c, x) = c * P + o
    <2>1. LabelLen(c) \in {1, P} /\ x \in 0 .. (P - 1)
      BY <1>1, <1>2
    <2>2. CASE LabelLen(c) = 1
      BY <1>2, <2>2 DEF Pos, P
    <2>3. CASE LabelLen(c) # 1
      <3>1. LabelLen(c) - 1 - x \in 0 .. (LabelLen(c) - 1)
        BY <1>2, <2>1, <2>3
      <3> QED BY <2>3, <3>1 DEF Pos, P
    <2> QED BY <2>2, <2>3
  <1>5. ASSUME NEW c \in Cols, NEW x \in Heights PROVE Pos(c, x) \in Idx
    <2>1. PICK o \in 0 .. (LabelLen(c) - 1) : Pos(c, x) = c * P + o
      BY <1>4
    <2>2. c * P \in Nat
      BY <1>2
    <2>3. LabelLen(c) \in {1, P} /\ c * P + LabelLen(c) <= N
      BY <1>1
    <2> QED BY <1>2, <2>1, <2>2, <2>3 DEF Idx
  <1>6. ASSUME NEW c \in Cols, NEW d \in Cols, NEW x \in Heights, NEW y \in Heights, c < d
        PROVE  Pos(c, x) < Pos(d, y)
    <2>1. PICK o \in 0 .. (LabelLen(c) - 1) : Pos(c, x) = c * P + o
      BY <1>4
    <2>2. PICK u \in 0 .. (LabelLen(d) - 1) : Pos(d, y) = d * P + u
      BY <1>4
    <2>3. c \in Nat /\ d \in Nat /\ c + 1 <= d /\ LabelLen(c) \in {1, P} /\ LabelLen(d) \in {1, P}
      BY <1>1, <1>2, <1>6
    <2>4. (c + 1) * P <= d * P
      BY <1>2, <2>3, MulMono
    <2>5. (c + 1) * P = c * P + P /\ c * P \in Nat /\ d * P \in Nat
      BY <1>2, <2>3
    <2>6. o \in Nat /\ o < P /\ u \in Nat
      BY <1>2, <2>3
    <2> QED BY <1>2, <2>1, <2>2, <2>4, <2>5, <2>6
  <1>7. ASSUME NEW k \in Idx PROVE \E c \in Cols, x \in Heights : Pos(c, x) = k
    <2> DEFINE c == k \div P
               o == k % P
    <2>1. k \in Nat /\ k < N /\ c \in Nat /\ o \in Nat /\ o < P /\ k = P * c + o
      BY <1>2 DEF Idx
    <2> HIDE DEF c, o
    <2>2. c * P \in Nat /\ k = c * P + o /\ Columns * P = e * P + P /\ e * P \in Nat
      BY <1>2, <2>1
    <2>3. c \in Cols
      <3> SUFFICES ASSUME e + 1 <= c PROVE FALSE
        BY <1>2, <2>1
      <3>1. (e + 1) * P <= c * P
        BY <1>2, <2>1, MulMono
      <3>2. (e + 1) * P = e * P + P
        BY <1>2
      <3>3. N <= e * P + P /\ k < N /\ k = c * P + o
        BY <1>1, <2>1, <2>2
      <3>4. e * P + P <= c * P
        BY <3>1, <3>2
      <3>5. N <= k
        BY <1>2, <2>1, <2>2, <3>3, <3>4
      <3> QED BY <2>1, <3>5
    <2>4. o < LabelLen(c) /\ LabelLen(c) \in {1, P}
      BY <1>1, <2>1, <2>2, <2>3
    <2>5. CASE LabelLen(c) = 1
      <3>1. o = 0 /\ 0 \in Heights
        BY <1>2, <2>1, <2>4, <2>5
      <3>2. Pos(c, 0) = k
        BY <2>2, <2>5, <3>1 DEF Pos, P
      <3> QED BY <2>3, <3>1, <3>2
    <2>6. CASE LabelLen(c) # 1
      <3> DEFINE x == LabelLen(c) - 1 - o
      <3>1. x \in Heights /\ LabelLen(c) - 1 - x = o
        BY <1>2, <2>1, <2>4, <2>6
      <3> HIDE DEF x
      <3>2. Pos(c, x) = k
        BY <2>2, <2>6, <3>1 DEF Pos, P
      <3> QED BY <2>3, <3>1, <3>2
    <2> QED BY <2>5, <2>6
  <1>8. \A c, d \in Cols, x, y \in Heights : Pos(c, x) = Pos(d, y) => c = d
    <2> SUFFICES ASSUME NEW c \in Cols, NEW d \in Cols, NEW x \in Heights, NEW y \in Heights,
                        Pos(c, x) = Pos(d, y), c # d
                 PROVE  FALSE
      OBVIOUS
    <2>1. c < d \/ d < c
      BY <1>2
    <2>2. Pos(c, x) \in Int /\ Pos(d, y) \in Int
      BY <1>5 DEF Idx
    <2> QED BY <1>6, <2>1, <2>2
  <1> QED BY <1>3, <1>5, <1>7, <1>8

\* Every folder of the host is listed once, and the bars are those of the columns drawn.
Drawn ==
  /\ \A k, m \in HIdx : syscalls[k] = syscalls[m] => k = m
  /\ pc \in {"percent", "sort"} => bars = {}
  /\ pc \in {"draw", "shown"} =>
       \A r : r \in bars <=> \E c \in Cols, x \in Heights : c < col /\ r = Bar(c, x)

\* Every step keeps Drawn.
LEMMA NextDrawn == TypeOK /\ ColumnsFit /\ Drawn /\ [Next]_vars => Drawn'
  <1> SUFFICES ASSUME TypeOK, ColumnsFit, Drawn, [Next]_vars PROVE Drawn'
    OBVIOUS
  <1> USE PlotAssumption
  <1>0. ASSUME UNCHANGED lists PROVE \A c, x : Bar(c, x)' = Bar(c, x)
    BY <1>0 DEF Bar, LabelAt, DataAt, LabelLen, DataLen, DataStart, N, H, lists
  <1>1. CASE Percentages
    BY <1>1 DEF Percentages, Drawn
  <1>2. CASE SortStep
    <2>1. bars' = bars /\ pc = "sort" /\ pc' \in {"sort", "crashed"}
      BY <1>2, SortStepFacts DEF SortStep
    <2>2. CASE syscalls' = syscalls
      BY <2>1, <2>2 DEF Drawn
    <2>3. CASE j \in HIdx /\ i \in HIdx /\ syscalls' = Exchange(syscalls)
      <3>1. \A k \in HIdx : From(k) \in HIdx /\ syscalls'[k] = syscalls[From(k)]
        <4>1. syscalls \in [HIdx -> HostSyscalls]
          BY DEF TypeOK
        <4> QED BY <2>3, <4>1, ExchangeFacts
      <3>2. \A k, m \in HIdx : From(k) = From(m) => k = m
        BY DEF From
      <3>3. \A k, m \in HIdx : syscalls'[k] = syscalls'[m] => k = m
        BY <3>1, <3>2 DEF Drawn
      <3> QED BY <2>1, <3>3 DEF Drawn
    <2> QED BY <1>2, <2>2, <2>3, SortStepFacts DEF lists
  <1>3. CASE Label
    <2>1. UNCHANGED lists /\ bars' = {} /\ col' = 0 /\ pc' \in {"draw", "crashed"}
      BY <1>3 DEF Label, Drawn, ColumnsFit
    <2>2. \A c \in Cols : ~(c < 0)
      BY DEF Cols
    <2> QED BY <2>1, <2>2 DEF Drawn, lists
  <1>4. CASE DrawColumn
    <2>1. UNCHANGED lists /\ pc = "draw"
      BY <1>4 DEF DrawColumn
    <2>2. CASE pc' = "crashed"
      BY <2>1, <2>2 DEF Drawn, lists
    <2>3. CASE pc' # "crashed"
      <3>1. /\ pc' = "draw" /\ col' = col + 1 /\ col \in Cols
            /\ bars' = bars \cup {Bar(col, x) : x \in Heights}
        BY <1>4, <2>3 DEF DrawColumn, TypeOK, Cols, Heights
      <3>2. \A c \in Cols : c < col' <=> c < col \/ c = col
        BY <3>1 DEF Cols
      <3>3. \A r : r \in bars <=> \E c \in Cols, x \in Heights : c < col /\ r = Bar(c, x)
        BY <2>1 DEF Drawn
      <3>4. \A r : r \in bars' <=> \E c \in Cols, x \in Heights : c < col' /\ r = Bar(c, x)
        BY <3>1, <3>2, <3>3
      <3>5. \A c, x : Bar(c, x)' = Bar(c, x)
        BY <1>0, <2>1
      <3>6. \A r : r \in bars' <=> \E c \in Cols, x \in Heights : c < col' /\ r = Bar(c, x)'
        BY <3>4, <3>5
      <3> QED BY <2>1, <3>1, <3>6 DEF Drawn, lists, Cols, Heights
    <2> QED BY <2>2, <2>3
  <1>5. CASE DrawTotal \/ UNCHANGED vars
    <2>1. UNCHANGED <<lists, bars, col>> /\ (pc' = pc \/ (pc = "draw" /\ pc' = "shown"))
      BY <1>5 DEF DrawTotal, vars
    <2>2. \A c, x : Bar(c, x)' = Bar(c, x)
      BY <1>0, <2>1
    <2>3. syscalls' = syscalls
      BY <2>1 DEF lists
    <2> QED BY <2>1, <2>2, <2>3 DEF Drawn
  <1> QED BY <1>1, <1>2, <1>3, <1>4, <1>5 DEF Next

\* A plot that is shown is complete and true when both file systems list the folders in
\* one order: each folder has one bar, under its own name and with its own numbers, for
\* every number of folders, columns and bars (runtest 117-177).
THEOREM EveryFolderDrawn == Spec => []AllDrawn
  <1>1. Init => Drawn
    <2> SUFFICES ASSUME Init PROVE Drawn
      OBVIOUS
    <2>1. PICK listed \in Listings(Syscalls) :
            syscalls \in IF SameOrder THEN {listed} ELSE Listings(HostSyscalls)
      BY DEF Init
    <2>2. syscalls \in Listings(HostSyscalls)
      BY <2>1, PlotAssumption
    <2> QED BY <2>2 DEF Init, Drawn, Listings, HIdx, H
  <1>2. Init => ColumnsFit
    BY PlotAssumption DEF Init, ColumnsFit
  <1>3. ASSUME TypeOK, Parallel, ColumnsFit, Drawn PROVE AllDrawn
    <2> SUFFICES ASSUME pc = "shown", SameOrder
                 PROVE  /\ \A s \in Syscalls : Cardinality({r \in bars : r.name = s}) = 1
                        /\ \A r \in bars :
                             /\ r.label = truth[r.name]
                             /\ \A n \in 1 .. 3 : r.bar[n] = <<r.label[n], r.label[1] + r.label[2] + r.label[3]>>
      BY DEF AllDrawn
    <2> USE SizesNat
    <2>1. H = N /\ HIdx = Idx /\ HostSyscalls = Syscalls
      BY PlotAssumption
    <2>2. (\A c \in Cols : Fits(c)) /\ \A c \in Cols : c < col
      BY <1>3, PlotAssumption DEF ColumnsFit, Cols
    <2>3. /\ \A c \in Cols, x \in Heights :
               LabelAt(c, x) = Pos(c, x) /\ DataAt(c, x) = Pos(c, x) /\ Pos(c, x) \in Idx
          /\ \A c, d \in Cols, x, y \in Heights : Pos(c, x) = Pos(d, y) => c = d
          /\ \A k \in Idx : \E c \in Cols, x \in Heights : Pos(c, x) = k
      BY <2>1, <2>2, PositionsShown
    <2> DEFINE At(c, k) == [col |-> c, name |-> syscalls[k], label |-> <<p[k], f[k], b[k]>>,
                            bar |-> <<pp[k], fp[k], bp[k]>>]
    <2>4. \A r : r \in bars <=> \E c \in Cols, x \in Heights : r = At(c, Pos(c, x))
      <3>1. \A c \in Cols, x \in Heights : Bar(c, x) = At(c, Pos(c, x))
        BY <2>3 DEF Bar
      <3>2. \A r : r \in bars <=> \E c \in Cols, x \in Heights : r = Bar(c, x)
        BY <1>3, <2>2 DEF Drawn
      <3> HIDE DEF At
      <3> QED BY <3>1, <3>2
    <2>5. ASSUME NEW r \in bars
          PROVE  /\ r.label = truth[r.name]
                 /\ \A n \in 1 .. 3 : r.bar[n] = <<r.label[n], r.label[1] + r.label[2] + r.label[3]>>
      <3>1. PICK c \in Cols, x \in Heights : r = At(c, Pos(c, x))
        <4> HIDE DEF At
        <4> QED BY <2>4, <2>5
      <3>2. PICK k \in Idx : r = At(c, k)
        BY <2>3, <3>1
      <3>3. r.name = syscalls[k] /\ r.label = <<p[k], f[k], b[k]>> /\ r.bar = <<pp[k], fp[k], bp[k]>>
        BY <3>2
      <3>4. /\ pp[k] = <<p[k], p[k] + f[k] + b[k]>> /\ fp[k] = <<f[k], p[k] + f[k] + b[k]>>
            /\ bp[k] = <<b[k], p[k] + f[k] + b[k]>> /\ <<p[k], f[k], b[k]>> = truth[syscalls[k]]
        BY <1>3 DEF Parallel, InStep, Tot
      <3> QED BY <3>3, <3>4
    <2>6. ASSUME NEW s \in Syscalls PROVE Cardinality({r \in bars : r.name = s}) = 1
      <3>1. syscalls \in Injection(Idx, Syscalls)
        BY <1>3, <2>1 DEF TypeOK, Drawn, Injection, IsInjective
      <3>2. PICK k \in Idx : syscalls[k] = s
        BY <3>1, IdxFinite, PlotAssumption, FS_Injection DEF Surjection
      <3>3. PICK c \in Cols, x \in Heights : Pos(c, x) = k
        BY <2>3
      <3>4. \A r : r \in bars /\ r.name = s => r = At(c, k)
        <4> SUFFICES ASSUME NEW r \in bars, r.name = s PROVE r = At(c, k)
          OBVIOUS
        <4>1. PICK d \in Cols, y \in Heights : r = At(d, Pos(d, y))
          <5> HIDE DEF At
          <5> QED BY <2>4
        <4>2. syscalls[Pos(d, y)] = s /\ Pos(d, y) \in Idx
          BY <2>3, <4>1
        <4>3. Pos(d, y) = k
          BY <1>3, <2>1, <3>2, <4>2 DEF Drawn
        <4>4. d = c
          BY <2>3, <3>3, <4>3
        <4> HIDE DEF At
        <4> QED BY <4>1, <4>3, <4>4
      <3>5. At(c, k) \in bars /\ At(c, k).name = s
        <4>1. At(c, k).name = s
          BY <3>2
        <4> HIDE DEF At
        <4> QED BY <2>4, <3>3, <4>1
      <3> HIDE DEF At
      <3>6. {r \in bars : r.name = s} = {At(c, k)}
        BY <3>4, <3>5
      <3> QED BY <3>6, FS_Singleton
    <2> QED BY <2>5, <2>6
  <1> QED BY <1>1, <1>2, <1>3, TypeCorrect, ParallelAlways, NextColumns, NextDrawn, PTL DEF Spec
-----------------------------------------------------------------------------
(* Why the program stops                                                   *)

\* Before the sort every position holds the numbers of some folder.
Stops ==
  /\ pc = "percent" => \A k \in Idx : \E s \in Syscalls : truth[s] = <<p[k], f[k], b[k]>>
  /\ StopsOnlyIf

\* As many folders as places fill every column.
LEMMA ExactFits ==
  ASSUME HostSyscalls = Syscalls, N = Columns * PerColumn, NEW c \in 0 .. (Columns - 1)
  PROVE  Fits(c)
  <1> USE SizesNat, PlotAssumption
  <1>1. N \div Columns = PerColumn /\ N % Columns = 0
    <2>1. \E q, r \in Int : q = N \div Columns /\ r = N % Columns /\ 0 <= r /\ r < Columns
                          /\ N = Columns * q + r
      OBVIOUS
    <2>2. ASSUME NEW q \in Int, NEW r \in Int, 0 <= r, r < Columns, N = Columns * q + r
          PROVE  q = PerColumn /\ r = 0
      <3>1. Columns * (PerColumn - q) = r
        BY <2>2
      <3>2. CASE PerColumn - q >= 1
        <4>1. 1 * Columns <= (PerColumn - q) * Columns
          BY <2>2, <3>2, MulMono, PerColumn - q \in Nat
        <4> QED BY <2>2, <3>1, <4>1
      <3>3. CASE q - PerColumn >= 1
        <4>1. 1 * Columns <= (q - PerColumn) * Columns
          BY <2>2, <3>3, MulMono, q - PerColumn \in Nat
        <4> QED BY <2>2, <3>1, <4>1
      <3>4. CASE q = PerColumn
        BY <3>1, <3>4
      <3> QED BY <2>2, <3>2, <3>3, <3>4
    <2> QED BY <2>1, <2>2
  <1>2. DataLen(c) = PerColumn
    BY <1>1 DEF DataLen
  <1>3. H - c * PerColumn >= PerColumn
    <2>1. (c + 1) * PerColumn <= Columns * PerColumn
      BY MulMono, c + 1 \in Nat, c + 1 <= Columns
    <2>2. (c + 1) * PerColumn = c * PerColumn + PerColumn
      OBVIOUS
    <2> QED BY <2>1, <2>2 DEF H, N
  <1>4. LabelLen(c) = PerColumn
    BY <1>3 DEF LabelLen, MinOf
  <1> QED BY <1>2, <1>4 DEF Fits

\* Every step keeps Stops.
LEMMA NextStops == TypeOK /\ Stops /\ [Next]_vars => Stops'
  <1> SUFFICES ASSUME TypeOK, Stops, [Next]_vars PROVE Stops'
    OBVIOUS
  <1> USE SizesNat, PlotAssumption
  <1>0. truth' = truth /\ N' = N
    BY DEF Next, Percentages, SortStep, Label, DrawColumn, DrawTotal, vars, N
  <1>1. CASE Percentages
    <2>1. CASE pc' = "crashed"
      <3>1. PICK k \in Idx : Tot(k) = 0
        BY <1>1, <2>1 DEF Percentages
      <3>2. p[k] = 0 /\ f[k] = 0 /\ b[k] = 0
        BY <3>1 DEF TypeOK, Tot
      <3>3. \E s \in Syscalls : truth[s] = <<0, 0, 0>>
        BY <1>1, <3>2 DEF Percentages, Stops
      <3> QED BY <1>0, <2>1, <3>3 DEF Stops, StopsOnlyIf
    <2>2. CASE pc' # "crashed"
      BY <1>1, <2>2 DEF Percentages, Stops, StopsOnlyIf
    <2> QED BY <2>1, <2>2
  <1>2. CASE SortStep
    <2>1. pc' \in {"sort", "crashed"} /\ j < N /\ (pc' = "crashed" => j >= H)
      BY <1>2, SortStepFacts DEF SortStep, TypeOK
    <2>2. HostSyscalls = Syscalls => H = N
      BY DEF H, N
    <2> QED BY <2>1, <2>2, j \in Nat DEF Stops, StopsOnlyIf, TypeOK
  <1>3. CASE Label
    <2>1. pc' = "draw" \/ H > N
      BY <1>3 DEF Label
    <2>2. HostSyscalls = Syscalls => H = N
      BY DEF H, N
    <2>3. pc' \in {"draw", "crashed"}
      BY <1>3 DEF Label
    <2> QED BY <2>1, <2>2, <2>3 DEF Stops, StopsOnlyIf
  <1>4. CASE DrawColumn
    <2>1. CASE Fits(col)
      BY <1>4, <2>1 DEF DrawColumn, Stops, StopsOnlyIf
    <2>2. CASE ~Fits(col)
      <3>1. col \in 0 .. (Columns - 1) /\ pc' = "crashed"
        BY <1>4, <2>2 DEF DrawColumn, TypeOK
      <3>2. HostSyscalls = Syscalls => N # Columns * PerColumn
        BY <2>2, <3>1, ExactFits
      <3> QED BY <1>0, <3>1, <3>2 DEF Stops, StopsOnlyIf
    <2> QED BY <2>1, <2>2
  <1>5. CASE DrawTotal
    BY <1>5 DEF DrawTotal, Stops, StopsOnlyIf
  <1>6. CASE UNCHANGED vars
    BY <1>0, <1>6 DEF vars, lists, Stops, StopsOnlyIf
  <1> QED BY <1>1, <1>2, <1>3, <1>4, <1>5, <1>6 DEF Next

\* With the same folders on both sides, an exception ends the plot only for a folder
\* without countable files or a number of folders other than Columns * PerColumn.
THEOREM StopsOnlyForCause == Spec => []StopsOnlyIf
  <1>1. Init => Stops
    <2> SUFFICES ASSUME Init PROVE Stops
      OBVIOUS
    <2>1. PICK listed \in Listings(Syscalls) :
            /\ p = [k \in Idx |-> truth[listed[k]][1]]
            /\ f = [k \in Idx |-> truth[listed[k]][2]]
            /\ b = [k \in Idx |-> truth[listed[k]][3]]
      BY DEF Init
    <2>2. \A k \in Idx : listed[k] \in Syscalls /\ truth[listed[k]] \in Nat \X Nat \X Nat
      BY PlotAssumption DEF Init, Listings, Idx, N
    <2>3. \A k \in Idx : truth[listed[k]] = <<p[k], f[k], b[k]>>
      BY <2>1, <2>2
    <2> QED BY <2>2, <2>3 DEF Init, Stops, StopsOnlyIf
  <1>2. Stops => StopsOnlyIf
    BY DEF Stops
  <1> QED BY <1>1, <1>2, TypeCorrect, NextStops, PTL DEF Spec
=============================================================================
