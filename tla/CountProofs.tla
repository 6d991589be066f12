---------------------------- MODULE CountProofs ----------------------------
(***************************************************************************)
(* Proofs about misc/count.py for every finite set of folders and all      *)
(* folder sizes: the parallel lists stay paired, the printed report is     *)
(* sorted and its total is the number of files on disk.                    *)
(***************************************************************************)
EXTENDS Count, InductionFacts, FiniteSetTheorems, TLAPS

\* The part of the list before i is final: nothing after it is smaller.
PrefixDone ==
  \A k, m \in Idx : k < i /\ k < m => count[k] <= count[m]

\* Within a pass, count[i] is the smallest of what the inner loop has seen.
PassMinimum ==
  Sorting => \A m \in Idx : i < m /\ m < j => count[i] <= count[m]

\* Once printed, the lines and the total are those of the sorted lists.
ReportInv ==
  Printed => /\ ~Sorting /\ report.lines = [k \in Idx |-> Line(k)]
             /\ report.total = SumOver(count, Idx)

IInv == TypeOK /\ Paired /\ PrefixDone /\ PassMinimum /\ ReportInv

\* The number of folders is a natural number.
LEMMA NType == N \in Nat
  BY AppsFinite, FS_CardinalityType DEF N

\* The initial lists satisfy the inductive invariant.
LEMMA InitIInv == Init => IInv
  <1> SUFFICES ASSUME Init PROVE IInv
    OBVIOUS
  <1> USE NType, SizesNat
  <1>1. TypeOK
    BY DEF Init, TypeOK, Listings, Sorting, Idx
  <1>2. Paired
    BY DEF Init, Paired, Listings
  <1>3. PrefixDone /\ PassMinimum
    BY DEF Init, PrefixDone, PassMinimum, Idx
  <1>4. ReportInv
    BY DEF Init, ReportInv, Printed
  <1> QED BY <1>1, <1>2, <1>3, <1>4 DEF IInv

\* A turn of the inner loop preserves the inductive invariant.
LEMMA SortStepIInv == IInv /\ SortStep => IInv'
  <1> SUFFICES ASSUME IInv, SortStep PROVE IInv'
    OBVIOUS
  <1> USE NType, SizesNat
  <1>1. /\ files \in [Apps -> Sizes] /\ names \in [Idx -> Apps] /\ count \in [Idx -> Sizes]
        /\ i \in Idx /\ j \in Idx /\ i < j /\ i \in Nat /\ j \in Nat
        /\ files' = files /\ report' = report
        /\ \A x \in Idx : count[x] \in Nat /\ x \in Int
    <2>1. /\ files \in [Apps -> Sizes] /\ names \in [Idx -> Apps] /\ count \in [Idx -> Sizes]
          /\ i \in Nat /\ j \in Nat /\ i < j /\ j \in Idx
          /\ files' = files /\ report' = report
      BY DEF IInv, TypeOK, SortStep
    <2>2. i \in Idx
      BY <2>1 DEF Idx
    <2>3. \A x \in Idx : count[x] \in Nat
      BY <2>1
    <2>4. \A x \in Idx : x \in Int
      BY DEF Idx
    <2> QED BY <2>1, <2>2, <2>3, <2>4
  <1>2. /\ count' \in [Idx -> Sizes] /\ names' \in [Idx -> Apps]
        /\ \A x \in Idx : x # i /\ x # j => count'[x] = count[x] /\ names'[x] = names[x]
        /\ \/ /\ count[j] < count[i]
              /\ count'[i] = count[j] /\ count'[j] = count[i]
              /\ names'[i] = names[j] /\ names'[j] = names[i]
           \/ /\ count[i] <= count[j]
              /\ count' = count /\ names' = names
    <2>1. CASE count[i] > count[j]
      <3>1. count' = Exchange(count, i, j) /\ names' = Exchange(names, i, j)
        BY <2>1 DEF SortStep, OutOfOrder
      <3>2. /\ count' \in [Idx -> Sizes] /\ count'[i] = count[j] /\ count'[j] = count[i]
            /\ \A x \in Idx : x # i /\ x # j => count'[x] = count[x]
        BY <1>1, <3>1 DEF Exchange
      <3>3. /\ names' \in [Idx -> Apps] /\ names'[i] = names[j] /\ names'[j] = names[i]
            /\ \A x \in Idx : x # i /\ x # j => names'[x] = names[x]
        BY <1>1, <3>1 DEF Exchange
      <3>4. count[j] < count[i]
        BY <1>1, <2>1
      <3> QED BY <3>2, <3>3, <3>4
    <2>2. CASE ~(count[i] > count[j])
      BY <1>1, <2>2 DEF SortStep, OutOfOrder
    <2> QED BY <2>1, <2>2
  <1>3. \/ j + 1 < N /\ i' = i /\ j' = j + 1
        \/ j + 1 = N /\ i' = i + 1 /\ j' = i + 2
    BY <1>1 DEF SortStep, Advance, Idx
  <1>4. TypeOK'
    BY <1>1, <1>2, <1>3 DEF TypeOK, Sorting, Idx
  <1>5. Paired'
    <2>1. \A x \in Idx : count'[x] = files'[names'[x]]
      BY <1>1, <1>2 DEF IInv, Paired
    <2>2. \A x, y \in Idx : names'[x] = names'[y] => x = y
      BY <1>1, <1>2 DEF IInv, Paired
    <2> QED BY <2>1, <2>2 DEF Paired
  <1>6. \A x \in Idx : i <= x /\ x <= j => count'[i] <= count'[x]
    <2>1. \A x \in Idx : i < x /\ x < j => count[i] <= count[x]
      BY DEF IInv, PassMinimum, SortStep
    <2>2. count'[i] <= count[i] /\ count'[i] <= count'[j] /\ count'[i] \in Nat
      BY <1>1, <1>2
    <2> QED BY <1>1, <1>2, <2>1, <2>2
  <1>7. \A k, m \in Idx : k < i /\ k < m => count'[k] <= count'[m]
    <2> SUFFICES ASSUME NEW k \in Idx, NEW m \in Idx, k < i, k < m
                 PROVE  count'[k] <= count'[m]
      OBVIOUS
    <2>1. count'[k] = count[k]
      BY <1>1, <1>2
    <2>2. \A x \in Idx : k < x => count[k] <= count[x]
      BY DEF IInv, PrefixDone
    <2>3. \E x \in Idx : k < x /\ count'[m] = count[x]
      BY <1>1, <1>2
    <2> QED BY <2>1, <2>2, <2>3
  <1>8. PrefixDone'
    BY <1>1, <1>3, <1>6, <1>7 DEF PrefixDone, Idx
  <1>9. PassMinimum'
    BY <1>1, <1>3, <1>6 DEF PassMinimum, Idx
  <1>10. ReportInv'
    BY <1>1 DEF IInv, ReportInv, Printed, SortStep
  <1> QED BY <1>4, <1>5, <1>8, <1>9, <1>10 DEF IInv

\* Printing the report preserves the inductive invariant.
LEMMA PrintReportIInv == IInv /\ PrintReport => IInv'
  <1> SUFFICES ASSUME IInv, PrintReport PROVE IInv'
    OBVIOUS
  <1>1. /\ UNCHANGED <<files, names, count, i, j>> /\ ~Sorting
        /\ report'.lines = [k \in Idx |-> Line(k)]
        /\ report'.total = SumOver(count, Idx)
    BY DEF PrintReport, SumOver
  <1>2. TypeOK' /\ Paired' /\ PrefixDone' /\ PassMinimum'
    BY <1>1 DEF IInv, TypeOK, Paired, PrefixDone, PassMinimum, Sorting
  <1>3. ReportInv'
    BY <1>1 DEF ReportInv, Sorting, Line
  <1> QED BY <1>2, <1>3 DEF IInv

\* IInv is an invariant of count.py.
THEOREM Invariance == Spec => []IInv
  <1>1. IInv /\ UNCHANGED vars => IInv'
    BY DEF vars, IInv, TypeOK, Paired, PrefixDone, PassMinimum, ReportInv, Sorting, Printed, Line
  <1>2. IInv /\ [Next]_vars => IInv'
    BY <1>1, SortStepIInv, PrintReportIInv DEF Next
  <1> QED BY InitIInv, <1>2, PTL DEF Spec

\* count.py never indexes its lists out of range, for any number of folders.
THEOREM TypeCorrect == Spec => []TypeOK
  <1>1. IInv => TypeOK
    BY DEF IInv
  <1> QED BY Invariance, <1>1, PTL

\* The swaps of count.py 15-20 never separate a folder from its number of files.
THEOREM PairedAlways == Spec => []Paired
  <1>1. IInv => Paired
    BY DEF IInv
  <1> QED BY Invariance, <1>1, PTL

\* What count.py prints is sorted and each line is true of the file system.
THEOREM ReportIsSorted == Spec => []ReportSorted
  <1>1. IInv => ReportSorted
    <2> SUFFICES ASSUME IInv, Printed, NEW k \in Idx
                 PROVE  /\ report.lines[k].size = files[report.lines[k].name]
                        /\ \A m \in Idx : k < m => report.lines[k].size <= report.lines[m].size
      BY DEF ReportSorted
    <2>1. \A m \in Idx : report.lines[m].size = count[m] /\ report.lines[m].name = names[m]
      BY DEF IInv, ReportInv, Line
    <2>2. \A m \in Idx : k < m => count[k] <= count[m]
      BY NType, SizesNat DEF IInv, ReportInv, PrefixDone, Sorting, Idx, TypeOK
    <2> QED BY <2>1, <2>2 DEF IInv, Paired
  <1> QED BY Invariance, <1>1, PTL

\* The total that count.py 24 prints from the permuted list is the sum over the folders.
THEOREM TotalIsCorrect == Spec => []TotalCorrect
  <1>1. IInv => TotalCorrect
    <2> SUFFICES ASSUME IInv, Printed PROVE report.total = SumOver(files, Apps)
      BY DEF TotalCorrect, SumOver
    <2>1. /\ files \in [Apps -> Nat] /\ names \in [Idx -> Apps] /\ count \in [Idx -> Nat]
          /\ \A k \in Idx : count[k] = files[names[k]]
      BY SizesNat DEF IInv, TypeOK, Paired
    <2>2. IsFiniteSet(Idx) /\ Cardinality(Idx) = Cardinality(Apps)
      BY NType, FS_Interval DEF Idx, N
    <2>3. names \in Injection(Idx, Apps)
      BY <2>1 DEF IInv, Paired, Injection, IsInjective
    <2>4. {names[k] : k \in Idx} = Apps
      BY <2>2, <2>3, AppsFinite, FS_Injection DEF Surjection
    <2>5. SumOver(count, Idx) = SumOver(files, {names[k] : k \in Idx})
      BY <2>1, <2>2, <2>3, SumEnumerated
    <2> QED BY <2>4, <2>5 DEF IInv, ReportInv
  <1> QED BY Invariance, <1>1, PTL
=============================================================================
