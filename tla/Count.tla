------------------------------- MODULE Count -------------------------------
(***************************************************************************)
(* misc/count.py: lists the system call folders, counts the files in each, *)
(* sorts the two parallel lists in place by an exchange sort and prints    *)
(* one line per folder followed by the total.                              *)
(*                                                                         *)
(* The folders are the set Apps; files[a] is the number of entries of      *)
(* folder a on disk.  The Python lists `names' and `count' are functions   *)
(* on 0..N-1, as in the code.                                              *)
(***************************************************************************)
EXTENDS Integers, FiniteSets, FiniteSetsExt

CONSTANTS
  Apps,     \* the folders below ./syscalls
  Sizes     \* the numbers of files a folder may hold

ASSUME AppsFinite  == IsFiniteSet(Apps)
ASSUME SizesNat    == Sizes \subseteq Nat

VARIABLES
  files,    \* the file system: number of entries of each folder
  names,    \* list of folder names
  count,    \* list of folder sizes, parallel to names
  i, j,     \* the loop variables of the sort
  report    \* what has been printed

vars == <<files, names, count, i, j, report>>

N == Cardinality(Apps)

Idx == 0 .. (N - 1)

\* os.listdir returns the entries in arbitrary order: any enumeration of Apps.
Listings == {l \in [Idx -> Apps] : \A k, m \in Idx : l[k] = l[m] => k = m}

\* Slip: an exchange without aux.
ExchangeNoAux(f, k, m) == [f EXCEPT ![k] = f[m]]

Exchange(f, k, m) == [f EXCEPT ![k] = f[m], ![m] = f[k]]

NotPrinted == [lines |-> << >>, total |-> -1]

-----------------------------------------------------------------------------

Init ==
  /\ files \in [Apps -> Sizes]
  /\ names \in Listings
  /\ count = [k \in Idx |-> files[names[k]]]
  /\ i = 0
  /\ j = 1
  /\ report = NotPrinted

Sorting == i < N - 1

\* Slip: the lists sorted from large to small.
LargestFirst == count[i] < count[j]

OutOfOrder == count[i] > count[j]

\* Slip: j runs up to len(count).
AdvanceLong ==
  IF j < N THEN i' = i /\ j' = j + 1
           ELSE i' = i + 1 /\ j' = i + 2

\* The two `for' loops: the last turn of a pass moves on to the next i.
Advance ==
  IF j + 1 < N THEN i' = i /\ j' = j + 1
               ELSE i' = i + 1 /\ j' = i + 2

\* One turn of the inner loop.
SortStep ==
  /\ Sorting
  /\ IF OutOfOrder
       THEN /\ count' = Exchange(count, i, j)
            /\ names' = Exchange(names, i, j)
       ELSE UNCHANGED <<count, names>>
  /\ Advance
  /\ UNCHANGED <<files, report>>

Line(k) == [name |-> names[k], size |-> count[k]]

PrintReport ==
  /\ ~Sorting
  /\ report = NotPrinted
  /\ report' = [lines |-> [k \in Idx |-> Line(k)],
                total |-> MapThenSumSet(LAMBDA k : count[k], Idx)]
  /\ UNCHANGED <<files, names, count, i, j>>

Next == SortStep \/ PrintReport

Spec == Init /\ [][Next]_vars

-----------------------------------------------------------------------------
Printed == report # NotPrinted

\* Type correctness of the loop: the indexes count[i], count[j] never leave the list.
TypeOK ==
  /\ files \in [Apps -> Sizes]
  /\ names \in [Idx -> Apps]
  /\ count \in [Idx -> Sizes]
  /\ i \in Nat
  /\ j \in Nat
  /\ Sorting => i < j /\ j \in Idx

\* The two parallel lists stay in step: whatever swaps the sort has done, every
\* folder is listed exactly once and next to its own number of files
\* (the pairs of assignments at count.py 15-20).
Paired ==
  /\ \A k, m \in Idx : names[k] = names[m] => k = m
  /\ \A k \in Idx : count[k] = files[names[k]]

\* The printed report lists the folders from the smallest to the largest, each with
\* the number of files it really has.
ReportSorted ==
  Printed => \A k \in Idx :
               /\ report.lines[k].size = files[report.lines[k].name]
               /\ \A m \in Idx : k < m => report.lines[k].size <= report.lines[m].size

\* The total printed last is the number of files on disk, not of the permuted lists.
TotalCorrect ==
  Printed => report.total = MapThenSumSet(LAMBDA a : files[a], Apps)

=============================================================================
