-------------------------------- MODULE Plot --------------------------------
(***************************************************************************)
(* runtest 83-199: with -g, runtest turns the three rows of numbers that   *)
(* the container printed into percentages, pairs them with the folders     *)
(* listed on the HOST, sorts seven parallel lists by one exchange sort and *)
(* draws them in six columns of sixty bars and one bar for the total.      *)
(*                                                                         *)
(* A percentage is the pair <<numerator, denominator>>.  The position of a *)
(* number in a row is the position of its folder in the container's        *)
(* listing, which runtest does not get to see.                             *)
(***************************************************************************)
EXTENDS Integers, FiniteSets, FiniteSetsExt

CONSTANTS
  Syscalls,      \* the folders in the image
  HostSyscalls,  \* the folders on the host when runtest lists them
  Triples,       \* the numbers <<passed, failed, broken>> a folder may have
  SameOrder,     \* do the two file systems list the folders in the same order
  Columns,       \* 6
  PerColumn      \* 60

N == Cardinality(Syscalls)       \* len(p)
H == Cardinality(HostSyscalls)   \* len(syscalls)

ASSUME PlotAssumption ==
  /\ IsFiniteSet(Syscalls) /\ IsFiniteSet(HostSyscalls)
  /\ Triples \subseteq Nat \X Nat \X Nat
  /\ SameOrder \in BOOLEAN /\ (SameOrder => HostSyscalls = Syscalls)
  /\ Columns \in Nat \ {0} /\ PerColumn \in Nat \ {0}

VARIABLES
  truth,        \* truth[s]: the numbers brain.py found for folder s
  p, f, b,      \* the rows of numbers
  pp, fp, bp,   \* the same as percentages
  syscalls,     \* os.listdir("./syscalls")
  i, j,         \* loop variables of the sort
  pc,
  col,          \* the column to be drawn next
  bars,         \* the bars drawn: [col, name, label, bar]
  total         \* the numbers of the "Total" bar

lists == <<p, f, b, pp, fp, bp, syscalls>>
vars  == <<truth, lists, i, j, pc, col, bars, total>>

Idx  == 0 .. (N - 1)
HIdx == 0 .. (H - 1)

Listings(S) ==
  LET D == 0 .. (Cardinality(S) - 1) IN
  {l \in [D -> S] : \A k, m \in D : l[k] = l[m] => k = m}

\* The state in which the numbers have been read.
Init ==
  /\ truth \in [Syscalls -> Triples]
  /\ \E listed \in Listings(Syscalls) :
       /\ p = [k \in Idx |-> truth[listed[k]][1]]
       /\ f = [k \in Idx |-> truth[listed[k]][2]]
       /\ b = [k \in Idx |-> truth[listed[k]][3]]
       /\ syscalls \in IF SameOrder THEN {listed} ELSE Listings(HostSyscalls)
  /\ pp = << >> /\ fp = << >> /\ bp = << >>
  /\ i = 0 /\ j = 1 /\ pc = "percent" /\ col = 0 /\ bars = {} /\ total = << >>

-----------------------------------------------------------------------------

\* Slip: the broken tests are left out of tot.
TotRan(k) == p[k] + f[k]

Tot(k) == p[k] + f[k] + b[k]

\* `p[i] / tot * 100': a folder without any test ends the program.
Percentages ==
  /\ pc = "percent"
  /\ IF \E k \in Idx : Tot(k) = 0
       THEN pc' = "crashed" /\ UNCHANGED <<pp, fp, bp>>
       ELSE /\ pp' = [k \in Idx |-> <<p[k], Tot(k)>>]
            /\ fp' = [k \in Idx |-> <<f[k], Tot(k)>>]
            /\ bp' = [k \in Idx |-> <<b[k], Tot(k)>>]
            /\ pc' = "sort"
  /\ UNCHANGED <<truth, p, f, b, syscalls, i, j, col, bars, total>>

Less(x, y) == x[1] * y[2] < y[1] * x[2]

\* Slip: `and' in place of `or'.
OutOfOrderBoth == Less(bp[j], bp[i]) /\ Less(pp[i], pp[j])

OutOfOrder == Less(bp[j], bp[i]) \/ Less(pp[i], pp[j])

\* Slip: an exchange without aux.
ExchangeNoAux(l) == [l EXCEPT ![i] = l[j]]

Exchange(l) == [l EXCEPT ![i] = l[j], ![j] = l[i]]

\* Slip: lines 104-106 are missing.
NotRelabelled == syscalls

Relabelled == Exchange(syscalls)

\* Slip: j runs up to len(bp).
AdvanceLong ==
  IF j < N THEN i' = i /\ j' = j + 1
           ELSE i' = i + 1 /\ j' = i + 2

Advance ==
  IF j + 1 < N THEN i' = i /\ j' = j + 1
               ELSE i' = i + 1 /\ j' = i + 2

\* One turn of the inner loop; a host with fewer folders has no syscalls[j].
SortStep ==
  /\ pc = "sort" /\ i < N - 1
  /\ IF OutOfOrder /\ j >= H
       THEN pc' = "crashed" /\ UNCHANGED <<lists, i, j>>
       ELSE /\ IF OutOfOrder
                 THEN /\ pp' = Exchange(pp) /\ fp' = Exchange(fp) /\ bp' = Exchange(bp)
                      /\ syscalls' = Relabelled
                      /\ p' = Exchange(p) /\ f' = Exchange(f) /\ b' = Exchange(b)
                 ELSE UNCHANGED lists
            /\ Advance /\ pc' = pc
  /\ UNCHANGED <<truth, col, bars, total>>

\* The labels "name: p/f/b", one for each folder of the host.
Label ==
  /\ pc = "sort" /\ i >= N - 1
  /\ pc' = IF H > N THEN "crashed" ELSE "draw"
  /\ UNCHANGED <<truth, lists, i, j, col, bars, total>>

-----------------------------------------------------------------------------
(* The columns.  np.array_split cuts the percentages into Columns parts of *)
(* almost equal length; the labels are cut into parts of PerColumn.        *)

MinOf(x, y) == IF x <= y THEN x ELSE y

DataLen(c)   == N \div Columns + (IF c < N % Columns THEN 1 ELSE 0)
DataStart(c) == c * (N \div Columns) + MinOf(c, N % Columns)

LabelLen(c) == MinOf(PerColumn, H - c * PerColumn)

\* Label and data of the bar at height x, both in reverse; one value is spread over all.
LabelAt(c, x) == c * PerColumn + (IF LabelLen(c) = 1 THEN 0 ELSE LabelLen(c) - 1 - x)
DataAt(c, x)  == DataStart(c) + (IF DataLen(c) = 1 THEN 0 ELSE DataLen(c) - 1 - x)

\* Slip: the labels are not reversed.
BarForward(c, x) ==
  LET l == c * PerColumn + x
      d == DataAt(c, x)
  IN [col |-> c, name |-> syscalls[l], label |-> <<p[l], f[l], b[l]>>, bar |-> <<pp[d], fp[d], bp[d]>>]

Bar(c, x) ==
  LET l == LabelAt(c, x)
      d == DataAt(c, x)
  IN [col |-> c, name |-> syscalls[l], label |-> <<p[l], f[l], b[l]>>, bar |-> <<pp[d], fp[d], bp[d]>>]

\* The lengths barh and `left += res_count' accept with left = np.zeros(60).
Fits(c) ==
  /\ LabelLen(c) \in {1, PerColumn}
  /\ DataLen(c) \in {1, PerColumn}

DrawColumn ==
  /\ pc = "draw" /\ col < Columns
  /\ IF Fits(col)
       THEN /\ bars' = bars \cup {Bar(col, x) : x \in 0 .. (PerColumn - 1)}
            /\ col' = col + 1 /\ pc' = pc
       ELSE pc' = "crashed" /\ UNCHANGED <<bars, col>>
  /\ UNCHANGED <<truth, lists, i, j, total>>

SumOf(l) == MapThenSumSet(LAMBDA k : l[k], Idx)

DrawTotal ==
  /\ pc = "draw" /\ col = Columns
  /\ total' = <<SumOf(p), SumOf(f), SumOf(b)>>
  /\ pc' = "shown"
  /\ UNCHANGED <<truth, lists, i, j, col, bars>>

Next == Percentages \/ SortStep \/ Label \/ DrawColumn \/ DrawTotal

Spec == Init /\ [][Next]_vars

-----------------------------------------------------------------------------
(* Properties                                                              *)

Sorted == pc \in {"draw", "shown"}

\* The seven lists have the length of the numbers and no loop index leaves them.
TypeOK ==
  /\ truth \in [Syscalls -> Triples]
  /\ p \in [Idx -> Nat] /\ f \in [Idx -> Nat] /\ b \in [Idx -> Nat]
  /\ pc \in {"percent", "sort", "draw", "shown", "crashed"}
  /\ pc \in {"sort", "draw", "shown"} =>
       pp \in [Idx -> Nat \X Nat] /\ fp \in [Idx -> Nat \X Nat] /\ bp \in [Idx -> Nat \X Nat]
  /\ syscalls \in [HIdx -> HostSyscalls]
  /\ i \in Nat /\ j \in Nat /\ col \in 0 .. Columns
  /\ i < N - 1 => i < j /\ j < N

\* The seven lists are permuted together: whatever exchanges the sort has made, each
\* position holds the percentages of the numbers it holds and, when both file systems
\* list the folders in one order, the numbers brain.py found for the folder it names.
InStep ==
  /\ pc \in {"sort", "draw", "shown"} =>
       \A k \in Idx : /\ pp[k] = <<p[k], Tot(k)>>
                      /\ fp[k] = <<f[k], Tot(k)>>
                      /\ bp[k] = <<b[k], Tot(k)>>
  /\ SameOrder => \A k \in Idx : <<p[k], f[k], b[k]>> = truth[syscalls[k]]

Unported(k) == bp[k][1] = bp[k][2]

\* runtest 91: "the unimplemented system call tests are last".  A folder all of whose
\* tests are broken comes after every folder with a test that ran.
UnportedLast == Sorted => \A k, m \in Idx : k < m /\ Unported(k) => Unported(m)

\* The rest goes from the largest share of passing tests to the smallest, as long as no
\* folder mixes broken tests with others.
BestFirst ==
  Sorted /\ (\A k \in Idx : Unported(k) \/ bp[k][1] = 0)
    => \A k, m \in Idx : k < m => ~Less(pp[k], pp[m])

\* A plot that is shown has one bar for each folder of the image and no other, and the
\* bar and its label give the folder's own numbers.
AllDrawn ==
  pc = "shown" /\ SameOrder =>
    /\ \A s \in Syscalls : Cardinality({r \in bars : r.name = s}) = 1
    /\ \A r \in bars :
         /\ r.label = truth[r.name]
         /\ \A n \in 1 .. 3 : r.bar[n] = <<r.label[n], r.label[1] + r.label[2] + r.label[3]>>

\* The total is the sum over the folders, whatever their order has become.
TotalRight ==
  pc = "shown" =>
    \A n \in 1 .. 3 : total[n] = MapThenSumSet(LAMBDA s : truth[s][n], Syscalls)

\* The six columns of sixty are not only a default: with as many labels as rows, the plot
\* is shown for exactly Columns * PerColumn folders and for no other number.
ShownExact ==
  pc = "shown" /\ HostSyscalls = Syscalls /\ Columns > 1 /\ PerColumn > 2
    => N = Columns * PerColumn

\* README.md 28: the charts are "for every system call".  Every bar shows the numbers of
\* the system call it is labelled with.
LabelsTrue == \A r \in bars : r.name \in Syscalls /\ r.label = truth[r.name]

\* An exception ends the program only for a folder without a single countable file, whose
\* tot is zero, or for a number of folders that does not fill the columns: with the same
\* folders on both sides neither the sort nor the labels nor a column run out of a list.
StopsOnlyIf ==
  pc = "crashed" /\ HostSyscalls = Syscalls =>
    \/ \E s \in Syscalls : truth[s] = <<0, 0, 0>>
    \/ N # Columns * PerColumn

=============================================================================
