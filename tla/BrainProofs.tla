---------------------------- MODULE BrainProofs ----------------------------
(***************************************************************************)
(* Proofs about dockerfile_data/brain.py for every number of folders and   *)
(* tests, every content of the folders and every capacity of the lists.    *)
(***************************************************************************)
EXTENDS Brain, FiniteSetTheorems, TLAPS

\* The number of folders is a natural number.
LEMMA NType == N \in Nat
  BY BrainAssumption, FS_CardinalityType DEF N

\* A folder holds finitely many files.
LEMMA FilesFinite == IsFiniteSet(Files)
  <1>1. IsFiniteSet(Programs)
    BY BrainAssumption, FS_Union DEF Programs
  <1>2. IsFiniteSet({OtherH}) /\ IsFiniteSet({InclH})
    BY FS_Singleton
  <1>3. Headers = {InclH} \cup {OtherH}
    BY DEF Headers
  <1>4. IsFiniteSet(Headers)
    BY <1>2, <1>3, FS_Union
  <1> QED BY <1>1, <1>4, FS_Union DEF Files

\* Writing at an offset leaves a log: below the offset the file has a hole.
LEMMA WriteAtType ==
  ASSUME NEW s \in Seq(Cells), NEW o \in Nat, NEW c \in Cells
  PROVE  WriteAt(s, o, c) \in Seq(Cells)
  <1> DEFINE m == IF Len(s) > o THEN Len(s) ELSE o + 1
  <1>1. m \in Nat
    OBVIOUS
  <1>2. \A n \in 1 .. Len(s) : s[n] \in Cells
    OBVIOUS
  <1>3. WriteAt(s, o, c) \in [1 .. m -> Cells]
    BY <1>1, <1>2 DEF WriteAt, Cells
  <1> QED BY <1>1, <1>3

\* Counting the result of a call of runTest keeps the types of what it changes.
LEMMA ReturnType ==
  ASSUME TypeOK, NEW res \in {0, 1, -1}, Return(res), pc \in {"compile", "wait"}
  PROVE  /\ judged' \in [Programs -> {0, 1, -1, None}]
         /\ pass_list' \in [Rows -> Nat] /\ fail_list' \in [Rows -> Nat] /\ brok_list' \in [Rows -> Nat]
         /\ \/ pc' = "file" /\ cur' = None
            \/ pc' = "crashed" /\ cur' = cur
  <1>1. judged' \in [Programs -> {0, 1, -1, None}]
    BY DEF TypeOK, Return
  <1>2. \A list \in [Rows -> Nat] : i < Capacity => Add(list, 1) \in [Rows -> Nat]
    BY NType, BrainAssumption DEF Add, Rows, TypeOK
  <1>3. CASE i < Capacity
    BY <1>1, <1>2, <1>3 DEF TypeOK, Return
  <1>4. CASE ~(i < Capacity)
    BY <1>1, <1>4 DEF TypeOK, Return, counts
  <1> QED BY <1>3, <1>4

\* The program starts in a state of its types.
LEMMA InitType == Init => TypeOK
  <1> SUFFICES ASSUME Init PROVE TypeOK
    OBVIOUS
  <1>1. tree \in [Syscalls -> SUBSET Files] /\ syscalls \in [Idx -> Syscalls]
    BY DEF Init, Trees, Listings
  <1>2. aout \in [Syscalls -> Programs \cup {None}]
    <2>1. \A f \in Syscalls : tree[f] \cap Strays # {} =>
            (CHOOSE a \in tree[f] : a \in Strays) \in Strays
      OBVIOUS
    <2> QED BY <2>1 DEF Init, Programs
  <1>3. Zeros \in [Rows -> Nat]
    BY DEF Zeros
  <1>4. i \in 0 .. N /\ log \in Seq(Cells) /\ off \in [Programs -> Nat]
        /\ judged \in [Programs -> {0, 1, -1, None}]
    BY NType DEF Init
  <1>5. /\ pass_list \in [Rows -> Nat] /\ fail_list \in [Rows -> Nat] /\ brok_list \in [Rows -> Nat]
        /\ main \in BOOLEAN /\ kids \in SUBSET Programs /\ said \in SUBSET Programs
        /\ fcont \in SUBSET Files /\ cur \in Programs \cup {None} /\ rootBin \in Programs \cup {None}
        /\ pc = "folder" /\ cur = None /\ main = FALSE
    BY <1>3 DEF Init
  <1> QED BY <1>1, <1>2, <1>4, <1>5 DEF TypeOK

\* Every step of brain.py and of the tests keeps the types.
LEMMA NextType == TypeOK /\ [Next]_vars => TypeOK'
  <1> SUFFICES ASSUME TypeOK, [Next]_vars PROVE TypeOK'
    OBVIOUS
  <1> USE NType, BrainAssumption
  <1>1. CASE SkipFolder
    <2>1. Folder \in Syscalls /\ Cardinality(tree[Folder]) \in Nat
      <3>1. Folder \in Syscalls
        BY <1>1 DEF SkipFolder, Folder, TypeOK, Idx
      <3>2. IsFiniteSet(tree[Folder])
        BY <3>1, FilesFinite, FS_Subset DEF TypeOK
      <3> QED BY <3>1, <3>2, FS_CardinalityType
    <2>2. CASE i < Capacity
      <3>1. brok_list' \in [Rows -> Nat]
        <4>1. i \in Rows /\ brok_list' = [brok_list EXCEPT ![i] = @ + Cardinality(tree[Folder])]
          BY <1>1, <2>2 DEF SkipFolder, TypeOK, Add, Rows
        <4> QED BY <2>1, <4>1 DEF TypeOK
      <3> QED BY <1>1, <2>2, <3>1 DEF SkipFolder, TypeOK, imageVars, diskVars, procVars
    <2>3. CASE ~(i < Capacity)
      BY <1>1, <2>3 DEF SkipFolder, TypeOK, imageVars, diskVars, procVars
    <2> QED BY <2>2, <2>3
  <1>2. CASE EnterFolder
    BY <1>2 DEF EnterFolder, TypeOK, Folder, Idx, imageVars, counts, diskVars, procVars
  <1>3. CASE LeaveFolder
    BY <1>3 DEF LeaveFolder, TypeOK, imageVars, counts, diskVars, procVars
  <1>4. CASE WriteOut
    BY <1>4 DEF WriteOut, TypeOK, imageVars, counts, diskVars, procVars
  <1>5. ASSUME NEW file \in Files, NextFile(file) PROVE TypeOK'
    BY <1>5 DEF NextFile, Rest, TypeOK, Files, imageVars, counts, diskVars, procVars
  <1>6. CASE CompileFails
    <2>1. Folder \in Syscalls
      BY <1>6 DEF CompileFails, Folder, TypeOK, Idx
    <2> QED BY <1>6, <2>1, ReturnType DEF CompileFails, TypeOK, imageVars, procVars
  <1>7. ASSUME NEW built \in BOOLEAN, CompileAndStart(built) PROVE TypeOK'
    <2>1. Folder \in Syscalls /\ cur \in Programs /\ rootBin' \in Programs
      BY <1>7 DEF CompileAndStart, Folder, TypeOK, Idx
    <2>2. aout' \in [Syscalls -> Programs \cup {None}] /\ off' \in [Programs -> Nat] /\ log' = << >>
      BY <1>7, <2>1 DEF CompileAndStart, TypeOK, MovedBinary, OpenedLog
    <2> QED BY <1>7, <2>1, <2>2 DEF CompileAndStart, TypeOK, imageVars, counts
  <1>8. CASE ReadLog
    <2>1. PICK res \in {0, 1, -1} : Return(res)
      BY <1>8 DEF ReadLog
    <2> QED BY <1>8, <2>1, ReturnType DEF ReadLog, ShellReturned, TypeOK, imageVars, diskVars, procVars
  <1>9. ASSUME NEW p \in Programs, NEW c \in Cells \ {"nul"}, Write(p, c) PROVE TypeOK'
    <2>1. log' \in Seq(Cells)
      <3>1. log \in Seq(Cells) /\ off[p] \in Nat /\ c \in Cells
        BY DEF TypeOK
      <3>2. WriteAt(log, off[p], c) \in Seq(Cells)
        BY <3>1, WriteAtType
      <3> QED BY <1>9, <3>2 DEF Write
    <2>2. off' \in [Programs -> Nat]
      BY <1>9 DEF Write, TypeOK
    <2> QED BY <1>9, <2>1, <2>2 DEF Write, TypeOK, imageVars, brainVars, counts, diskVars
  <1>10. ASSUME NEW p \in Programs, ExitKid(p) PROVE TypeOK'
    BY <1>10 DEF ExitKid, TypeOK, imageVars, brainVars, counts, diskVars
  <1>11. CASE Fork
    BY <1>11 DEF Fork, TypeOK, imageVars, brainVars, counts, diskVars
  <1>12. CASE ExitMain
    BY <1>12 DEF ExitMain, TypeOK, imageVars, brainVars, counts, diskVars
  <1>13. CASE UNCHANGED vars
    BY <1>13 DEF vars, TypeOK, imageVars, brainVars, counts, diskVars, procVars
  <1> QED BY <1>1, <1>2, <1>3, <1>4, <1>5, <1>6, <1>7, <1>8, <1>9, <1>10, <1>11, <1>12, <1>13
          DEF Next, BrainStep, TestStep

\* brain.py keeps to its types: in particular it never waits for a test without having
\* started one, and no list is indexed beyond its length.
THEOREM TypeCorrect == Spec => []TypeOK
  BY InitType, NextType, PTL DEF Spec

-----------------------------------------------------------------------------
(* Where brain.py is in the tree                                           *)

\* The files left and the test under way belong to the folder of the index i.
Loop ==
  /\ tree \in Trees
  /\ pc \in {"file", "compile", "wait"} => fcont \subseteq tree[Folder] /\ ~Unfinished(Folder)
  /\ pc \in {"compile", "wait"} => cur \in tree[Folder]

\* Every step keeps Loop.
LEMMA NextLoop == TypeOK /\ Loop /\ [Next]_vars => Loop'
  <1> SUFFICES ASSUME TypeOK, Loop, [Next]_vars PROVE Loop'
    OBVIOUS
  <1> USE DEF Loop, Folder, Unfinished, imageVars
  <1>1. CASE SkipFolder
    BY <1>1 DEF SkipFolder
  <1>2. CASE EnterFolder
    BY <1>2 DEF EnterFolder
  <1>3. CASE LeaveFolder \/ WriteOut
    BY <1>3 DEF LeaveFolder, WriteOut
  <1>4. ASSUME NEW file \in Files, NextFile(file) PROVE Loop'
    BY <1>4 DEF NextFile, Rest
  <1>5. CASE CompileFails \/ ReadLog
    <2>1. pc' \in {"file", "crashed"} /\ UNCHANGED <<tree, syscalls, i, fcont>> /\ pc \in {"compile", "wait"}
      BY <1>5 DEF CompileFails, ReadLog, Return
    <2> QED BY <2>1
  <1>6. ASSUME NEW built \in BOOLEAN, CompileAndStart(built) PROVE Loop'
    BY <1>6 DEF CompileAndStart
  <1>7. CASE TestStep
    <2>1. UNCHANGED <<tree, syscalls, pc, i, fcont, cur>>
      BY <1>7 DEF TestStep, Write, ExitKid, Fork, ExitMain, brainVars
    <2> QED BY <2>1
  <1>8. CASE UNCHANGED vars
    BY <1>8 DEF vars, brainVars
  <1> QED BY <1>1, <1>2, <1>3, <1>4, <1>5, <1>6, <1>7, <1>8 DEF Next, BrainStep

\* brain.py only ever compiles a file of the folder whose row it counts in.
THEOREM LoopAlways == Spec => []Loop
  <1>1. Init => Loop
    BY DEF Init, Loop
  <1> QED BY <1>1, TypeCorrect, NextLoop, PTL DEF Spec

-----------------------------------------------------------------------------
(* Which binary runs                                                       *)

\* mv leaves no a.out behind, so a clean folder never holds one between two tests.
Binary ==
  /\ \A f \in Syscalls : Clean(f) => aout[f] = None
  /\ RunsOwnBinary

\* Every step keeps Binary.
LEMMA NextBinary == TypeOK /\ Binary /\ [Next]_vars => Binary'
  <1> SUFFICES ASSUME TypeOK, Binary, [Next]_vars PROVE Binary'
    OBVIOUS
  <1> USE DEF Binary, RunsOwnBinary, Clean, Folder, imageVars, diskVars
  <1>1. CASE SkipFolder \/ EnterFolder \/ LeaveFolder \/ WriteOut
    BY <1>1 DEF SkipFolder, EnterFolder, LeaveFolder, WriteOut
  <1>2. ASSUME NEW file \in Files, NextFile(file) PROVE Binary'
    BY <1>2 DEF NextFile
  <1>3. CASE CompileFails
    <2>1. pc' # "wait" /\ UNCHANGED tree /\ aout' = [aout EXCEPT ![Folder] = None]
      BY <1>3 DEF CompileFails, Return
    <2>2. \A f \in Syscalls : aout[f] = None => aout'[f] = None
      BY <2>1 DEF TypeOK
    <2> QED BY <2>1, <2>2
  <1>4. CASE ReadLog
    BY <1>4 DEF ReadLog, Return
  <1>5. ASSUME NEW built \in BOOLEAN, CompileAndStart(built) PROVE Binary'
    <2>1. /\ UNCHANGED <<tree, syscalls, i, cur>> /\ Folder \in Syscalls
          /\ aout' = [aout EXCEPT ![Folder] = None]
          /\ rootBin' = IF built THEN cur ELSE aout[Folder]
          /\ built \/ aout[Folder] # None
      BY <1>5, NType DEF CompileAndStart, MovedBinary, TypeOK, Idx
    <2>2. \A f \in Syscalls : aout[f] = None => aout'[f] = None
      BY <2>1 DEF TypeOK
    <2> QED BY <2>1, <2>2
  <1>6. CASE TestStep
    <2>1. UNCHANGED <<tree, syscalls, pc, i, cur, aout, rootBin>>
      BY <1>6 DEF TestStep, Write, ExitKid, Fork, ExitMain, brainVars
    <2> QED BY <2>1
  <1>7. CASE UNCHANGED vars
    BY <1>7 DEF vars, brainVars
  <1> QED BY <1>1, <1>2, <1>3, <1>4, <1>5, <1>6, <1>7 DEF Next, BrainStep

\* In a folder without left-over binaries every test is judged by its own binary, for
\* every tree, every listing order and every outcome of gcc.
THEOREM OwnBinary == Spec => []RunsOwnBinary
  <1>1. Init => Binary
    BY DEF Init, Binary, RunsOwnBinary, Clean
  <1>2. Spec => []Binary
    BY <1>1, TypeCorrect, NextBinary, PTL DEF Spec
  <1>3. Binary => RunsOwnBinary
    BY DEF Binary
  <1> QED BY <1>2, <1>3, PTL

-----------------------------------------------------------------------------
(* What is counted                                                         *)

\* The tests of the current folder that are not counted: the one under way and those
\* still in the listing.
Left == Cardinality(fcont \ Headers) + (IF pc = "file" THEN 0 ELSE 1)

\* In the row of the folder under way, what is counted and what is left make the folder.
Balance ==
  /\ CountedOnce
  /\ pc = "folder" /\ i \in Rows \cap Idx => Row(i) = 0
  /\ pc \in {"file", "compile", "wait"} /\ i \in Rows =>
       Row(i) + Left = Cardinality(tree[Folder] \ Headers)
  /\ pc = "done" => i = N
  /\ pc = "crashed" => i \notin Rows \/ i = N

\* Adding a result to a list changes the row of i only, by one.
LEMMA ReturnRow ==
  ASSUME TypeOK, NEW res \in {0, 1, -1}, Return(res), i \in Rows
  PROVE  \A k \in Rows : Row(k)' = IF k = i THEN Row(k) + 1 ELSE Row(k)
  <1>1. i < Capacity
    BY BrainAssumption DEF Rows
  <1>2. /\ pass_list' = IF res = 1  THEN Add(pass_list, 1) ELSE pass_list
        /\ fail_list' = IF res = 0  THEN Add(fail_list, 1) ELSE fail_list
        /\ brok_list' = IF res = -1 THEN Add(brok_list, 1) ELSE brok_list
    BY <1>1 DEF Return
  <1>3. \A list \in [Rows -> Nat] : \A k \in Rows :
          Add(list, 1)[k] = IF k = i THEN list[k] + 1 ELSE list[k]
    BY DEF Add
  <1>4. \A k \in Rows : pass_list[k] \in Nat /\ fail_list[k] \in Nat /\ brok_list[k] \in Nat
    BY DEF TypeOK
  <1>5. CASE res = 1
    <2>1. pass_list' = Add(pass_list, 1) /\ UNCHANGED <<fail_list, brok_list>>
      BY <1>2, <1>5
    <2>2. \A k \in Rows : pass_list'[k] = IF k = i THEN pass_list[k] + 1 ELSE pass_list[k]
      BY <1>3, <2>1 DEF TypeOK
    <2> QED BY <1>4, <2>1, <2>2 DEF Row
  <1>6. CASE res = 0
    <2>1. fail_list' = Add(fail_list, 1) /\ UNCHANGED <<pass_list, brok_list>>
      BY <1>2, <1>6
    <2>2. \A k \in Rows : fail_list'[k] = IF k = i THEN fail_list[k] + 1 ELSE fail_list[k]
      BY <1>3, <2>1 DEF TypeOK
    <2> QED BY <1>4, <2>1, <2>2 DEF Row
  <1>7. CASE res = -1
    <2>1. brok_list' = Add(brok_list, 1) /\ UNCHANGED <<pass_list, fail_list>>
      BY <1>2, <1>7
    <2>2. \A k \in Rows : brok_list'[k] = IF k = i THEN brok_list[k] + 1 ELSE brok_list[k]
      BY <1>3, <2>1 DEF TypeOK
    <2> QED BY <1>4, <2>1, <2>2 DEF Row
  <1> QED BY <1>5, <1>6, <1>7

\* The end of a call of runTest keeps Balance: the test under way has become a count.
LEMMA ReturnBalance ==
  ASSUME TypeOK, Balance, NEW res \in {0, 1, -1}, Return(res), pc \in {"compile", "wait"},
         UNCHANGED <<tree, syscalls, i, fcont>>
  PROVE  Balance'
  <1> USE NType, BrainAssumption
  <1>0. i \in Idx /\ i < N /\ i \in Nat
    BY DEF TypeOK, Idx
  <1>1. CASE i \in Rows
    <2>1. pc' = "file"
      BY <1>1 DEF Return, Rows
    <2>2. \A k \in Rows : Row(k)' = IF k = i THEN Row(k) + 1 ELSE Row(k)
      BY <1>1, ReturnRow
    <2>3. CountedOnce'
      <3>1. \A f \in Syscalls : Countable(f)' = Countable(f)
        BY DEF Countable, Unfinished
      <3> QED BY <1>0, <2>2, <3>1 DEF Balance, CountedOnce, TypeOK, Idx, Rows
    <2>4. Left' + 1 = Left /\ Row(i) \in Nat /\ Left' \in Nat
      <3>1. IsFiniteSet(fcont)
        BY FilesFinite, FS_Subset DEF TypeOK
      <3>2. Cardinality(fcont \ Headers) \in Nat
        BY <3>1, FS_Difference, FS_CardinalityType
      <3> QED BY <1>1, <2>1, <3>2 DEF Left, Row, TypeOK
    <2>5. Row(i)' + Left' = Cardinality(tree[Folder] \ Headers)
      <3>1. Row(i)' = Row(i) + 1
        BY <1>1, <2>2 DEF Row
      <3>2. Row(i) + Left = Cardinality(tree[Folder] \ Headers)
        BY <1>1 DEF Balance
      <3> QED BY <2>4, <3>1, <3>2
    <2> QED BY <2>1, <2>3, <2>5 DEF Balance, Folder, Row
  <1>2. CASE i \notin Rows
    <2>1. pc' = "crashed" /\ UNCHANGED <<pass_list, fail_list, brok_list>>
      BY <1>0, <1>2 DEF Return, Rows, counts
    <2> QED BY <1>2, <2>1 DEF Balance, CountedOnce, Countable, Unfinished, Row
  <1> QED BY <1>1, <1>2

\* Every step keeps Balance.
LEMMA NextBalance == TypeOK /\ Loop /\ Balance /\ [Next]_vars => Balance'
  <1> SUFFICES ASSUME TypeOK, Loop, Balance, [Next]_vars PROVE Balance'
    OBVIOUS
  <1> USE NType, BrainAssumption
  <1>0. \A f \in Syscalls : IsFiniteSet(tree[f]) /\ IsFiniteSet(fcont)
    BY FilesFinite, FS_Subset DEF TypeOK
  <1>a. \A k \in Rows : Row(k) \in Nat
    BY DEF Row, TypeOK
  <1>1. CASE SkipFolder
    <2>1. i \in Idx /\ Folder \in Syscalls /\ UNCHANGED <<tree, syscalls, pass_list, fail_list>>
          /\ Unfinished(Folder) /\ pc = "folder"
      BY <1>1 DEF SkipFolder, Folder, TypeOK, Idx, imageVars
    <2>2. CASE i < Capacity
      <3>1. i \in Rows /\ brok_list' = [brok_list EXCEPT ![i] = @ + Cardinality(tree[Folder])]
            /\ i' = i + 1 /\ pc' = pc
        BY <1>1, <2>1, <2>2 DEF SkipFolder, Add, Rows, Idx
      <3>2. Cardinality(tree[Folder]) \in Nat
        BY <1>0, <2>1, FS_CardinalityType
      <3>3. \A k \in Rows : Row(k)' = IF k = i THEN Row(k) + Cardinality(tree[Folder]) ELSE Row(k)
        BY <2>1, <3>1, <3>2 DEF Row, TypeOK
      <3>5. Countable(Folder) = tree[Folder] /\ Row(i) = 0
        BY <2>1, <3>1 DEF Countable, Balance
      <3>6. CountedOnce'
        <4> SUFFICES ASSUME NEW k \in Rows \cap Idx
                     PROVE  /\ k < i' => Row(k)' = Cardinality(Countable(syscalls[k]))
                            /\ k > i' => Row(k)' = 0
          BY <2>1 DEF CountedOnce, Countable, Unfinished
        <4>1. syscalls[k] \in Syscalls /\ k \in Int /\ i \in Int
          BY <2>1 DEF TypeOK, Idx
        <4>2. CASE k < i \/ k > i
          BY <3>1, <3>3, <4>1, <4>2 DEF Balance, CountedOnce
        <4>3. CASE k = i
          BY <3>1, <3>2, <3>3, <3>5, <4>1, <4>3 DEF Folder
        <4> QED BY <4>1, <4>2, <4>3
      <3>7. i' \in Rows \cap Idx => Row(i)' = 0
        BY <2>1, <3>1, <3>3 DEF Balance, CountedOnce, Idx, Rows, Row
      <3> QED BY <2>1, <3>1, <3>6, <3>7 DEF Balance, Row
    <2>3. CASE ~(i < Capacity)
      <3>1. i \notin Rows /\ pc' = "crashed" /\ UNCHANGED <<i, brok_list>>
        BY <1>1, <2>3 DEF SkipFolder, Rows
      <3> QED BY <2>1, <3>1 DEF Balance, CountedOnce, Countable, Unfinished, Row
    <2> QED BY <2>2, <2>3
  <1>2. CASE EnterFolder
    <2>1. /\ UNCHANGED <<tree, syscalls, i, pass_list, fail_list, brok_list>> /\ i \in Idx
          /\ pc = "folder" /\ pc' = "file" /\ fcont' = tree[Folder]
      BY <1>2 DEF EnterFolder, TypeOK, Idx, imageVars, counts
    <2>2. Cardinality(tree[Folder] \ Headers) \in Nat
      BY <1>0, <2>1, FS_Difference, FS_CardinalityType DEF Folder, TypeOK
    <2>3. i \in Rows => Row(i) = 0
      BY <2>1 DEF Balance
    <2>4. Left' = Cardinality(tree[Folder] \ Headers)
      BY <2>1, <2>2 DEF Left
    <2>5. CountedOnce'
      BY <2>1 DEF Balance, CountedOnce, Countable, Unfinished, Row
    <2> QED BY <2>1, <2>2, <2>3, <2>4, <2>5 DEF Balance, Folder, Row
  <1>3. CASE LeaveFolder
    <2>1. /\ UNCHANGED <<tree, syscalls, pass_list, fail_list, brok_list>> /\ i \in Idx /\ Folder \in Syscalls
          /\ pc = "file" /\ pc' = "folder" /\ i' = i + 1 /\ fcont = {}
      BY <1>3 DEF LeaveFolder, TypeOK, Idx, Folder, imageVars, counts
    <2>2. Left = 0
      <3>1. fcont \ Headers = {}
        BY <2>1
      <3> QED BY <2>1, <3>1, FS_EmptySet DEF Left
    <2>3. Countable(Folder) = tree[Folder] \ Headers
      BY <2>1 DEF Loop, Countable
    <2>4. i \in Rows => Row(i) = Cardinality(Countable(Folder))
      BY <1>a, <2>1, <2>2, <2>3 DEF Balance
    <2>5. \A f \in Syscalls : Countable(f)' = Countable(f)
      BY <2>1 DEF Countable, Unfinished
    <2>6. \A k \in Rows : Row(k)' = Row(k)
      BY <2>1 DEF Row
    <2>7. CountedOnce'
      BY <2>1, <2>4, <2>5, <2>6 DEF Balance, CountedOnce, Folder, TypeOK, Idx, Rows
    <2>8. i' \in Rows \cap Idx => Row(i)' = 0
      BY <2>1, <2>6 DEF Balance, CountedOnce, Idx, Rows, Row
    <2> QED BY <2>1, <2>7, <2>8 DEF Balance, Row
  <1>4. CASE WriteOut
    BY <1>4 DEF WriteOut, Balance, CountedOnce, Countable, Unfinished, Row, imageVars, counts
  <1>5. ASSUME NEW file \in Files, NextFile(file) PROVE Balance'
    <2>1. /\ UNCHANGED <<tree, syscalls, i, pass_list, fail_list, brok_list>>
          /\ pc = "file" /\ fcont' = fcont \ {file} /\ file \in fcont /\ i \in Idx
          /\ \/ file \in Headers /\ pc' = "file"
             \/ file \notin Headers /\ pc' = "compile"
      BY <1>5 DEF NextFile, Rest, TypeOK, Idx, imageVars, counts
    <2>2. IsFiniteSet(fcont \ Headers)
      BY <1>0, <2>1, FS_Difference DEF TypeOK
    <2>3. Left' = Left
      <3>1. CASE file \in Headers
        <4>1. fcont' \ Headers = fcont \ Headers
          BY <2>1, <3>1
        <4> QED BY <2>1, <3>1, <4>1 DEF Left
      <3>2. CASE file \notin Headers
        <4>1. fcont' \ Headers = (fcont \ Headers) \ {file} /\ file \in fcont \ Headers
          BY <2>1, <3>2
        <4>2. Cardinality(fcont' \ Headers) = Cardinality(fcont \ Headers) - 1
              /\ Cardinality(fcont \ Headers) \in Nat
          BY <2>2, <4>1, FS_RemoveElement, FS_CardinalityType
        <4> QED BY <2>1, <3>2, <4>2 DEF Left
      <3> QED BY <3>1, <3>2
    <2> QED BY <2>1, <2>3 DEF Balance, CountedOnce, Countable, Unfinished, Row, Folder
  <1>6. CASE CompileFails
    BY <1>6, ReturnBalance DEF CompileFails, imageVars
  <1>7. CASE ReadLog
    <2>1. PICK res \in {0, 1, -1} : Return(res)
      BY <1>7 DEF ReadLog
    <2> QED BY <1>7, <2>1, ReturnBalance DEF ReadLog, imageVars
  <1>8. ASSUME NEW built \in BOOLEAN, CompileAndStart(built) PROVE Balance'
    BY <1>8 DEF CompileAndStart, Balance, CountedOnce, Countable, Unfinished, Row, Left, Folder,
                imageVars, counts
  <1>9. CASE TestStep
    <2>1. UNCHANGED <<tree, syscalls, pc, i, fcont, pass_list, fail_list, brok_list>>
      BY <1>9 DEF TestStep, Write, ExitKid, Fork, ExitMain, brainVars, imageVars, counts
    <2> QED BY <2>1 DEF Balance, CountedOnce, Countable, Unfinished, Row, Left, Folder
  <1>10. CASE UNCHANGED vars
    BY <1>10 DEF Balance, CountedOnce, Countable, Unfinished, Row, Left, Folder,
                 vars, brainVars, imageVars, counts
  <1> QED BY <1>1, <1>2, <1>3, <1>4, <1>5, <1>6, <1>7, <1>8, <1>9, <1>10 DEF Next, BrainStep

\* For every tree and whatever the tests do, the numbers of every folder that brain.py has
\* finished add up to the files it should count, and no other row is touched.
THEOREM EveryTestCountedOnce == Spec => []CountedOnce
  <1>1. Init => Balance
    <2> SUFFICES ASSUME Init PROVE Balance
      OBVIOUS
    <2>1. \A k \in Rows : Row(k) = 0
      BY DEF Init, Zeros, Row
    <2> QED BY <2>1, NType DEF Init, Balance, CountedOnce, Idx
  <1>2. Spec => []Balance
    BY <1>1, TypeCorrect, LoopAlways, NextBalance, PTL DEF Spec
  <1>3. Balance => CountedOnce
    BY DEF Balance
  <1> QED BY <1>2, <1>3, PTL

-----------------------------------------------------------------------------
(* Whose success is counted                                                *)

\* What a write adds to the cells of a log.
LEMMA WriteAtContent ==
  ASSUME NEW s \in Seq(Cells), NEW o \in Nat, NEW c, NEW n \in DOMAIN WriteAt(s, o, c)
  PROVE  WriteAt(s, o, c)[n] \in {c, "nul"} \cup {s[m] : m \in DOMAIN s}
  BY DEF WriteAt

\* When every program waits for its children, the only processes alive are those of the
\* test under way, and a success in log.txt is its own.
Waited ==
  /\ kids # {} => main
  /\ kids \subseteq {rootBin}
  /\ pc = "wait" /\ "ok" \in Content => rootBin \in said
  /\ NoFalsePass

\* The end of a call of runTest keeps Waited: a result of 1 is backed by the test's own word.
LEMMA ReturnWaited ==
  ASSUME TypeOK, Loop, RunsOwnBinary, Waited, pc \in {"compile", "wait"},
         NEW res \in {0, 1, -1}, Return(res), UNCHANGED <<tree, procVars, rootBin>>,
         ~main, res = 1 => pc = "wait" /\ "ok" \in Content
  PROVE  Waited'
  <1>1. pc' # "wait"
    BY DEF Return
  <1>2. NoFalsePass'
    <2> SUFFICES ASSUME NEW f \in Syscalls, Clean(f), NEW p \in tree[f] \cap Tests, judged'[p] = 1
                 PROVE  p \in said
      BY DEF NoFalsePass, Clean, procVars
    <2>1. CASE judged[p] = 1
      BY <2>1 DEF Waited, NoFalsePass
    <2>2. CASE judged[p] # 1
      <3>1. p = cur /\ res = 1
        BY <2>2, BrainAssumption DEF Return, TypeOK, Programs
      <3>2. p \in tree[Folder] /\ Folder \in Syscalls
        BY <3>1, NType DEF Loop, Folder, TypeOK, Idx
      <3>3. f = Folder
        BY <3>2, BrainAssumption DEF Loop, Trees, Programs
      <3>4. rootBin = p
        BY <3>1, <3>3 DEF RunsOwnBinary
      <3> QED BY <3>1, <3>4 DEF Waited
    <2> QED BY <2>1, <2>2
  <1> QED BY <1>1, <1>2 DEF Waited, procVars

\* Every step keeps Waited.
LEMMA NextWaited ==
  ASSUME Detached = {}
  PROVE  TypeOK /\ Loop /\ RunsOwnBinary /\ Waited /\ [Next]_vars => Waited'
  <1> SUFFICES ASSUME TypeOK, Loop, RunsOwnBinary, Waited, [Next]_vars PROVE Waited'
    OBVIOUS
  <1>1. ASSUME UNCHANGED <<tree, rootBin, procVars, judged>>, pc' # "wait" PROVE Waited'
    BY <1>1 DEF Waited, NoFalsePass, Clean, procVars
  <1>2. CASE SkipFolder \/ EnterFolder \/ LeaveFolder \/ WriteOut
    BY <1>1, <1>2 DEF SkipFolder, EnterFolder, LeaveFolder, WriteOut, imageVars, diskVars
  <1>3. ASSUME NEW file \in Files, NextFile(file) PROVE Waited'
    BY <1>1, <1>3 DEF NextFile, imageVars, diskVars
  <1>4. CASE CompileFails
    <2>1. ~main
      BY <1>4 DEF CompileFails, TypeOK
    <2> QED BY <1>4, <2>1, ReturnWaited DEF CompileFails, imageVars
  <1>5. CASE ReadLog
    <2>1. PICK res \in {0, 1, -1} : Return(res) /\ (res = 1 => "ok" \in Content)
      BY <1>5 DEF ReadLog
    <2> QED BY <1>5, <2>1, ReturnWaited DEF ReadLog, ShellReturned, imageVars, diskVars
  <1>6. ASSUME NEW built \in BOOLEAN, CompileAndStart(built) PROVE Waited'
    <2>1. kids = {}
      BY <1>6 DEF CompileAndStart, TypeOK, Waited
    <2>2. kids' = {} /\ log' = << >> /\ UNCHANGED <<tree, said, judged>>
      BY <1>6, <2>1 DEF CompileAndStart, OpenedLog, imageVars
    <2>3. Content' = {}
      BY <2>2 DEF Content
    <2> QED BY <2>2, <2>3 DEF Waited, NoFalsePass, Clean
  <1>7. ASSUME NEW p \in Programs, NEW c \in Cells \ {"nul"}, Write(p, c) PROVE Waited'
    <2>1. /\ UNCHANGED <<tree, pc, rootBin, main, kids, judged>> /\ p = rootBin /\ pc = "wait"
          /\ log' = WriteAt(log, off[p], c)
          /\ said' = IF c = "ok" THEN said \cup {p} ELSE said
      BY <1>7 DEF Write, Alive, Waited, TypeOK, imageVars, brainVars, diskVars
    <2>2. "ok" \in Content' => c = "ok" \/ "ok" \in Content
      <3> SUFFICES ASSUME NEW n \in DOMAIN log', log'[n] = "ok"
                   PROVE  c = "ok" \/ "ok" \in Content
        BY DEF Content
      <3>1. log'[n] \in {c, "nul"} \cup {log[m] : m \in DOMAIN log}
        BY <2>1, WriteAtContent DEF TypeOK
      <3> QED BY <3>1 DEF Content
    <2> QED BY <2>1, <2>2 DEF Waited, NoFalsePass, Clean
  <1>8. ASSUME NEW p \in Programs, ExitKid(p) PROVE Waited'
    BY <1>8 DEF ExitKid, Waited, NoFalsePass, Clean, Content, imageVars, brainVars, diskVars
  <1>9. CASE Fork
    BY <1>9 DEF Fork, Waited, NoFalsePass, Clean, Content, imageVars, brainVars, diskVars
  <1>10. CASE ExitMain
    <2>1. kids = {}
      BY <1>10 DEF ExitMain, Waited
    <2> QED BY <1>10, <2>1 DEF ExitMain, Waited, NoFalsePass, Clean, Content, imageVars, brainVars, diskVars
  <1>11. CASE UNCHANGED vars
    BY <1>11 DEF vars, Waited, NoFalsePass, Clean, Content, imageVars, brainVars, diskVars, procVars
  <1> QED BY <1>2, <1>3, <1>4, <1>5, <1>6, <1>7, <1>8, <1>9, <1>10, <1>11 DEF Next, BrainStep, TestStep

\* If no test ends before its children, a test of a clean folder that brain.py counts as
\* passing has itself written "test succeeded".
THEOREM NoFalsePassWhenWaiting ==
  ASSUME Detached = {}
  PROVE  Spec => []NoFalsePass
  <1>1. Init => Waited
    BY BrainAssumption DEF Init, Waited, NoFalsePass, Programs
  <1>2. TypeOK /\ Loop /\ RunsOwnBinary /\ Waited /\ [Next]_vars => Waited'
    BY NextWaited
  <1>3. Spec => []Waited
    BY <1>1, <1>2, TypeCorrect, LoopAlways, OwnBinary, PTL DEF Spec
  <1>4. Waited => NoFalsePass
    BY DEF Waited
  <1> QED BY <1>3, <1>4, PTL

-----------------------------------------------------------------------------
(* Whose success is heard                                                  *)

\* runTest is called once for a file: nothing that is still to come has been judged.
Pending ==
  /\ syscalls \in Listings
  /\ \A k \in Idx : k > i \/ (k = i /\ pc = "folder") =>
       \A p \in tree[syscalls[k]] \cap Programs : judged[p] = None
  /\ pc \in {"file", "compile", "wait"} => \A p \in fcont \cap Programs : judged[p] = None
  /\ pc \in {"compile", "wait"} => judged[cur] = None /\ cur \notin fcont

\* The end of a call of runTest keeps Pending: the file judged is in no other folder.
LEMMA ReturnPending ==
  ASSUME TypeOK, Loop, Pending, pc \in {"compile", "wait"},
         NEW res \in {0, 1, -1}, Return(res), UNCHANGED <<tree, syscalls, i, fcont>>
  PROVE  Pending'
  <1> USE NType, BrainAssumption
  <1>1. /\ pc' \in {"file", "crashed"} /\ i \in Idx /\ Folder \in Syscalls
        /\ cur \in Programs \cap tree[Folder] /\ cur \notin fcont
        /\ \A p \in Programs : p # cur => judged'[p] = judged[p]
    BY DEF Return, TypeOK, Loop, Folder, Idx, Pending
  <1>2. ASSUME NEW k \in Idx, k > i, NEW p \in tree[syscalls[k]] \cap Programs
        PROVE  judged'[p] = None
    <2>1. syscalls[k] \in Syscalls /\ syscalls[k] # Folder
      BY <1>1, <1>2 DEF Pending, Listings, Folder, Idx
    <2>2. p # cur
      BY <1>1, <2>1 DEF Loop, Trees
    <2> QED BY <1>1, <1>2, <2>2 DEF Pending
  <1>3. \A p \in fcont \cap Programs : judged'[p] = None
    BY <1>1 DEF Pending
  <1> QED BY <1>1, <1>2, <1>3 DEF Pending

\* Every step keeps Pending.
LEMMA NextPending == TypeOK /\ Loop /\ Pending /\ [Next]_vars => Pending'
  <1> SUFFICES ASSUME TypeOK, Loop, Pending, [Next]_vars PROVE Pending'
    OBVIOUS
  <1> USE NType, BrainAssumption
  <1>1. CASE SkipFolder
    <2>1. /\ UNCHANGED <<tree, syscalls, judged>> /\ pc = "folder" /\ i \in Nat
          /\ \/ pc' = "folder" /\ i' = i + 1
             \/ pc' = "crashed" /\ i' = i
      BY <1>1 DEF SkipFolder, TypeOK, imageVars
    <2> QED BY <2>1 DEF Pending, Idx
  <1>2. CASE EnterFolder
    <2>1. /\ UNCHANGED <<tree, syscalls, judged, i>> /\ i \in Idx
          /\ pc = "folder" /\ pc' = "file" /\ fcont' = tree[Folder]
      BY <1>2 DEF EnterFolder, TypeOK, imageVars, Idx
    <2> QED BY <2>1 DEF Pending, Folder
  <1>3. CASE LeaveFolder
    <2>1. /\ UNCHANGED <<tree, syscalls, judged>> /\ i \in Nat
          /\ pc' = "folder" /\ i' = i + 1
      BY <1>3 DEF LeaveFolder, TypeOK, imageVars
    <2> QED BY <2>1 DEF Pending, Idx
  <1>4. CASE WriteOut
    <2>1. UNCHANGED <<tree, syscalls, judged, i>> /\ pc' \in {"done", "crashed"}
      BY <1>4 DEF WriteOut, imageVars
    <2> QED BY <2>1 DEF Pending
  <1>5. ASSUME NEW file \in Files, NextFile(file) PROVE Pending'
    <2>1. /\ UNCHANGED <<tree, syscalls, judged, i>>
          /\ pc = "file" /\ fcont' = fcont \ {file} /\ file \in fcont
          /\ \/ file \in Headers /\ pc' = "file" /\ cur' = cur
             \/ file \in Programs /\ pc' = "compile" /\ cur' = file
      BY <1>5 DEF NextFile, Rest, Files, imageVars
    <2> QED BY <2>1 DEF Pending
  <1>6. CASE CompileFails
    BY <1>6, ReturnPending DEF CompileFails, imageVars
  <1>7. CASE ReadLog
    <2>1. PICK res \in {0, 1, -1} : Return(res)
      BY <1>7 DEF ReadLog
    <2> QED BY <1>7, <2>1, ReturnPending DEF ReadLog, imageVars
  <1>8. ASSUME NEW built \in BOOLEAN, CompileAndStart(built) PROVE Pending'
    BY <1>8 DEF CompileAndStart, Pending, imageVars
  <1>9. CASE TestStep
    <2>1. UNCHANGED <<tree, syscalls, pc, i, fcont, cur, judged>>
      BY <1>9 DEF TestStep, Write, ExitKid, Fork, ExitMain, brainVars, imageVars
    <2> QED BY <2>1 DEF Pending
  <1>10. CASE UNCHANGED vars
    BY <1>10 DEF vars, Pending, brainVars, imageVars
  <1> QED BY <1>1, <1>2, <1>3, <1>4, <1>5, <1>6, <1>7, <1>8, <1>9, <1>10 DEF Next, BrainStep

\* brain.py calls runTest at most once for a file.
LEMMA PendingAlways == Spec => []Pending
  <1>1. Init => Pending
    BY DEF Init, Pending, Programs
  <1> QED BY <1>1, TypeCorrect, LoopAlways, NextPending, PTL DEF Spec

\* When every program waits for its children nobody else writes to log.txt: each write goes
\* to its end, so that a success stays in it until it is read.
Heard ==
  /\ \A f \in Syscalls : aout[f] \in Strays \cup {None}
  /\ pc = "wait" /\ rootBin \in Tests => rootBin = cur
  /\ \A p \in said \cap Tests : judged[p] # None \/ (pc = "wait" /\ p = rootBin)
  /\ pc = "wait" => off[rootBin] = Len(log)
  /\ pc = "wait" /\ rootBin \in said \cap Tests => "ok" \in Content
  /\ SuccessCounted

\* A write at the end of a log keeps what is in it.
LEMMA WriteAtEnd ==
  ASSUME NEW s \in Seq(Cells), NEW c
  PROVE  /\ Len(WriteAt(s, Len(s), c)) = Len(s) + 1
         /\ DOMAIN WriteAt(s, Len(s), c) = 1 .. (Len(s) + 1)
         /\ WriteAt(s, Len(s), c)[Len(s) + 1] = c
         /\ \A n \in DOMAIN s : WriteAt(s, Len(s), c)[n] = s[n]
  <1>1. WriteAt(s, Len(s), c) =
          [n \in 1 .. (Len(s) + 1) |-> IF n = Len(s) + 1 THEN c ELSE s[n]]
    BY DEF WriteAt
  <1> QED BY <1>1

\* The end of a call of runTest keeps Heard: a test whose success was written is not failed.
LEMMA ReturnHeard ==
  ASSUME TypeOK, Loop, Pending, RunsOwnBinary, Heard, pc \in {"compile", "wait"},
         NEW res \in {0, 1, -1}, Return(res), UNCHANGED <<tree, procVars>>,
         \A f \in Syscalls : aout'[f] \in {aout[f], None},
         res = 0 /\ pc = "wait" => "ok" \notin Content
  PROVE  Heard'
  <1> USE NType, BrainAssumption
  <1>1. /\ pc' # "wait" /\ said' = said /\ cur \in Programs /\ judged[cur] = None
        /\ judged' = [judged EXCEPT ![cur] = res]
    BY DEF Return, TypeOK, Pending, procVars
  <1>2. \A p \in said \cap Tests : judged'[p] # None
    <2> SUFFICES ASSUME NEW p \in said \cap Tests PROVE judged'[p] # None
      OBVIOUS
    <2>1. p \in Programs /\ res # None
      BY DEF Programs
    <2>2. CASE p = cur
      BY <1>1, <2>1, <2>2 DEF TypeOK
    <2>3. CASE p # cur
      BY <1>1, <2>1, <2>3 DEF Heard, TypeOK
    <2> QED BY <2>2, <2>3
  <1>3. SuccessCounted'
    <2> SUFFICES ASSUME NEW f \in Syscalls, Clean(f), NEW p \in tree[f] \cap said, judged'[p] = 0
                 PROVE  FALSE
      BY <1>1 DEF SuccessCounted, Clean
    <2>1. p \in Tests /\ p \in Programs /\ judged[p] # 0
      BY DEF TypeOK, Heard, SuccessCounted, Clean, Programs
    <2>2. p = cur /\ res = 0
      BY <1>1, <2>1 DEF TypeOK
    <2>3. pc = "wait" /\ rootBin = cur
      BY <1>1, <2>1, <2>2 DEF Heard
    <2> QED BY <2>1, <2>2, <2>3 DEF Heard
  <1>4. \A f \in Syscalls : aout'[f] \in Strays \cup {None}
    BY DEF Heard
  <1> QED BY <1>1, <1>2, <1>3, <1>4 DEF Heard

\* Every step keeps Heard.
LEMMA NextHeard ==
  ASSUME Detached = {}
  PROVE  TypeOK /\ Loop /\ Pending /\ RunsOwnBinary /\ Waited /\ Heard /\ [Next]_vars => Heard'
  <1> SUFFICES ASSUME TypeOK, Loop, Pending, RunsOwnBinary, Waited, Heard, [Next]_vars
               PROVE  Heard'
    OBVIOUS
  <1> USE NType, BrainAssumption
  <1>1. ASSUME UNCHANGED <<tree, aout, said, judged>>, pc' # "wait", pc # "wait" PROVE Heard'
    BY <1>1 DEF Heard, SuccessCounted, Clean
  <1>2. CASE SkipFolder \/ EnterFolder \/ LeaveFolder \/ WriteOut
    BY <1>1, <1>2 DEF SkipFolder, EnterFolder, LeaveFolder, WriteOut, imageVars, diskVars, procVars
  <1>3. ASSUME NEW file \in Files, NextFile(file) PROVE Heard'
    BY <1>1, <1>3 DEF NextFile, imageVars, diskVars, procVars
  <1>4. CASE CompileFails
    <2>1. \A f \in Syscalls : aout'[f] \in {aout[f], None}
      BY <1>4 DEF CompileFails, TypeOK
    <2> QED BY <1>4, <2>1, ReturnHeard DEF CompileFails, imageVars
  <1>5. CASE ReadLog
    <2>1. PICK res \in {0, 1, -1} : Return(res) /\ (res = 0 => "ok" \notin Content)
      BY <1>5 DEF ReadLog
    <2> QED BY <1>5, <2>1, ReturnHeard DEF ReadLog, imageVars, diskVars
  <1>6. ASSUME NEW built \in BOOLEAN, CompileAndStart(built) PROVE Heard'
    <2>1. /\ UNCHANGED <<tree, cur, said, judged>> /\ log' = << >>
          /\ pc = "compile" /\ pc' = "wait" /\ Folder \in Syscalls
          /\ cur \in Programs /\ judged[cur] = None
          /\ rootBin' = IF built THEN cur ELSE aout[Folder]
          /\ built \/ aout[Folder] # None
          /\ aout' = [aout EXCEPT ![Folder] = None]
          /\ off' = [off EXCEPT ![rootBin'] = 0]
      BY <1>6 DEF CompileAndStart, OpenedLog, MovedBinary, TypeOK, Pending, Folder, Idx, imageVars
    <2>2. rootBin' \in Programs /\ (rootBin' \in Tests => rootBin' = cur)
      BY <2>1 DEF Heard, Programs
    <2>3. \A f \in Syscalls : aout'[f] \in Strays \cup {None}
      BY <2>1 DEF Heard, TypeOK
    <2>4. off'[rootBin'] = 0 /\ Len(log') = 0
      BY <2>1, <2>2 DEF TypeOK
    <2>5. rootBin' \notin said \cap Tests
      BY <2>1, <2>2 DEF Heard
    <2> QED BY <2>1, <2>2, <2>3, <2>4, <2>5 DEF Heard, SuccessCounted, Clean
  <1>7. ASSUME NEW p \in Programs, NEW c \in Cells \ {"nul"}, Write(p, c) PROVE Heard'
    <2>1. /\ UNCHANGED <<tree, pc, cur, aout, rootBin, judged>> /\ p = rootBin /\ pc = "wait"
          /\ log' = WriteAt(log, off[p], c) /\ off' = [off EXCEPT ![p] = @ + 1]
          /\ said' = IF c = "ok" THEN said \cup {p} ELSE said
          /\ off[p] = Len(log) /\ log \in Seq(Cells)
      BY <1>7 DEF Write, Alive, Waited, Heard, TypeOK, imageVars, brainVars, diskVars
    <2>2. /\ Len(log') = Len(log) + 1 /\ DOMAIN log' = 1 .. (Len(log) + 1)
          /\ log'[Len(log) + 1] = c /\ \A n \in DOMAIN log : log'[n] = log[n]
      BY <2>1, WriteAtEnd
    <2>3. c \in Content' /\ Content \subseteq Content'
      BY <2>1, <2>2 DEF Content
    <2>4. off'[rootBin'] = Len(log')
      BY <2>1, <2>2 DEF TypeOK
    <2>5. SuccessCounted'
      <3> SUFFICES ASSUME NEW f \in Syscalls, Clean(f), NEW q \in tree[f] \cap said', judged[q] = 0
                   PROVE  FALSE
        BY <2>1 DEF SuccessCounted, Clean
      <3>1. q = p
        BY <2>1 DEF Heard, SuccessCounted
      <3>2. p \in Tests
        BY <3>1 DEF Clean, Programs
      <3> QED BY <2>1, <3>1, <3>2 DEF Heard, Pending
    <2>6. rootBin \in said' \cap Tests => "ok" \in Content'
      BY <2>1, <2>3 DEF Heard
    <2>7. \A q \in said' \cap Tests : judged[q] # None \/ q = rootBin
      BY <2>1 DEF Heard
    <2> QED BY <2>1, <2>4, <2>5, <2>6, <2>7 DEF Heard
  <1>8. CASE (\E p \in Programs : ExitKid(p)) \/ Fork \/ ExitMain
    <2>1. UNCHANGED <<tree, pc, cur, aout, rootBin, log, off, said, judged>>
      BY <1>8 DEF ExitKid, Fork, ExitMain, imageVars, brainVars, diskVars
    <2> QED BY <2>1 DEF Heard, SuccessCounted, Clean, Content
  <1>9. CASE UNCHANGED vars
    BY <1>9 DEF vars, Heard, SuccessCounted, Clean, Content, imageVars, brainVars, diskVars, procVars
  <1> QED BY <1>2, <1>3, <1>4, <1>5, <1>6, <1>7, <1>8, <1>9 DEF Next, BrainStep, TestStep

\* If no test ends before its children, no success is lost: a test of a clean folder that
\* has written "test succeeded" is never counted as failing.
THEOREM SuccessCountedWhenWaiting ==
  ASSUME Detached = {}
  PROVE  Spec => []SuccessCounted
  <1>1. Init => Heard
    <2> SUFFICES ASSUME Init PROVE Heard
      OBVIOUS
    <2>1. \A f \in Syscalls : aout[f] \in Strays \cup {None}
      BY DEF Init
    <2> QED BY <2>1 DEF Init, Heard, SuccessCounted
  <1>2. Init => Waited
    BY BrainAssumption DEF Init, Waited, NoFalsePass, Programs
  <1>3. TypeOK /\ Loop /\ RunsOwnBinary /\ Waited /\ [Next]_vars => Waited'
    BY NextWaited
  <1>4. TypeOK /\ Loop /\ Pending /\ RunsOwnBinary /\ Waited /\ Heard /\ [Next]_vars => Heard'
    BY NextHeard
  <1>5. Spec => []Heard
    BY <1>1, <1>2, <1>3, <1>4, TypeCorrect, LoopAlways, OwnBinary, PendingAlways, PTL DEF Spec
  <1>6. Heard => SuccessCounted
    BY DEF Heard
  <1> QED BY <1>5, <1>6, PTL

-----------------------------------------------------------------------------
(* brain.py implements Tally                                               *)

\* The values of Tally's variables, named.
Todo    == [s \in Syscalls |-> NotCounted(s)]
Tallied == [s \in Syscalls |-> Numbers(s)]
Phase   == IF pc = "done" THEN "published" ELSE IF pc = "crashed" THEN "aborted" ELSE "counting"

\* The file out.txt is there only at the end.
OutLast == out # None => pc = "done"

\* A listing holds every folder at one position.
LEMMA Positions ==
  ASSUME syscalls \in Listings
  PROVE  /\ \A s \in Syscalls : Position(s) \in Idx /\ syscalls[Position(s)] = s
         /\ \A k \in Idx : Position(syscalls[k]) = k
  <1>1. syscalls \in Injection(Idx, Syscalls)
    BY DEF Listings, Injection, IsInjective
  <1>2. IsFiniteSet(Idx) /\ Cardinality(Idx) = N
    BY NType, FS_Interval DEF Idx
  <1>3. syscalls \in Surjection(Idx, Syscalls)
    BY <1>1, <1>2, FS_Injection, BrainAssumption DEF N
  <1>4. \A s \in Syscalls : \E k \in Idx : syscalls[k] = s
    BY <1>3 DEF Surjection
  <1>5. \A s \in Syscalls : Position(s) \in Idx /\ syscalls[Position(s)] = s
    BY <1>4 DEF Position
  <1>6. \A k \in Idx : syscalls[k] \in Syscalls
    BY DEF Listings
  <1> QED BY <1>5, <1>6 DEF Listings

\* While nothing is published, the numbers of a folder are those of the three lists.
LEMMA NumbersOf ==
  ASSUME out = None, NEW s \in Syscalls
  PROVE  Numbers(s) =
           [c \in {"pass", "fail", "brok"} |->
              IF Position(s) >= Capacity THEN 0
              ELSE CASE c = "pass" -> pass_list[Position(s)]
                     [] c = "fail" -> fail_list[Position(s)]
                     [] c = "brok" -> brok_list[Position(s)]]
  BY DEF Numbers

\* Initially nothing is counted.
LEMMA InitTally == Init => T!TallyInit
  <1> SUFFICES ASSUME Init PROVE T!TallyInit
    OBVIOUS
  <1> USE NType, BrainAssumption
  <1>1. \A s \in Syscalls : Position(s) \in Idx
    BY Positions DEF Init
  <1>2. ASSUME NEW s \in Syscalls PROVE NotCounted(s) \in SUBSET Files
    <2>1. NotCounted(s) = Countable(s)
      BY <1>1 DEF NotCounted, Init, Idx
    <2> QED BY <2>1 DEF Countable, Init, Trees
  <1>3. ASSUME NEW s \in Syscalls PROVE Numbers(s) = T!NothingCounted
    <2>1. Position(s) \in Idx /\ (~(Position(s) >= Capacity) => Position(s) \in Rows)
      BY <1>1 DEF Idx, Rows
    <2>2. ~(Position(s) >= Capacity) =>
            pass_list[Position(s)] = 0 /\ fail_list[Position(s)] = 0 /\ brok_list[Position(s)] = 0
      BY <2>1 DEF Init, Zeros
    <2> QED BY <2>2, NumbersOf DEF Init, T!NothingCounted, T!Categories
  <1> QED BY <1>2, <1>3 DEF T!TallyInit, Init

\* What does not change for Tally: its variables are functions of these.
LEMMA TallyStutter ==
  ASSUME UNCHANGED <<counts, out, syscalls>>, Todo' = Todo, Phase' = Phase
  PROVE  UNCHANGED T!tallyVars
  <1>1. Tallied' = Tallied
    BY DEF Tallied, Numbers, Position, Idx, counts
  <1> QED BY <1>1 DEF T!tallyVars, Todo, Tallied, Phase

\* The end of a call of runTest counts one file, or ends the program.
LEMMA ReturnTally ==
  ASSUME TypeOK, Loop, Pending, OutLast, pc \in {"compile", "wait"},
         NEW res \in {0, 1, -1}, Return(res), UNCHANGED <<tree, syscalls, i, fcont, out>>
  PROVE  T!TallyNext
  <1> USE NType, BrainAssumption
  <1>1. /\ i \in Idx /\ i \in Nat /\ Folder \in Syscalls /\ Position(Folder) = i
        /\ \A s \in Syscalls : Position(s) \in Idx /\ syscalls[Position(s)] = s
    BY Positions DEF Pending, TypeOK, Folder, Idx
  <1>2. /\ cur \in Programs /\ cur # None /\ cur \notin fcont /\ cur \notin Headers
        /\ ~Unfinished(Folder) /\ out = None /\ out' = None
    BY DEF TypeOK, Loop, Pending, OutLast
  <1>3. \A s \in Syscalls : s # Folder => Position(s) # i
    BY <1>1 DEF Folder
  <1>4. /\ \A s \in Syscalls : Position(s)' = Position(s) /\ Countable(s)' = Countable(s)
                               /\ Unfinished(s)' = Unfinished(s)
        /\ pc' \in {"file", "crashed"}
    BY DEF Position, Countable, Unfinished, Return
  <1>5. \A s \in Syscalls : s # Folder => NotCounted(s)' = NotCounted(s)
    BY <1>1, <1>3, <1>4 DEF NotCounted, Idx
  <1>6. NotCounted(Folder) = (fcont \ Headers) \cup {cur}
    BY <1>1, <1>2 DEF NotCounted
  <1>7. NotCounted(Folder)' = (fcont \ Headers) \cup ({cur'} \ {None})
    BY <1>1, <1>2, <1>4 DEF NotCounted, Folder
  <1>8. CASE i < Capacity
    <2> DEFINE c == IF res = 1 THEN "pass" ELSE IF res = 0 THEN "fail" ELSE "brok"
    <2>1. /\ i \in Rows /\ pc' = "file" /\ cur' = None
          /\ pass_list' = IF res = 1  THEN Add(pass_list, 1) ELSE pass_list
          /\ fail_list' = IF res = 0  THEN Add(fail_list, 1) ELSE fail_list
          /\ brok_list' = IF res = -1 THEN Add(brok_list, 1) ELSE brok_list
      BY <1>1, <1>8 DEF Return, Rows
    <2>2. Todo' = [Todo EXCEPT ![Folder] = @ \ {cur}]
      <3>1. NotCounted(Folder)' = NotCounted(Folder) \ {cur}
        BY <1>2, <1>6, <1>7, <2>1
      <3>2. Folder' = Folder
        BY DEF Folder
      <3> QED BY <1>1, <1>5, <3>1, <3>2 DEF Todo
    <2>3. \A list \in [Rows -> Nat] : \A k \in Rows :
            Add(list, 1)[k] = IF k = i THEN list[k] + 1 ELSE list[k]
      BY DEF Add
    <2>4. \A k \in Rows : /\ pass_list'[k] = IF k = i /\ res = 1 THEN pass_list[k] + 1 ELSE pass_list[k]
                          /\ fail_list'[k] = IF k = i /\ res = 0 THEN fail_list[k] + 1 ELSE fail_list[k]
                          /\ brok_list'[k] = IF k = i /\ res = -1 THEN brok_list[k] + 1 ELSE brok_list[k]
      BY <2>1, <2>3 DEF TypeOK
    <2>5. ASSUME NEW s \in Syscalls, s # Folder PROVE Numbers(s)' = Numbers(s)
      <3>1. ~(Position(s) >= Capacity) => Position(s) \in Rows /\ Position(s) # i
        BY <1>1, <1>3, <2>5 DEF Rows, Idx
      <3> QED BY <1>2, <1>4, <2>4, <3>1 DEF Numbers
    <2>6. Numbers(Folder)' = [Numbers(Folder) EXCEPT ![c] = @ + 1]
      <3>1. ~(Position(Folder) >= Capacity) /\ Position(Folder) = i
            /\ Folder' = Folder /\ Position(Folder)' = i
        BY <1>1, <1>4, <1>8 DEF Folder
      <3>2. Numbers(Folder) = [d \in {"pass", "fail", "brok"} |->
                CASE d = "pass" -> pass_list[i] [] d = "fail" -> fail_list[i] [] d = "brok" -> brok_list[i]]
        BY <1>2, <3>1 DEF Numbers
      <3>3. Numbers(Folder)' = [d \in {"pass", "fail", "brok"} |->
                CASE d = "pass" -> pass_list'[i] [] d = "fail" -> fail_list'[i] [] d = "brok" -> brok_list'[i]]
        BY <1>2, <1>8, <3>1 DEF Numbers
      <3> QED BY <2>1, <2>4, <3>2, <3>3
    <2>7. Tallied' = [Tallied EXCEPT ![Folder][c] = @ + 1]
      <3>1. Folder' = Folder
        BY DEF Folder
      <3> QED BY <1>1, <2>5, <2>6, <3>1 DEF Tallied
    <2>8. /\ c \in T!Categories /\ cur \in Files /\ cur \in Todo[Folder]
          /\ Phase = "counting" /\ Phase' = Phase
      BY <1>1, <1>2, <1>6, <2>1 DEF T!Categories, Files, Todo, Phase
    <2> HIDE DEF c
    <2>9. T!CountOne(Folder, cur, c)
      BY <2>2, <2>7, <2>8 DEF T!CountOne, Todo, Tallied, Phase
    <2> QED BY <1>1, <2>8, <2>9 DEF T!TallyNext
  <1>9. CASE ~(i < Capacity)
    <2>1. pc' = "crashed" /\ cur' = cur /\ UNCHANGED counts
      BY <1>9 DEF Return
    <2>2. Todo' = Todo
      <3>1. NotCounted(Folder)' = NotCounted(Folder) /\ Folder' = Folder
        BY <1>2, <1>6, <1>7, <2>1 DEF Folder
      <3> QED BY <1>5, <3>1 DEF Todo
    <2>3. Tallied' = Tallied
      BY <2>1 DEF Tallied, Numbers, Position, Idx, counts
    <2>4. Phase = "counting" /\ Phase' = "aborted"
      BY <2>1 DEF Phase
    <2>5. T!Abort
      BY <2>2, <2>3, <2>4 DEF T!Abort, Todo, Tallied, Phase
    <2> QED BY <2>5 DEF T!TallyNext
  <1> QED BY <1>8, <1>9

\* An unfinished folder is counted as a whole, or ends the program.
LEMMA SkipTally ==
  ASSUME TypeOK, Balance, Pending, OutLast, SkipFolder
  PROVE  T!TallyNext
  <1> USE NType, BrainAssumption
  <1>1. /\ pc = "folder" /\ i \in Idx /\ i \in Nat /\ Folder \in Syscalls /\ Position(Folder) = i
        /\ \A s \in Syscalls : Position(s) \in Idx /\ syscalls[Position(s)] = s
        /\ UNCHANGED <<tree, syscalls, fcont, cur, pass_list, fail_list, out>>
        /\ Unfinished(Folder) /\ out = None
    BY Positions DEF SkipFolder, Pending, TypeOK, Folder, Idx, imageVars, OutLast
  <1>2. \A s \in Syscalls : s # Folder => Position(s) # i
    BY <1>1 DEF Folder
  <1>3. \A s \in Syscalls : Position(s)' = Position(s) /\ Countable(s)' = Countable(s)
                            /\ Unfinished(s)' = Unfinished(s)
    BY <1>1 DEF Position, Countable, Unfinished
  <1>4. CASE i < Capacity
    <2>1. /\ i \in Rows /\ i' = i + 1 /\ pc' = pc /\ Cardinality(tree[Folder]) \in Nat
          /\ brok_list' = [brok_list EXCEPT ![i] = @ + Cardinality(tree[Folder])]
      <3>1. IsFiniteSet(tree[Folder])
        BY <1>1, FilesFinite, FS_Subset DEF TypeOK
      <3> QED BY <1>1, <1>4, <3>1, FS_CardinalityType DEF SkipFolder, Add, Rows
    <2>2. pass_list[i] = 0 /\ fail_list[i] = 0 /\ brok_list[i] = 0
      <3>1. Row(i) = 0
        BY <1>1, <2>1 DEF Balance
      <3> QED BY <2>1, <3>1 DEF Row, TypeOK
    <2>3. \A k \in Rows : brok_list'[k] = IF k = i THEN Cardinality(tree[Folder]) ELSE brok_list[k]
      BY <2>1, <2>2 DEF TypeOK
    <2>4. ASSUME NEW s \in Syscalls, s # Folder
          PROVE  Numbers(s)' = Numbers(s) /\ NotCounted(s)' = NotCounted(s)
      <3>1. Position(s) \in Idx /\ Position(s) # i /\ Position(s) \in Int
        BY <1>1, <1>2, <2>4 DEF Idx
      <3>2. ~(Position(s) >= Capacity) => Position(s) \in Rows
        BY <3>1 DEF Rows, Idx
      <3>3. Numbers(s)' = Numbers(s)
        BY <1>1, <1>3, <2>3, <3>1, <3>2 DEF Numbers
      <3>4. NotCounted(s)' = NotCounted(s)
        BY <1>1, <1>3, <2>1, <3>1 DEF NotCounted
      <3> QED BY <3>3, <3>4
    <2>5. ASSUME NEW s \in Syscalls, s = Folder
          PROVE  /\ NotCounted(s) = tree[Folder] /\ NotCounted(s)' = {}
                 /\ Numbers(s) = T!NothingCounted
                 /\ Numbers(s)' = [T!NothingCounted EXCEPT !["brok"] = Cardinality(tree[Folder])]
      <3>1. Position(s) = i /\ Position(s)' = i /\ ~(i >= Capacity) /\ i < i'
        BY <1>1, <1>3, <1>4, <2>1, <2>5
      <3>2. NotCounted(s) = tree[Folder] /\ NotCounted(s)' = {}
        BY <1>1, <2>1, <2>5, <3>1 DEF NotCounted, Countable
      <3>3. Numbers(s) = T!NothingCounted
        BY <1>1, <2>2, <3>1 DEF Numbers, T!NothingCounted, T!Categories
      <3>4. Numbers(s)' = [T!NothingCounted EXCEPT !["brok"] = Cardinality(tree[Folder])]
        BY <1>1, <2>1, <2>2, <2>3, <3>1 DEF Numbers, T!NothingCounted, T!Categories
      <3> QED BY <3>2, <3>3, <3>4
    <2>6. /\ Todo[Folder] = tree[Folder] /\ Tallied[Folder] = T!NothingCounted
          /\ Phase = "counting" /\ Phase' = Phase
      BY <1>1, <2>1, <2>5 DEF Todo, Tallied, Phase
    <2>7. Todo' = [Todo EXCEPT ![Folder] = {}]
      BY <1>1, <2>4, <2>5 DEF Todo
    <2>8. Tallied' = [Tallied EXCEPT ![Folder]["brok"] = Cardinality(Todo[Folder])]
      BY <1>1, <2>4, <2>5, <2>6 DEF Tallied
    <2>9. T!CountFolder(Folder)
      BY <2>6, <2>7, <2>8 DEF T!CountFolder, T!Cardinality, Cardinality, Todo, Tallied, Phase
    <2> QED BY <1>1, <2>9 DEF T!TallyNext
  <1>5. CASE ~(i < Capacity)
    <2>1. pc' = "crashed" /\ UNCHANGED <<i, brok_list>>
      BY <1>5 DEF SkipFolder
    <2>2. Todo' = Todo
      <3>1. ASSUME NEW s \in Syscalls PROVE NotCounted(s)' = NotCounted(s)
        <4>1. CASE s = Folder
          BY <1>1, <1>3, <2>1, <4>1 DEF NotCounted
        <4>2. CASE s # Folder
          <5>1. Position(s) # i /\ Position(s) \in Int
            BY <1>1, <1>2, <4>2 DEF Idx
          <5> QED BY <1>1, <1>3, <2>1, <5>1 DEF NotCounted
        <4> QED BY <4>1, <4>2
      <3> QED BY <3>1 DEF Todo
    <2>3. Tallied' = Tallied
      BY <1>1, <2>1 DEF Tallied, Numbers, Position, Idx
    <2>4. Phase = "counting" /\ Phase' = "aborted"
      BY <1>1, <2>1 DEF Phase
    <2>5. T!Abort
      BY <2>2, <2>3, <2>4 DEF T!Abort, Todo, Tallied, Phase
    <2> QED BY <2>5 DEF T!TallyNext
  <1> QED BY <1>4, <1>5

\* out.txt is written when nothing is left to count, with the numbers counted.
LEMMA WriteOutTally ==
  ASSUME TypeOK, Pending, OutLast, WriteOut
  PROVE  T!TallyNext
  <1> USE NType, BrainAssumption
  <1>1. /\ pc = "folder" /\ i = N /\ out = None
        /\ UNCHANGED <<tree, syscalls, fcont, cur, i, pass_list, fail_list, brok_list>>
        /\ \A s \in Syscalls : Position(s) \in Idx /\ Position(s) < i /\ Position(s)' = Position(s)
    <2>1. UNCHANGED syscalls /\ pc = "folder" /\ i = N
      BY DEF WriteOut, imageVars
    <2>2. \A s \in Syscalls : Position(s) \in Idx
      BY Positions DEF Pending
    <2> QED BY <2>1, <2>2 DEF WriteOut, OutLast, imageVars, counts, Position, Idx
  <1>2. \A s \in Syscalls : NotCounted(s) = {} /\ NotCounted(s)' = {}
    BY <1>1 DEF NotCounted
  <1>3. Todo' = Todo /\ \A s \in Syscalls : Todo[s] = {}
    BY <1>2 DEF Todo
  <1>4. CASE N <= Capacity
    <2>1. /\ pc' = "done"
          /\ out' = [pass |-> [k \in Idx |-> pass_list[k]], fail |-> [k \in Idx |-> fail_list[k]],
                     brok |-> [k \in Idx |-> brok_list[k]], logs |-> logs]
      BY <1>4 DEF WriteOut
    <2>2. ASSUME NEW s \in Syscalls PROVE Numbers(s)' = Numbers(s)
      <3>1. Position(s) \in Idx /\ ~(Position(s) >= Capacity) /\ Position(s)' = Position(s)
        BY <1>1, <1>4 DEF Idx
      <3>2. CASE out' # None
        BY <1>1, <2>1, <3>1, <3>2 DEF Numbers
      <3>3. CASE out' = None
        BY <1>1, <3>1, <3>3 DEF Numbers
      <3> QED BY <3>2, <3>3
    <2>3. Tallied' = Tallied /\ Phase = "counting" /\ Phase' = "published"
      BY <1>1, <2>1, <2>2 DEF Tallied, Phase
    <2>4. T!Publish
      BY <1>3, <2>3 DEF T!Publish, Todo, Tallied, Phase
    <2> QED BY <2>4 DEF T!TallyNext
  <1>5. CASE ~(N <= Capacity)
    <2>1. pc' = "crashed" /\ out' = out
      BY <1>5 DEF WriteOut
    <2>2. Tallied' = Tallied /\ Phase = "counting" /\ Phase' = "aborted"
      BY <1>1, <2>1 DEF Tallied, Numbers, Phase
    <2>3. T!Abort
      BY <1>3, <2>2 DEF T!Abort, Todo, Tallied, Phase
    <2> QED BY <2>3 DEF T!TallyNext
  <1> QED BY <1>4, <1>5

\* Every step of brain.py and its tests is a step of Tally or changes nothing in it.
LEMMA NextTally ==
  ASSUME TypeOK, Loop, Balance, Pending, OutLast, [Next]_vars
  PROVE  [T!TallyNext]_(T!tallyVars)
  <1> USE NType, BrainAssumption
  <1>0. \A s \in Syscalls : Position(s) \in Idx /\ Position(s) \in Int /\ syscalls[Position(s)] = s
    BY Positions DEF Pending, Idx
  <1>a. i \in Int /\ (pc # "folder" /\ pc \notin {"done", "crashed"} => i \in Idx)
    BY DEF TypeOK, Idx
  <1>b. ASSUME UNCHANGED <<tree, syscalls>>
        PROVE  \A s \in Syscalls : Position(s)' = Position(s) /\ Countable(s)' = Countable(s)
                                   /\ Unfinished(s)' = Unfinished(s)
    BY <1>b DEF Position, Countable, Unfinished
  <1>1. CASE SkipFolder
    BY <1>1, SkipTally
  <1>2. CASE EnterFolder
    <2>1. /\ UNCHANGED <<tree, syscalls, i, cur, counts, out>> /\ pc = "folder" /\ pc' = "file"
          /\ cur = None /\ fcont' = tree[Folder] /\ ~Unfinished(Folder)
      BY <1>2 DEF EnterFolder, imageVars, TypeOK
    <2>2. ASSUME NEW s \in Syscalls PROVE NotCounted(s)' = NotCounted(s)
      <3>1. CASE Position(s) = i
        <4>1. s = Folder
          BY <1>0, <3>1 DEF Folder
        <4>2. NotCounted(s) = tree[s] \ Headers
          BY <2>1, <3>1, <4>1, <1>a DEF NotCounted, Countable
        <4>3. NotCounted(s)' = tree[s] \ Headers
          BY <1>a, <1>b, <2>1, <3>1, <4>1 DEF NotCounted
        <4> QED BY <4>2, <4>3
      <3>2. CASE Position(s) # i
        BY <1>0, <1>a, <1>b, <2>1, <3>2 DEF NotCounted
      <3> QED BY <3>1, <3>2
    <2> QED BY <2>1, <2>2, TallyStutter DEF Todo, Phase
  <1>3. CASE LeaveFolder
    <2>1. /\ UNCHANGED <<tree, syscalls, cur, counts, out>> /\ pc = "file" /\ pc' = "folder"
          /\ cur = None /\ fcont = {} /\ i' = i + 1 /\ ~Unfinished(Folder)
      BY <1>3 DEF LeaveFolder, imageVars, TypeOK, Loop
    <2>2. ASSUME NEW s \in Syscalls PROVE NotCounted(s)' = NotCounted(s)
      <3>1. CASE Position(s) = i
        <4>1. s = Folder
          BY <1>0, <3>1 DEF Folder
        <4>2. NotCounted(s) = {}
          BY <1>a, <2>1, <3>1, <4>1 DEF NotCounted
        <4>3. NotCounted(s)' = {}
          BY <1>a, <1>b, <2>1, <3>1 DEF NotCounted
        <4> QED BY <4>2, <4>3
      <3>2. CASE Position(s) # i
        BY <1>0, <1>a, <1>b, <2>1, <3>2 DEF NotCounted
      <3> QED BY <3>1, <3>2
    <2> QED BY <2>1, <2>2, TallyStutter DEF Todo, Phase
  <1>4. CASE WriteOut
    BY <1>4, WriteOutTally
  <1>5. ASSUME NEW file \in Files, NextFile(file) PROVE [T!TallyNext]_(T!tallyVars)
    <2>1. /\ UNCHANGED <<tree, syscalls, i, counts, out>> /\ pc = "file" /\ cur = None
          /\ file \in fcont /\ fcont' = fcont \ {file}
          /\ \/ file \in Headers /\ pc' = "file" /\ cur' = None
             \/ file \in Programs /\ pc' = "compile" /\ cur' = file
      BY <1>5 DEF NextFile, Rest, Files, imageVars, TypeOK
    <2>2. (fcont' \ Headers) \cup ({cur'} \ {None}) = (fcont \ Headers) \cup ({cur} \ {None})
      BY <2>1
    <2>3. \A s \in Syscalls : NotCounted(s)' = NotCounted(s)
      BY <1>b, <2>1, <2>2 DEF NotCounted
    <2> QED BY <2>1, <2>3, TallyStutter DEF Todo, Phase
  <1>6. CASE CompileFails
    BY <1>6, ReturnTally DEF CompileFails, imageVars
  <1>7. CASE ReadLog
    <2>1. PICK res \in {0, 1, -1} : Return(res)
      BY <1>7 DEF ReadLog
    <2> QED BY <1>7, <2>1, ReturnTally DEF ReadLog, imageVars
  <1>8. ASSUME NEW built \in BOOLEAN, CompileAndStart(built) PROVE [T!TallyNext]_(T!tallyVars)
    <2>1. /\ UNCHANGED <<tree, syscalls, i, fcont, cur, counts, out>>
          /\ pc = "compile" /\ pc' = "wait"
      BY <1>8 DEF CompileAndStart, imageVars
    <2>2. \A s \in Syscalls : NotCounted(s)' = NotCounted(s)
      BY <1>b, <2>1 DEF NotCounted
    <2> QED BY <2>1, <2>2, TallyStutter DEF Todo, Phase
  <1>9. CASE TestStep \/ UNCHANGED vars
    <2>1. UNCHANGED <<tree, syscalls, pc, i, fcont, cur, counts, out>>
      BY <1>9 DEF TestStep, Write, ExitKid, Fork, ExitMain, vars, brainVars, imageVars
    <2>2. \A s \in Syscalls : NotCounted(s)' = NotCounted(s)
      BY <1>b, <2>1 DEF NotCounted
    <2> QED BY <2>1, <2>2, TallyStutter DEF Todo, Phase
  <1> QED BY <1>1, <1>2, <1>3, <1>4, <1>5, <1>6, <1>7, <1>8, <1>9 DEF Next, BrainStep

\* Whatever gcc and the tests do, with any number of folders, any files in them and any
\* capacity: brain.py counts file by file or unfinished folder by unfinished folder, and
\* publishes once, when every file is counted, or not at all.
THEOREM BrainImplementsTally == Spec => ImplementsTally
  <1>1. Init => Balance
    <2> SUFFICES ASSUME Init PROVE Balance
      OBVIOUS
    <2>1. \A k \in Rows : Row(k) = 0
      BY DEF Init, Zeros, Row
    <2> QED BY <2>1, NType DEF Init, Balance, CountedOnce, Idx
  <1>2. Spec => []Balance
    BY <1>1, TypeCorrect, LoopAlways, NextBalance, PTL DEF Spec
  <1>3. Init => OutLast
    BY DEF Init, OutLast
  <1>4. TypeOK /\ OutLast /\ [Next]_vars => OutLast'
    <2> SUFFICES ASSUME OutLast, [Next]_vars PROVE OutLast'
      OBVIOUS
    <2>1. CASE BrainStep
      BY <2>1 DEF BrainStep, SkipFolder, EnterFolder, LeaveFolder, WriteOut, NextFile, CompileFails,
                  CompileAndStart, ReadLog, Return, OutLast
    <2>2. CASE TestStep \/ UNCHANGED vars
      BY <2>2 DEF TestStep, Write, ExitKid, Fork, ExitMain, vars, brainVars, OutLast
    <2> QED BY <2>1, <2>2 DEF Next
  <1>5. Spec => []OutLast
    BY <1>3, <1>4, TypeCorrect, PTL DEF Spec
  <1>6. TypeOK /\ Loop /\ Balance /\ Pending /\ OutLast /\ [Next]_vars => [T!TallyNext]_(T!tallyVars)
    BY NextTally
  <1> QED BY <1>2, <1>5, <1>6, InitTally, TypeCorrect, LoopAlways, PendingAlways, PTL
          DEF Spec, ImplementsTally, T!TallySpec
=============================================================================
