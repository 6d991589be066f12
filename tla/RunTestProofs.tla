--------------------------- MODULE RunTestProofs ---------------------------
(***************************************************************************)
(* Proofs about runtest 8-81 for every set of tests, every order and every *)
(* verdict of them, and any number of invocations and edits.               *)
(***************************************************************************)
EXTENDS RunTest, InductionFacts, TLAPS

\* The number of tests is a natural number.
LEMMA NType == N \in Nat
  BY RunTestAssumption, FS_CardinalityType DEF N

\* An out.txt names each test once.
LEMMA ResultsFacts ==
  ASSUME NEW ran \in Results
  PROVE  /\ DOMAIN ran = 1 .. N
         /\ \A k \in 1 .. N : ran[k].test \in Tests
         /\ \A k, m \in 1 .. N : ran[k].test = ran[m].test => k = m
  <1>1. PICK o \in Orders, v \in [Tests -> Verdicts] :
          ran = [k \in 1 .. N |-> [test |-> o[k], verdict |-> v[o[k]]]]
    BY DEF Results
  <1>2. \A k \in 1 .. N : ran[k].test = o[k]
    BY <1>1
  <1> QED BY <1>1, <1>2 DEF Orders

\* The text that a chunk holds is that of one test, or of none.
LEMMA TextInType ==
  ASSUME NEW ran \in Results, NEW h \in Nat
  PROVE  TextIn(ran, h) \in Tests \cup {None}
  <1>1. CASE \E k \in Fails(ran) : k >= h
    <2> DEFINE F == {k \in Fails(ran) : k >= h}
    <2>1. F \in SUBSET Nat /\ F # {} /\ Fails(ran) \subseteq 1 .. N
      BY <1>1, ResultsFacts, NType DEF Fails
    <2>2. \E k \in F : \A m \in F : k <= m
      BY <2>1, SmallestOf
    <2>3. \E k \in Fails(ran) : k >= h /\ \A m \in Fails(ran) : m >= h => k <= m
      BY <2>2
    <2> DEFINE c == CHOOSE k \in Fails(ran) : k >= h /\ \A m \in Fails(ran) : m >= h => k <= m
    <2>4. c \in Fails(ran)
      BY <2>3
    <2>5. TextIn(ran, h) = ran[c].test
      BY <1>1 DEF TextIn
    <2> QED BY <2>1, <2>4, <2>5, ResultsFacts
  <1>2. CASE ~\E k \in Fails(ran) : k >= h
    BY <1>2 DEF TextIn
  <1> QED BY <1>1, <1>2

\* A log file holds the text of a test of the revision that was read, or is left alone.
LEMMA LogOfType ==
  ASSUME TypeOK, content \in Outputs, NEW t \in Tests
  PROVE  LogOf(t) \in [rev : 0 .. MaxRev, of : Tests \cup {None}] \cup {None}
  <1>1. content.ran \in Results /\ content.rev \in 0 .. MaxRev
    BY DEF Outputs
  <1>2. \A h \in Heads(content.ran) : h \in Nat
    BY <1>1, ResultsFacts, NType DEF Heads
  <1>3. CASE \E h \in Heads(content.ran) : content.ran[h].test = t
    <2> DEFINE c == CHOOSE h \in Heads(content.ran) : content.ran[h].test = t
    <2>1. c \in Heads(content.ran)
      BY <1>3
    <2>2. TextIn(content.ran, c) \in Tests \cup {None}
      BY <1>1, <1>2, <2>1, TextInType
    <2>3. LogOf(t) = [rev |-> content.rev, of |-> TextIn(content.ran, c)]
      BY <1>3 DEF LogOf
    <2> HIDE DEF c
    <2> QED BY <1>1, <2>2, <2>3
  <1>4. CASE ~\E h \in Heads(content.ran) : content.ran[h].test = t
    BY <1>4 DEF LogOf, TypeOK
  <1> QED BY <1>3, <1>4

\* What was read is an out.txt unless the container has printed nothing.
LEMMA ContentRead ==
  ASSUME TypeOK, pc \in {"logs", "numbers"}, content # Empty
  PROVE  content \in Outputs /\ content.ran \in Results /\ content.rev \in 0 .. MaxRev
  BY DEF TypeOK, Outputs

\* A container prints nothing or the output kept in the image.
LEMMA PrintsType ==
  ASSUME TypeOK
  PROVE  /\ Prints \subseteq Outputs \cup {Empty} /\ None \notin Prints
         /\ \A out \in Prints : out # Empty => out = image
  BY RunTestAssumption DEF Prints, TypeOK

\* Every step keeps the types.
LEMMA NextType == TypeOK /\ [Next]_vars => TypeOK'
  <1> SUFFICES ASSUME TypeOK, [Next]_vars PROVE TypeOK'
    OBVIOUS
  <1> USE RunTestAssumption DEF hostVars, argVars, buildVars, Exit
  <1>1. ASSUME NEW ran \in Results, Build(ran) PROVE TypeOK'
    <2>1. [rev |-> BuiltFrom, ran |-> ran] \in Outputs
      BY DEF TypeOK, Outputs, BuiltFrom
    <2>2. image' \in Outputs \cup {None}
      BY <1>1, <2>1 DEF Build, TypeOK
    <2>3. wanted' \in -1 .. MaxRev
      BY <1>1 DEF Build, TypeOK
    <2> QED BY <1>1, <2>2, <2>3 DEF Build, TypeOK
  <1>2. CASE Run
    BY <1>2, PrintsType DEF Run, Redirected, TypeOK
  <1>9. CASE Except
    <2>1. tmp' \in Outputs \cup {Empty, None} /\ wanted' \in -1 .. MaxRev
      BY <1>9, PrintsType DEF Except, TypeOK
    <2> QED BY <1>9, <2>1 DEF Except, TypeOK
  <1>10. CASE Interrupt
    BY <1>10 DEF Interrupt, TypeOK
  <1>3. CASE ReadTmp
    BY <1>3 DEF ReadTmp, TypeOK
  <1>4. CASE WriteLogs
    <2>1. logs' \in [Tests -> [rev : 0 .. MaxRev, of : Tests \cup {None}] \cup {None}]
      <3>1. CASE logs' = logs
        BY <3>1 DEF TypeOK
      <3>2. CASE content # Empty /\ logs' = [t \in Tests |-> LogOf(t)]
        <4>1. content \in Outputs
          BY <1>4, <3>2, ContentRead DEF WriteLogs
        <4> QED BY <3>2, <4>1, LogOfType
      <3> QED BY <1>4, <3>1, <3>2 DEF WriteLogs
    <2>2. pc = "logs" /\ pc' \in {"numbers", "idle"}
      BY <1>4 DEF WriteLogs
    <2> QED BY <1>4, <2>1, <2>2 DEF WriteLogs, TypeOK
  <1>5. CASE ReadNumbers
    <2>1. reported' \in -1 .. MaxRev
      <3>1. CASE content = Empty
        BY <1>5, <3>1 DEF ReadNumbers, TypeOK
      <3>2. CASE content # Empty
        BY <1>5, <3>2, ContentRead DEF ReadNumbers
      <3> QED BY <3>1, <3>2
    <2> QED BY <1>5, <2>1 DEF ReadNumbers, TypeOK
  <1>6. CASE Edit \/ MakeLogsDir
    <2>1. rev' \in 0 .. MaxRev
      <3>1. rev \in 0 .. MaxRev /\ (rev' = rev \/ (rev < MaxRev /\ rev' = rev + 1))
        BY <1>6 DEF Edit, MakeLogsDir, TypeOK
      <3> QED BY <3>1
    <2>2. logsDir' \in BOOLEAN
      BY <1>6 DEF Edit, MakeLogsDir, TypeOK
    <2>3. UNCHANGED <<image, tmp, content, logs, reported, wanted, pc>>
      BY <1>6 DEF Edit, MakeLogsDir
    <2> QED BY <2>1, <2>2, <2>3 DEF TypeOK
  <1>7. ASSUME NEW t, NEW g \in BOOLEAN, Invoke(t, g) PROVE TypeOK'
    BY <1>7 DEF Invoke, TypeOK
  <1>8. CASE UNCHANGED vars
    BY <1>8 DEF vars, TypeOK
  <1> QED BY <1>1, <1>2, <1>3, <1>4, <1>5, <1>6, <1>7, <1>8, <1>9, <1>10
         DEF Next, Script, User

\* runtest keeps to its types over any number of invocations, interrupted ones included:
\* it opens tmp.txt only where there is one and works only through what it has read.
THEOREM TypeCorrect == Spec => []TypeOK
  <1>1. Init => TypeOK
    BY RunTestAssumption DEF Init, TypeOK
  <1> QED BY <1>1, NextType, PTL DEF Spec

-----------------------------------------------------------------------------
(* Whose results are reported                                              *)

\* The revision asked for is passed on from the image to tmp.txt, to what is read of it and
\* to the report, and while an invocation is under way none is reported as done.
Passed ==
  /\ pc \in {"idle", "build", "run", "read", "logs", "numbers"}
  /\ pc # "idle" => outcome = "none"
  /\ built /\ image # None => image.rev = wanted
  /\ pc = "read" /\ tmp # Empty => tmp = image
  /\ ReadsOwnOutput
  /\ FreshIfBuilt

\* Every step keeps Passed.
LEMMA NextPassed == TypeOK /\ Passed /\ [Next]_vars => Passed'
  <1> SUFFICES ASSUME TypeOK, Passed, [Next]_vars PROVE Passed'
    OBVIOUS
  <1> USE RunTestAssumption DEF Passed, FreshIfBuilt, ReadsOwnOutput, hostVars, argVars, buildVars, Exit
  <1>1. ASSUME NEW ran \in Results, Build(ran) PROVE Passed'
    <2>1. pc = "build" /\ pc' = "run" /\ outcome' = "none" /\ wanted' = rev
      BY <1>1 DEF Build
    <2>2. built' => image'.rev = wanted'
      <3>1. ASSUME built' PROVE image' = [rev |-> rev, ran |-> ran]
        BY <1>1, <3>1 DEF Build, BuiltFrom
      <3> QED BY <2>1, <3>1
    <2> QED BY <2>1, <2>2
  <1>2. CASE Run
    BY <1>2, PrintsType DEF Run, Redirected
  <1>9. CASE Except
    BY <1>9 DEF Except
  <1>10. CASE Interrupt
    BY <1>10 DEF Interrupt
  <1>3. CASE ReadTmp
    BY <1>3 DEF ReadTmp
  <1>4. CASE WriteLogs
    BY <1>4 DEF WriteLogs
  <1>5. CASE ReadNumbers
    BY <1>5 DEF ReadNumbers, TypeOK
  <1>6. CASE Edit \/ MakeLogsDir
    BY <1>6 DEF Edit, MakeLogsDir
  <1>7. ASSUME NEW t, NEW g \in BOOLEAN, Invoke(t, g) PROVE Passed'
    BY <1>7 DEF Invoke
  <1>8. CASE UNCHANGED vars
    BY <1>8 DEF vars
  <1> QED BY <1>1, <1>2, <1>3, <1>4, <1>5, <1>6, <1>7, <1>8, <1>9, <1>10
         DEF Next, Script, User

\* For any number of edits, builds and runs, also edits during a build: when the last build
\* succeeded and the container printed, the results reported are those of the tree built.
THEOREM FreshWhenBuilt == Spec => []FreshIfBuilt
  <1>1. Init => Passed
    BY DEF Init, Passed, FreshIfBuilt, ReadsOwnOutput
  <1>2. Passed => FreshIfBuilt
    BY DEF Passed
  <1> QED BY <1>1, <1>2, TypeCorrect, NextPassed, PTL DEF Spec

\* However many invocations were interrupted before, and wherever: what runtest works
\* through is the output of the container it has run itself, or nothing.
THEOREM OwnOutputRead == Spec => []ReadsOwnOutput
  <1>1. Init => Passed
    BY DEF Init, Passed, FreshIfBuilt, ReadsOwnOutput
  <1>2. Passed => ReadsOwnOutput
    BY DEF Passed
  <1> QED BY <1>1, <1>2, TypeCorrect, NextPassed, PTL DEF Spec

-----------------------------------------------------------------------------
(* Where the error messages go                                             *)

\* Every failing test is in a chunk of which it is the first that fails.
LEMMA ChunkOf ==
  ASSUME NEW ran \in Results, NEW k \in Fails(ran)
  PROVE  \E h \in Heads(ran) : TextIn(ran, h) = ran[k].test
  <1> USE NType
  <1>1. k \in 1 .. N /\ DOMAIN ran = 1 .. N /\ Fails(ran) \subseteq 1 .. N
    BY ResultsFacts DEF Fails
  <1> DEFINE D == {d \in Nat : k - d \in Heads(ran)}
  <1>2. D \in SUBSET Nat /\ k - 1 \in D
    BY <1>1 DEF Heads
  <1>3. PICK d \in D : \A e \in D : d <= e
    BY <1>2, SmallestOf
  <1> DEFINE h == k - d
  <1>4. h \in Heads(ran) /\ h \in 1 .. N /\ h <= k /\ d \in Nat
    BY <1>1, <1>3 DEF Heads
  <1>5. \A m \in Fails(ran) : m >= h => k <= m
    <2> SUFFICES ASSUME NEW m \in Fails(ran), m >= h, m < k PROVE FALSE
      BY <1>1
    <2>1. m \in 1 .. N /\ m + 1 \in 1 .. N
      BY <1>1
    <2>2. m + 1 \in Heads(ran)
      BY <1>1, <2>1 DEF Heads
    <2>3. k - (m + 1) \in Nat /\ k - (k - (m + 1)) = m + 1
      BY <1>1, <2>1
    <2>4. k - (m + 1) \in D
      BY <2>2, <2>3
    <2>5. d <= k - (m + 1)
      BY <1>3, <2>4
    <2> QED BY <1>1, <1>4, <2>1, <2>5
  <1> HIDE DEF h, D
  <1>6. ASSUME NEW x \in Fails(ran), x >= h, \A m \in Fails(ran) : m >= h => x <= m
        PROVE  x = k
    BY <1>1, <1>4, <1>5, <1>6
  <1>7. (CHOOSE x \in Fails(ran) : x >= h /\ \A m \in Fails(ran) : m >= h => x <= m) = k
    BY <1>1, <1>4, <1>5, <1>6
  <1>8. TextIn(ran, h) = ran[k].test
    BY <1>1, <1>4, <1>7 DEF TextIn
  <1> QED BY <1>4, <1>8

\* Cutting the output into chunks and naming each after its first line writes the text of
\* every failing test.
LEMMA WriteLogsKeepsErrors ==
  ASSUME TypeOK, WriteLogs, pc' = "numbers", content # Empty
  PROVE  NoErrorLost'
  <1>1. /\ content' = content /\ content.ran \in Results
        /\ logs' = [t \in Tests |-> LogOf(t)]
    BY ContentRead DEF WriteLogs, Exit
  <1> DEFINE ran == content.ran
  <1>2. DOMAIN ran = 1 .. N /\ \A k, m \in 1 .. N : ran[k].test = ran[m].test => k = m
    BY <1>1, ResultsFacts
  <1> SUFFICES ASSUME NEW k \in Fails(ran)
               PROVE  \E t \in Tests : logs'[t] = [rev |-> content.rev, of |-> ran[k].test]
    BY <1>1 DEF NoErrorLost
  <1>3. PICK h \in Heads(ran) : TextIn(ran, h) = ran[k].test
    BY <1>1, ChunkOf
  <1>4. h \in 1 .. N /\ ran[h].test \in Tests
    BY <1>1, <1>2, ResultsFacts DEF Heads
  <1>5. (CHOOSE g \in Heads(ran) : ran[g].test = ran[h].test) = h
    BY <1>2, <1>4 DEF Heads
  <1>6. LogOf(ran[h].test) = [rev |-> content.rev, of |-> TextIn(ran, h)]
    BY <1>5 DEF LogOf
  <1> QED BY <1>1, <1>3, <1>4, <1>6

\* runtest loses no error message: whatever the order and the verdicts of the tests, the
\* text of each failing test is in a log file when the numbers are read.
THEOREM NoErrorIsLost == Spec => []NoErrorLost
  <1>1. Init => NoErrorLost
    BY DEF Init, NoErrorLost
  <1>2. TypeOK /\ NoErrorLost /\ [Next]_vars => NoErrorLost'
    <2> SUFFICES ASSUME TypeOK, NoErrorLost, [Next]_vars PROVE NoErrorLost'
      OBVIOUS
    <2>1. CASE WriteLogs
      <3>1. CASE pc' = "numbers" /\ content # Empty
        BY <2>1, <3>1, WriteLogsKeepsErrors
      <3>2. CASE pc' # "numbers" \/ content = Empty
        BY <2>1, <3>2 DEF WriteLogs, NoErrorLost
      <3> QED BY <3>1, <3>2
    <2>2. CASE pc' # "numbers"
      BY <2>2 DEF NoErrorLost
    <2>3. CASE ~WriteLogs /\ pc' = "numbers"
      <3>1. UNCHANGED <<pc, content, logs>>
        BY <2>3 DEF Next, Script, User, Build, Run, Except, Interrupt, ReadTmp, ReadNumbers,
                    Edit, MakeLogsDir, Invoke, Exit, vars
      <3> QED BY <3>1 DEF NoErrorLost
    <2> QED BY <2>1, <2>2, <2>3
  <1> QED BY <1>1, <1>2, TypeCorrect, PTL DEF Spec
=============================================================================
