---------------------------- MODULE ResetProofs ----------------------------
(***************************************************************************)
(* Proofs about convert.py and misc/reset.py.                              *)
(*                                                                         *)
(* rmcomment: the first loop does not end on a text that begins with a     *)
(* comment, whatever follows, and what the second loop returns opens no    *)
(* comment, for every length of the text and every number of turns.        *)
(*                                                                         *)
(* The walk of convert.py and reset.py on one tree: for every set of       *)
(* folders and files, every text of them and any number of runs, of which  *)
(* some break off.                                                         *)
(***************************************************************************)
EXTENDS Reset, InductionFacts, SequenceTheorems, TLAPS

-----------------------------------------------------------------------------
(* rmcomment: the loop over a comment at the beginning                     *)

Opens(s) == Len(s) > 1 /\ PairAt(s, 1, "/", "*")

\* The text in the first loop begins with a comment if the argument does.
Trapped ==
  Opens(input) => pc = "multi" /\ file \in Seq(Chars) /\ Opens(file)

\* A turn of the loop keeps the two characters at the beginning.
LEMMA OpeningStays ==
  ASSUME NEW s \in Seq(Chars), Opens(s),
         NEW k, k = Find(s, "/", "*") - 1
  PROVE  /\ UpTo(s, k - 1) \o SubSeq(s, k + 2, Len(s)) \in Seq(Chars)
         /\ Opens(UpTo(s, k - 1) \o SubSeq(s, k + 2, Len(s)))
  <1>1. k = 0
    <2>1. 1 \in 1 .. (Len(s) - 1) /\ PairAt(s, 1, "/", "*")
      BY DEF Opens
    <2>2. \A j \in 1 .. (Len(s) - 1) :
            (PairAt(s, j, "/", "*") /\ \A m \in 1 .. (j - 1) : ~PairAt(s, m, "/", "*")) <=> j = 1
      BY <2>1
    <2>3. Find(s, "/", "*") = 1
      BY <2>1, <2>2 DEF Find
    <2> QED BY <2>3
  <1> DEFINE h == SubSeq(s, 1, Len(s) - 1)
             t == SubSeq(s, 2, Len(s))
  <1>2. UpTo(s, k - 1) = h /\ SubSeq(s, k + 2, Len(s)) = t
    BY <1>1 DEF UpTo
  <1>3. /\ h \in Seq(Chars) /\ Len(h) = Len(s) - 1 /\ h[1] = "/" /\ (Len(s) > 2 => h[2] = "*")
        /\ t \in Seq(Chars) /\ Len(t) = Len(s) - 1 /\ t[1] = "*"
    BY DEF Opens, PairAt
  <1> HIDE DEF h, t
  <1> DEFINE e == h \o t
  <1>4. e \in Seq(Chars) /\ Len(e) > 1
    BY <1>3 DEF Opens
  <1>5. e[1] = "/" /\ e[1 + 1] = "*"
    BY <1>3 DEF Opens
  <1>6. Opens(e)
    BY <1>4, <1>5 DEF Opens, PairAt
  <1> QED BY <1>2, <1>4, <1>6

\* Texts that begin with a comment never leave the first loop of rmcomment.
THEOREM HeaderTrapped == Spec => []HeaderNeverLeaves
  <1>1. Init => Trapped
    <2>1. SeqOf(Chars, MaxInput) \subseteq Seq(Chars)
      BY RmCommentAssumption DEF SeqOf
    <2> QED BY <2>1 DEF Init, Trapped
  <1>2. Trapped /\ [Next]_vars => Trapped'
    <2> SUFFICES ASSUME Trapped, [Next]_vars, Opens(input)' PROVE Trapped'
      BY DEF Trapped
    <2>1. input' = input
      BY DEF Next, RemoveOpening, EndOfFirstLoop, NextLine, vars
    <2>2. pc = "multi" /\ file \in Seq(Chars) /\ Opens(file)
      BY <2>1 DEF Trapped
    <2>3. CASE RemoveOpening
      <3> DEFINE k == Find(file, "/", "*") - 1
      <3>1. file' = UpTo(file, k - 1) \o SubSeq(file, k + 2, Len(file)) /\ pc' = pc
        BY <2>3 DEF RemoveOpening
      <3>2. file' \in Seq(Chars) /\ Opens(file')
        BY <2>2, <3>1, OpeningStays
      <3> QED BY <2>2, <3>1, <3>2 DEF Trapped
    <2>4. CASE EndOfFirstLoop
      <3>1. Has(file, "/", "*")
        BY <2>2 DEF Opens, Has
      <3> QED BY <2>4, <3>1 DEF EndOfFirstLoop, NoneLeft
    <2>5. CASE NextLine
      BY <2>2, <2>5 DEF NextLine
    <2>6. CASE UNCHANGED vars
      BY <2>6 DEF vars, Trapped
    <2> QED BY <2>3, <2>4, <2>5, <2>6 DEF Next
  <1>3. Trapped => HeaderNeverLeaves
    BY DEF Trapped, HeaderNeverLeaves, Opens
  <1> QED BY <1>1, <1>2, <1>3, PTL DEF Spec

-----------------------------------------------------------------------------
(* What rmcomment returns                                                  *)

\* A text to which another can be joined without opening a comment.
Tidy(s) ==
  /\ s \in Seq(Chars)
  /\ ~Has(s, "/", "*") /\ ~Has(s, "/", "/")
  /\ Len(s) > 0 => s[Len(s)] # "/"

\* find returns the position of the first pair.
LEMMA FindFirst ==
  ASSUME NEW s \in Seq(Chars), NEW a, NEW c, Has(s, a, c)
  PROVE  /\ Find(s, a, c) \in 1 .. (Len(s) - 1)
         /\ PairAt(s, Find(s, a, c), a, c)
         /\ \A m \in 1 .. (Find(s, a, c) - 1) : ~PairAt(s, m, a, c)
  <1> DEFINE P == {k \in 1 .. (Len(s) - 1) : PairAt(s, k, a, c)}
  <1>1. P \in SUBSET Nat /\ P # {}
    BY DEF Has
  <1>2. PICK k \in P : \A m \in P : k <= m
    BY <1>1, SmallestOf
  <1>3. k \in 1 .. (Len(s) - 1) /\ PairAt(s, k, a, c)
    BY <1>2
  <1>4. ASSUME NEW m \in 1 .. (k - 1) PROVE ~PairAt(s, m, a, c)
    <2>1. m \in 1 .. (Len(s) - 1) /\ ~(k <= m)
      BY <1>3
    <2> QED BY <1>2, <2>1
  <1> QED BY <1>3, <1>4 DEF Find

\* The first line ends within the text.
LEMMA LineLenType ==
  ASSUME NEW s \in Seq(Chars)
  PROVE  LineLen(s) \in 0 .. Len(s)
  <1>1. CASE \E k \in 1 .. Len(s) : s[k] = "n"
    <2> DEFINE P == {k \in 1 .. Len(s) : s[k] = "n"}
    <2>1. P \in SUBSET Nat /\ P # {}
      BY <1>1
    <2>2. PICK k \in P : \A m \in P : k <= m
      BY <2>1, SmallestOf
    <2>3. k \in 1 .. Len(s) /\ s[k] = "n"
      BY <2>2
    <2>4. ASSUME NEW m \in 1 .. (k - 1) PROVE s[m] # "n"
      <3>1. m \in 1 .. Len(s) /\ ~(k <= m)
        BY <2>3
      <3> QED BY <2>2, <3>1
    <2> DEFINE c == CHOOSE l \in 1 .. Len(s) : s[l] = "n" /\ \A m \in 1 .. (l - 1) : s[m] # "n"
    <2>5. c \in 1 .. Len(s)
      BY <2>3, <2>4
    <2>6. LineLen(s) = c - 1
      BY <1>1 DEF LineLen
    <2> HIDE DEF c
    <2> QED BY <2>5, <2>6
  <1>2. CASE ~\E k \in 1 .. Len(s) : s[k] = "n"
    BY <1>2 DEF LineLen
  <1> QED BY <1>1, <1>2

\* A part of a text has no pair that the text has not.
LEMMA PartHas ==
  ASSUME NEW s \in Seq(Chars), NEW m \in Nat \ {0}, NEW n \in 0 .. Len(s), NEW a, NEW c,
         Has(SubSeq(s, m, n), a, c)
  PROVE  Has(s, a, c)
  <1>1. /\ SubSeq(s, m, n) \in Seq(Chars)
        /\ Len(SubSeq(s, m, n)) = IF m <= n THEN n - m + 1 ELSE 0
        /\ \A k \in 1 .. (n - m + 1) : SubSeq(s, m, n)[k] = s[m + k - 1]
    BY SubSeqProperties
  <1>2. PICK k \in 1 .. (Len(SubSeq(s, m, n)) - 1) : PairAt(SubSeq(s, m, n), k, a, c)
    BY DEF Has
  <1>3. /\ m <= n /\ k \in 1 .. (n - m + 1) /\ k + 1 \in 1 .. (n - m + 1)
        /\ m + k - 1 \in 1 .. (Len(s) - 1) /\ m + (k + 1) - 1 = (m + k - 1) + 1
    BY <1>1, <1>2
  <1>4. PairAt(s, m + k - 1, a, c)
    BY <1>1, <1>2, <1>3 DEF PairAt
  <1> QED BY <1>3, <1>4 DEF Has

\* Two texts joined have a pair only in one of them, or across the joint.
LEMMA JoinHas ==
  ASSUME NEW s \in Seq(Chars), NEW t \in Seq(Chars), NEW a, NEW c, Has(s \o t, a, c)
  PROVE  Has(s, a, c) \/ Has(t, a, c) \/ (Len(s) > 0 /\ s[Len(s)] = a)
  <1>1. /\ Len(s \o t) = Len(s) + Len(t)
        /\ \A k \in 1 .. (Len(s) + Len(t)) :
             (s \o t)[k] = IF k <= Len(s) THEN s[k] ELSE t[k - Len(s)]
    BY ConcatProperties
  <1>2. PICK k \in 1 .. (Len(s) + Len(t) - 1) : PairAt(s \o t, k, a, c)
    BY <1>1 DEF Has
  <1>3. /\ k \in 1 .. (Len(s) + Len(t)) /\ k + 1 \in 1 .. (Len(s) + Len(t))
        /\ (s \o t)[k] = a /\ (s \o t)[k + 1] = c
    BY <1>2 DEF PairAt
  <1>4. CASE k < Len(s)
    <2>1. k \in 1 .. (Len(s) - 1) /\ s[k] = a /\ s[k + 1] = c
      BY <1>1, <1>3, <1>4
    <2> QED BY <2>1 DEF Has, PairAt
  <1>5. CASE k = Len(s)
    BY <1>1, <1>3, <1>5
  <1>6. CASE k > Len(s)
    <2>1. k - Len(s) \in 1 .. (Len(t) - 1) /\ t[k - Len(s)] = a /\ t[(k - Len(s)) + 1] = c
      <3>1. (k + 1) - Len(s) = (k - Len(s)) + 1
        BY <1>3
      <3> QED BY <1>1, <1>3, <1>6, <3>1
    <2> QED BY <2>1 DEF Has, PairAt
  <1> QED BY <1>3, <1>4, <1>5, <1>6

\* The part of a line before its first "//" is tidy: it does not end in "/" either, or
\* "//" would have been found one position earlier.
LEMMA BeforeTidy ==
  ASSUME NEW line \in Seq(Chars), ~Has(line, "/", "*"), Has(line, "/", "/")
  PROVE  Tidy(Before(line))
  <1> DEFINE q == Find(line, "/", "/")
  <1>1. /\ q \in 1 .. (Len(line) - 1) /\ PairAt(line, q, "/", "/")
        /\ \A m \in 1 .. (q - 1) : ~PairAt(line, m, "/", "/")
    BY FindFirst
  <1> HIDE DEF q
  <1>2. Before(line) = SubSeq(line, 1, q - 1)
    BY DEF Before, q
  <1>3. /\ Before(line) \in Seq(Chars) /\ Len(Before(line)) = q - 1
        /\ \A k \in 1 .. (q - 1) : Before(line)[k] = line[k]
    BY <1>1, <1>2
  <1>4. ~Has(Before(line), "/", "*")
    BY <1>1, <1>2, PartHas
  <1>5. ~Has(Before(line), "/", "/")
    <2> SUFFICES ASSUME NEW k \in 1 .. (q - 1 - 1), PairAt(Before(line), k, "/", "/") PROVE FALSE
      BY <1>3 DEF Has
    <2>1. k \in 1 .. (q - 1) /\ k + 1 \in 1 .. (q - 1)
      BY <1>1
    <2>2. PairAt(line, k, "/", "/")
      BY <1>3, <2>1 DEF PairAt
    <2> QED BY <1>1, <2>1, <2>2
  <1>6. q - 1 > 0 => line[q - 1] # "/"
    <2> SUFFICES ASSUME q - 1 > 0, line[q - 1] = "/" PROVE FALSE
      OBVIOUS
    <2>1. q - 1 \in 1 .. (q - 1) /\ (q - 1) + 1 = q
      BY <1>1
    <2>2. PairAt(line, q - 1, "/", "/")
      BY <1>1, <2>1 DEF PairAt
    <2> QED BY <1>1, <2>1, <2>2
  <1> QED BY <1>1, <1>3, <1>4, <1>5, <1>6 DEF Tidy

\* Joining tidy texts gives a tidy text.
LEMMA JoinTidy ==
  ASSUME NEW s, NEW t, Tidy(s), Tidy(t)
  PROVE  Tidy(s \o t)
  <1>1. s \in Seq(Chars) /\ t \in Seq(Chars)
    BY DEF Tidy
  <1>2. ~Has(s \o t, "/", "*") /\ ~Has(s \o t, "/", "/")
    BY <1>1, JoinHas DEF Tidy
  <1>3. /\ s \o t \in Seq(Chars) /\ Len(s \o t) = Len(s) + Len(t)
        /\ \A k \in 1 .. (Len(s) + Len(t)) :
             (s \o t)[k] = IF k <= Len(s) THEN s[k] ELSE t[k - Len(s)]
    BY <1>1, ConcatProperties
  <1>4. Len(s \o t) > 0 => (s \o t)[Len(s \o t)] # "/"
    <2>1. CASE Len(t) > 0
      <3>1. (s \o t)[Len(s) + Len(t)] = t[Len(t)]
        BY <1>1, <1>3, <2>1
      <3> QED BY <1>3, <2>1, <3>1 DEF Tidy
    <2>2. CASE ~(Len(t) > 0)
      BY <1>1, <1>3, <2>2 DEF Tidy
    <2> QED BY <2>1, <2>2
  <1> QED BY <1>2, <1>3, <1>4 DEF Tidy

\* After the first loop no comment is opened by "/*", and what is put together stays tidy.
Cleaned ==
  /\ file \in Seq(Chars)
  /\ pc # "multi" => ~Has(file, "/", "*")
  /\ Tidy(result)

\* Whatever the text, what rmcomment returns opens no comment, not even where the ends of
\* two lines meet.
THEOREM ResultOpensNoComment == Spec => []ResultClean
  <1>1. Init => Cleaned
    <2>1. SeqOf(Chars, MaxInput) \subseteq Seq(Chars)
      BY RmCommentAssumption DEF SeqOf
    <2>2. Tidy(<< >>)
      BY DEF Tidy, Has
    <2> QED BY <2>1, <2>2 DEF Init, Cleaned
  <1>2. Cleaned /\ [Next]_vars => Cleaned'
    <2> SUFFICES ASSUME Cleaned, [Next]_vars PROVE Cleaned'
      OBVIOUS
    <2>1. CASE RemoveOpening
      <3> DEFINE k == Find(file, "/", "*") - 1
      <3>1. /\ file' = UpTo(file, k - 1) \o SubSeq(file, k + 2, Len(file))
            /\ pc = "multi" /\ UNCHANGED <<pc, result>> /\ Has(file, "/", "*")
        BY <2>1 DEF RemoveOpening
      <3>2. file \in Seq(Chars) /\ k \in 0 .. (Len(file) - 2)
        BY <3>1, FindFirst DEF Cleaned
      <3> HIDE DEF k
      <3>3. UpTo(file, k - 1) \in Seq(Chars) /\ SubSeq(file, k + 2, Len(file)) \in Seq(Chars)
        BY <3>2 DEF UpTo
      <3> QED BY <3>1, <3>3 DEF Cleaned
    <2>2. CASE EndOfFirstLoop
      BY <2>2 DEF EndOfFirstLoop, NoneLeft, Cleaned
    <2>3. CASE NextLine
      <3> DEFINE line == SubSeq(file, 1, LineLen(file))
      <3>1. /\ result' = IF Has(line, "/", "/") THEN result \o Before(line) ELSE result
            /\ file' = SubSeq(file, Len(line) + 2, Len(file))
            /\ pc = "single"
        BY <2>3 DEF NextLine
      <3>2. file \in Seq(Chars) /\ LineLen(file) \in 0 .. Len(file) /\ ~Has(file, "/", "*")
        BY <3>1, LineLenType DEF Cleaned
      <3>3. line \in Seq(Chars) /\ Len(line) \in Nat /\ ~Has(line, "/", "*")
        BY <3>2, PartHas
      <3> HIDE DEF line
      <3>4. file' \in Seq(Chars) /\ ~Has(file', "/", "*")
        <4>1. Len(line) + 2 \in Nat \ {0} /\ Len(file) \in 0 .. Len(file)
          BY <3>2, <3>3
        <4>2. file' \in Seq(Chars)
          BY <3>1, <3>2, <4>1
        <4> QED BY <3>1, <3>2, <4>1, <4>2, PartHas
      <3>5. Tidy(result')
        <4>1. CASE Has(line, "/", "/")
          BY <3>1, <3>3, <4>1, BeforeTidy, JoinTidy DEF Cleaned
        <4>2. CASE ~Has(line, "/", "/")
          BY <3>1, <4>2 DEF Cleaned
        <4> QED BY <4>1, <4>2
      <3> QED BY <3>4, <3>5 DEF Cleaned
    <2>4. CASE UNCHANGED vars
      BY <2>4 DEF vars, Cleaned
    <2> QED BY <2>1, <2>2, <2>3, <2>4 DEF Next
  <1>3. Cleaned => ResultClean
    BY DEF Cleaned, ResultClean, Tidy
  <1> QED BY <1>1, <1>2, <1>3, PTL DEF Spec

-----------------------------------------------------------------------------
(* The tree: what convert.py has done so far                               *)

Kinds == {"absent", "import", "ported", "partial"}

\* convert.py is at work in the folder d.
Inside == at \in {"files", "text", "write"}

\* The types of the variables of convert.py and reset.py.
TreeType ==
  /\ original \in [Folders -> SUBSET Files]
  /\ target \in [Folders -> [Files -> Kinds]]
  /\ made \subseteq Folders /\ folders \subseteq Folders
  /\ Inside => d \in Folders
  /\ at \in {"text", "write"} => x \in Readable(d)
  /\ at \in {"off", "folders", "files", "text", "write", "done", "crashed"}
  /\ Inside => files \subseteq Readable(d)

\* All that can be read of folder e has been converted as a whole, apart from the files in but.
Complete(e, but) ==
  e \in made /\ \A y \in Readable(e) \ but : target[e][y] \notin {"absent", "partial"}

\* What convert.py has not yet converted in the folder d.
Open == files \cup (IF at \in {"text", "write"} THEN {x} ELSE {})

\* How far convert.py is: the files it has written are readable ones, only one whose write
\* is not finished is in parts, and the folders it has left are complete.
Progress ==
  /\ \A e \in Folders, y \in Files :
       /\ target[e][y] # "absent" => y \in Readable(e)
       /\ target[e][y] = "partial" => (at = "write" /\ e = d /\ y = x) \/ <<e, y>> \in cut
  /\ at = "folders" \/ Inside =>
       \A e \in Folders \ folders : e # d \/ ~Inside => Complete(e, {})
  /\ Inside => Complete(d, Open)
  /\ at = "done" => \A e \in Folders : Complete(e, {})

\* Every step of convert.py keeps the types.
LEMMA ConvType == TreeType /\ ConvNext => TreeType'
  <1> SUFFICES ASSUME TreeType, ConvNext PROVE TreeType'
    OBVIOUS
  <1> USE DEF TreeType, Inside, Readable, Kinds, inputVars, walkVars, convVars
  <1>1. CASE Start
    BY <1>1 DEF Start
  <1>2. CASE EndFolder
    BY <1>2 DEF EndFolder, Leave
  <1>3. CASE RmCommentStep
    BY <1>3 DEF RmCommentStep
  <1>4. CASE BreakOff
    BY <1>4 DEF BreakOff, Leave
  <1>5. CASE OpenOutput \/ WriteOutput
    BY <1>5 DEF OpenOutput, WriteOutput
  <1>6. ASSUME NEW e \in Folders, NextFolder(e) PROVE TreeType'
    BY <1>6 DEF NextFolder, Made
  <1>7. ASSUME NEW y \in files, NEW s, CallConvert(y, s) PROVE TreeType'
    BY <1>7 DEF CallConvert, Opened
  <1> QED BY <1>1, <1>2, <1>3, <1>4, <1>5, <1>6, <1>7 DEF ConvNext

\* Every step of convert.py keeps Progress.
LEMMA ConvProgress == TreeType /\ Progress /\ ConvNext => Progress'
  <1> SUFFICES ASSUME TreeType, Progress, ConvNext PROVE Progress'
    OBVIOUS
  <1> USE DEF TreeType, Progress, Complete, Open, Inside, Readable, inputVars, walkVars, convVars
  <1>1. CASE Start
    BY <1>1 DEF Start, Stopped
  <1>2. CASE EndFolder
    BY <1>2 DEF EndFolder, Leave
  <1>3. CASE RmCommentStep
    BY <1>3 DEF RmCommentStep
  <1>4. CASE BreakOff
    BY <1>4 DEF BreakOff, Leave
  <1>5. CASE OpenOutput
    BY <1>5 DEF OpenOutput
  <1>6. CASE WriteOutput
    BY <1>6 DEF WriteOutput
  <1>7. ASSUME NEW e \in Folders, NextFolder(e) PROVE Progress'
    BY <1>7 DEF NextFolder, Made
  <1>8. ASSUME NEW y \in files, NEW s, CallConvert(y, s) PROVE Progress'
    BY <1>8 DEF CallConvert, Opened
  <1> QED BY <1>1, <1>2, <1>3, <1>4, <1>5, <1>6, <1>7, <1>8 DEF ConvNext

\* Porting a test keeps both.
LEMMA PortProgress ==
  ASSUME TreeType, Progress, NEW e \in Folders, NEW y \in Files, Port(e, y)
  PROVE  TreeType' /\ Progress'
  BY DEF TreeType, Progress, Complete, Open, Inside, Readable, Kinds, inputVars, walkVars, convVars,
         Port, Stopped

\* A folder of the tree holds C files and, after a compilation, the a.out.
LEMMA ContentSpared ==
  ASSUME TreeType, Progress, NEW e \in Folders, NEW f \in Content(e)
  PROVE  f = AOut \/ Spared(f)
  BY DEF TreeType, Progress, Content, Spared, Readable

\* reset.py and compiling leave the sources as they are.
LEMMA ResetKeepsTree ==
  ASSUME TreeType, Progress, r \in Folders \/ rat # "files", ResetNext
  PROVE  UNCHANGED convVars
  <1> USE DEF convVars
  <1>1. CASE StartReset \/ EndResetFolder \/ EndReset
    BY <1>1 DEF StartReset, EndResetFolder, EndReset
  <1>2. ASSUME NEW e \in Folders, ResetFolder(e) \/ Compile(e) PROVE UNCHANGED convVars
    BY <1>2 DEF ResetFolder, Compile
  <1>3. ASSUME NEW f \in Files \cup {AOut}, ResetFile(f) PROVE UNCHANGED convVars
    <2>1. f = AOut \/ Spared(f) \/ f \notin Content(r)
      BY <1>3, ContentSpared DEF ResetFile
    <2> QED BY <1>3, <2>1 DEF ResetFile, inputVars, walkVars
  <1> QED BY <1>1, <1>2, <1>3 DEF ResetNext

\* reset.py is in a folder of the tree while it goes through a listing.
InFolder == rat = "files" => r \in Folders

\* The types and Progress hold in every state.
LEMMA ProgressAlways == Spec2 => [](TreeType /\ Progress /\ InFolder)
  <1>1. Init2 => TreeType /\ Progress /\ InFolder
    BY DEF Init2, ConvInit, TreeType, Progress, Inside, Readable, Kinds, InFolder
  <1>2. TreeType /\ Progress /\ UNCHANGED convVars => TreeType' /\ Progress'
    BY DEF convVars, inputVars, walkVars, TreeType, Progress, Complete, Open, Inside, Readable
  <1>3. TreeType /\ Progress /\ InFolder /\ [Next2]_vars2 => TreeType' /\ Progress' /\ InFolder'
    <2> SUFFICES ASSUME TreeType, Progress, InFolder, [Next2]_vars2
                 PROVE  TreeType' /\ Progress' /\ InFolder'
      OBVIOUS
    <2>1. CASE ConvNext /\ UNCHANGED resetVars
      BY <2>1, ConvType, ConvProgress DEF InFolder, resetVars
    <2>2. CASE (\E e \in Folders, y \in Files : Port(e, y)) /\ UNCHANGED resetVars
      BY <2>2, PortProgress DEF InFolder, resetVars
    <2>3. CASE ResetNext
      <3>1. InFolder'
        BY <2>3 DEF InFolder, ResetNext, StartReset, EndResetFolder, EndReset, ResetFolder, Compile,
                    ResetFile
      <3> QED BY <1>2, <2>3, <3>1, ResetKeepsTree DEF InFolder
    <2>4. CASE UNCHANGED vars2
      BY <1>2, <2>4 DEF vars2, resetVars, InFolder
    <2> QED BY <2>1, <2>2, <2>3, <2>4 DEF Next2
  <1> QED BY <1>1, <1>3, PTL DEF Spec2

\* However many runs of convert.py hang or break off, and wherever: a test is in parts only
\* if the last write of just that test was broken off.
THEOREM NoPartialFileEver == Spec2 => []NoPartialFile
  <1>1. TreeType /\ Progress => NoPartialFile
    BY DEF Progress, NoPartialFile
  <1> QED BY <1>1, ProgressAlways, PTL

\* After a complete run of convert.py, and whatever reset.py and the user do then, the tree
\* holds exactly the readable C files of the originals, none of them in parts.
THEOREM TreeMirrors == Spec2 => []Mirrors
  <1>1. TreeType /\ Progress => Mirrors
    BY DEF TreeType, Progress, Mirrors, Complete, Readable
  <1> QED BY <1>1, ProgressAlways, PTL

-----------------------------------------------------------------------------
(* What reset.py has cleared                                               *)

\* An a.out that reset.py has not spoilt or printed is in a folder it has yet to look at.
Clearing ==
  /\ bins \subseteq made
  /\ rat \in {"off", "folders", "files", "done"}
  /\ rat \in {"folders", "files"} =>
       \A e \in bins \ spoilt : e \in rfolders \/ (rat = "files" /\ e = r /\ AOut \in rfiles)
  /\ ResetCleans

\* Every step of reset.py and every compilation keeps Clearing.
LEMMA ResetClearing == TreeType /\ Progress /\ InFolder /\ Clearing /\ ResetNext => Clearing'
  <1> SUFFICES ASSUME TreeType, Progress, InFolder, Clearing, ResetNext PROVE Clearing'
    OBVIOUS
  <1>0. made' = made
    BY ResetKeepsTree DEF convVars, InFolder
  <1> USE <1>0 DEF Clearing, ResetCleans
  <1>1. CASE StartReset
    BY <1>1 DEF StartReset
  <1>2. CASE EndResetFolder \/ EndReset
    BY <1>2 DEF EndResetFolder, EndReset
  <1>3. ASSUME NEW e \in Folders, ResetFolder(e) PROVE Clearing'
    BY <1>3 DEF ResetFolder, Content
  <1>4. ASSUME NEW e \in Folders, Compile(e) PROVE Clearing'
    BY <1>4 DEF Compile
  <1>5. ASSUME NEW f \in Files \cup {AOut}, ResetFile(f) PROVE Clearing'
    <2>1. rat = "files" /\ UNCHANGED <<rfolders, r, rat>>
      BY <1>5 DEF ResetFile
    <2>2. CASE f \in Files
      <3>1. bins' = bins /\ spoilt \subseteq spoilt' /\ rfiles' = rfiles \ {f}
        BY <1>5, <2>2, ResetAssumption DEF ResetFile, ContinuesAfter
      <3> QED BY <2>1, <2>2, <3>1, ResetAssumption
    <2>3. CASE f = AOut
      <3>1. (bins' = bins \ {r} /\ spoilt' = spoilt) \/ (bins' = bins /\ spoilt' = spoilt \cup {r})
        BY <1>5, <2>3, ResetAssumption DEF ResetFile, Spared
      <3> QED BY <2>1, <3>1
    <2> QED BY <2>2, <2>3
  <1> QED BY <1>1, <1>2, <1>3, <1>4, <1>5 DEF ResetNext

\* A reset that has come to its end leaves no a.out but those the user has made meanwhile
\* and those it has printed.
THEOREM ResetAlwaysCleans == Spec2 => []ResetCleans
  <1>1. Init2 => Clearing
    BY DEF Init2, Clearing, ResetCleans
  <1>2. TreeType /\ Progress /\ InFolder /\ Clearing /\ [Next2]_vars2 => Clearing'
    <2>0. Clearing /\ ConvNext /\ UNCHANGED resetVars => Clearing'
      <3>1. ConvNext => made \subseteq made'
        BY DEF ConvNext, Start, EndFolder, RmCommentStep, BreakOff, OpenOutput, WriteOutput, NextFolder,
               CallConvert, Made, convVars
      <3> QED BY <3>1 DEF Clearing, ResetCleans, resetVars
    <2>1. Clearing /\ (\E e \in Folders, y \in Files : Port(e, y)) /\ UNCHANGED resetVars => Clearing'
      BY DEF Clearing, ResetCleans, resetVars, Port
    <2>2. Clearing /\ UNCHANGED vars2 => Clearing'
      BY DEF Clearing, ResetCleans, resetVars, vars2, convVars
    <2> QED BY <2>0, <2>1, <2>2, ResetClearing DEF Next2
  <1>3. Clearing => ResetCleans
    BY DEF Clearing
  <1> QED BY <1>1, <1>2, <1>3, ProgressAlways, PTL DEF Spec2
=============================================================================
